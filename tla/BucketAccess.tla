---------------------------- MODULE BucketAccess ----------------------------
(***************************************************************************)
(* The BucketAccess reconciler together with the access half of the Garage *)
(* and SeaweedFS drivers: how an S3 key is minted, handed over in a        *)
(* Secret, recorded in the status, rotated and revoked.                    *)
(*                                                                         *)
(* A reconcile is a sequence of calls to the API server and to the         *)
(* backend.  Every call is one step of the worker (pc), so any other actor *)
(* may act between two calls and the process may die between them.  What   *)
(* the other controllers, the user and the administrator do is the         *)
(* environment: the view env of the claim, bucket, store and policy.       *)
(*                                                                         *)
(* Abstractions.                                                           *)
(*  - A key stands for an access key id with its secret key; a Secret is a *)
(*    pair <<id, secret>> that may or may not belong together.             *)
(*  - Keys that exist in the backend are live; whether the key also holds  *)
(*    the bucket permission is not kept (allow is a step that may fail).   *)
(*  - Every access has its own claim, bucket, store and policy verdict:    *)
(*    sharing them would only correlate the changes.                       *)
(*  - accessAuthorized is the verdict env.granted, whichever rule (owner   *)
(*    namespace or BucketClaimPolicy) gives it.                            *)
(*  - An optimistic-concurrency conflict is a difference in content.       *)
(*  - Everything that goes wrong and everything the environment does is a  *)
(*    named disturbance, taken from Disturb and charged to a budget.       *)
(***************************************************************************)
EXTENDS Naturals, FiniteSets

CONSTANTS
    Access,        \* the BucketAccess objects of one namespace
    SecretName,    \* names of credentials Secrets
    SecretOf,      \* SecretOf[a]: the name credentialsSecretName gives for a
    Key,           \* access keys the backend can mint
    NoKey,         \* the empty access key id
    Rotation,      \* values of the rotate annotation
    NoRotation,    \* the value of a missing annotation
    Backend,       \* the driver the Registry resolves
    Workers,       \* MaxConcurrentReconciles
    Disturb,       \* the disturbances that may happen
    MaxDisturb     \* how many of them

Faults ==
    {"crash", "lag", "read", "resolve", "apiWrite", "secretWrite",
     "statusWrite", "backend", "noToken", "lostReply", "rollback",
     "deletePrev"}

Intents ==
    {"policy", "claimLost", "claimGone", "bucketFlap", "bucketGone",
     "storeGone", "storeRetain", "vanish", "rotate", "delete", "secretGone"}

\* Disturbances after which the driver has lost track of a key.  Garage revokes
\* by the recorded id: the id of a minted key is lost before the status records
\* it, or the record is dropped while the key is alive.  SeaweedFS revokes by
\* name, and misses a key only when it is not asked.
LosesKeys ==
    {"resolve", "noToken", "claimGone", "bucketGone", "storeRetain"}
    \cup IF Backend = "Garage"
         THEN {"crash", "lag", "statusWrite", "lostReply", "rollback", "deletePrev"}
         ELSE {}

\* Disturbances after which a driver that cannot recover a secret key may
\* leave a Secret behind the status.
LosesPairs == {"secretWrite", "lag"}

\* Disturbances that say nothing of what anybody wants.
HealthOnly ==
    {"bucketFlap", "crash", "read", "apiWrite", "statusWrite", "backend",
     "lostReply", "rollback"}

\* What is promised until a disturbance of the wrong kind happens.
Guarantee == {"keys", "pairs", "outage"}

Voids(d) ==
    {g \in Guarantee : \/ g = "keys" /\ d \in LosesKeys
                       \/ g = "pairs" /\ d \in LosesPairs
                       \/ g = "outage" /\ d \notin HealthOnly}

ASSUME ConstantsAssumption ==
    /\ SecretOf \in [Access -> SecretName]
    /\ NoKey \notin Key
    /\ NoRotation \in Rotation
    /\ Backend \in {"Garage", "SeaweedFS"}
    /\ "none" \notin Access
    /\ Workers \in Nat
    /\ Disturb \subseteq Faults \cup Intents
    /\ MaxDisturb \in Nat

VARIABLES
    obj,      \* obj[a]: the BucketAccess in the API server
    cache,    \* cache[a]: the same object in the manager's informer cache
    secrets,  \* the credentials Secrets in the API server
    live,     \* live[a]: the keys minted for a that exist in the backend
    used,     \* keys ever minted
    env,      \* env[a]: claim, bucket, store and policy behind a
    pc,       \* pc[a]: the next call of the reconcile of a
    snap,     \* snap[a]: the object that reconcile read at its start
    loc,      \* loc[a]: what it learnt since
    budget    \* disturbances left, and the guarantees they left intact

vars == <<obj, cache, secrets, live, used, env, pc, snap, loc, budget>>

-----------------------------------------------------------------------------
(* Types *)

KeyOrNone == Key \cup {NoKey}

\* metadata (phase, fin, rotate) and status (key, obsRot, ready)
Object ==
    [phase: {"absent", "live", "deleting"}, fin: BOOLEAN, rotate: Rotation,
     key: KeyOrNone, obsRot: Rotation, ready: BOOLEAN]

NewObject ==
    [phase |-> "live", fin |-> FALSE, rotate |-> NoRotation,
     key |-> NoKey, obsRot |-> NoRotation, ready |-> FALSE]

\* owner is the access whose controller reference the Secret carries;
\* ak is AWS_ACCESS_KEY_ID, sk the key whose secret it stores.
Secret == [owner: Access, ak: KeyOrNone, sk: KeyOrNone]
NoSecret == [owner |-> "none", ak |-> NoKey, sk |-> NoKey]

\* claim: absent, never bound, no longer bound (boundBucketName survives), bound
Environment ==
    [claim: {"none", "unbound", "lost", "bound"},
     bucket: {"none", "notReady", "ready"}, store: BOOLEAN, granted: BOOLEAN]

PC == {"idle", "finalizer", "claim", "resolve", "authorize", "revokeKey",
       "dropSecret", "getSecret", "ensure", "mint", "allow", "deletePrev",
       "putIdentity", "writeSecret", "status", "delClaim", "delResolve",
       "delKey", "release"}

\* bound, bucket, store: claimBound(claim), the resolved Bucket and ObjectStore;
\* mint: mintFresh; old: the secret key in the existing Secret;
\* key, sk: AccessState; ready: what the builder says of Ready; revoked
Local ==
    [bound: BOOLEAN, bucket: {"none", "notReady", "ready"}, store: BOOLEAN,
     mint: BOOLEAN, old: KeyOrNone, key: KeyOrNone, sk: KeyOrNone,
     ready: {"True", "False", "Keep"}, revoked: BOOLEAN]

NoLocal ==
    [bound |-> FALSE, bucket |-> "none", store |-> FALSE, mint |-> FALSE,
     old |-> NoKey, key |-> NoKey, sk |-> NoKey, ready |-> "Keep",
     revoked |-> FALSE]

Budget == [left: Nat, kept: SUBSET Guarantee]

\* Every object, Secret, key and local of a reconcile keeps its type; what a driver
\* hands over is a key or none (driver.go AccessState).
TypeOK ==
    /\ obj \in [Access -> Object]
    /\ cache \in [Access -> Object]
    /\ secrets \in [SecretName -> Secret \cup {NoSecret}]
    /\ live \in [Access -> SUBSET Key]
    /\ used \in SUBSET Key
    /\ env \in [Access -> Environment]
    /\ pc \in [Access -> PC]
    /\ snap \in [Access -> Object]
    /\ loc \in [Access -> Local]
    /\ budget \in Budget

WithClaim(e, c) == [e EXCEPT !.claim = c]
WithBucket(e, b) == [e EXCEPT !.bucket = b]
WithStore(e, up) == [e EXCEPT !.store = up]
WithoutStore(e) == [e EXCEPT !.store = FALSE]
WithGrant(e, granted) == [e EXCEPT !.granted = granted]

-----------------------------------------------------------------------------
(* Steps of the worker *)

Disturbance(d) ==
    /\ d \in Disturb
    /\ budget.left > 0
    /\ budget' = [left |-> budget.left - 1, kept |-> budget.kept \ Voids(d)]

Goto(a, label) == pc' = [pc EXCEPT ![a] = label]

\* A reconcile that returns: its locals are gone.
Return(a) ==
    /\ Goto(a, "idle")
    /\ snap' = [snap EXCEPT ![a] = NewObject]
    /\ loc' = [loc EXCEPT ![a] = NoLocal]

\* What the builder and observed hold when a reconcile stops early.
Outcome(ready, key) == [NoLocal EXCEPT !.ready = ready, !.key = key]

\* finish: go on to updateStatus with the condition and key of the builder.
\* A failed EnsureAccess reports the recorded key, other exits report none.
Finish(a, ready, key) ==
    /\ Goto(a, "status")
    /\ loc' = [loc EXCEPT ![a] = Outcome(ready, key)]
    /\ UNCHANGED snap

\* The workqueue never hands the same object to two workers.
WorkerFree == Cardinality({b \in Access : pc[b] # "idle"}) < Workers

\* Reconcile: the object is read from the cache, which may lag behind.
Reconcile(a) ==
    /\ pc[a] = "idle"
    /\ WorkerFree
    /\ cache[a].phase # "absent"
    /\ \/ cache[a] = obj[a] /\ UNCHANGED budget
       \/ cache[a] # obj[a] /\ Disturbance("lag")
    /\ snap' = [snap EXCEPT ![a] = cache[a]]
    /\ Goto(a, IF cache[a].phase = "deleting" THEN "delClaim"
               ELSE IF cache[a].fin THEN "claim" ELSE "finalizer")
    /\ UNCHANGED <<obj, cache, secrets, live, used, env, loc>>

Finalized(o) == [o EXCEPT !.fin = TRUE]

AddFinalizer(a) ==
    /\ pc[a] = "finalizer"
    /\ \/ /\ obj[a] = snap[a]
          /\ obj' = [obj EXCEPT ![a] = Finalized(@)]
          /\ snap' = [snap EXCEPT ![a] = Finalized(@)]
          /\ Goto(a, "claim")
          /\ UNCHANGED <<loc, budget>>
       \/ /\ \/ obj[a] # snap[a] /\ UNCHANGED budget
             \/ Disturbance("apiWrite")
          /\ Return(a)
          /\ UNCHANGED obj
    /\ UNCHANGED <<cache, secrets, live, used, env>>

\* The revocation branch: nothing to revoke unless the status records a key.
\* DeleteAccess is skipped when the Bucket or ObjectStore did not resolve.
\* Deleting the Secret leaves the conditions as they are if it fails (Keep)
\* except on the claim-is-gone path, which only logs the failure.
EnforceRevocation(a, resolved, onDropFailure) ==
    IF snap[a].key = NoKey
    THEN Finish(a, "False", NoKey)
    ELSE /\ Goto(a, IF resolved THEN "revokeKey" ELSE "dropSecret")
         /\ loc' = [loc EXCEPT ![a] = Outcome(onDropFailure, NoKey)]
         /\ UNCHANGED snap

SawClaim(l, e) == [l EXCEPT !.bound = (e.claim = "bound")]

ReadClaim(a) ==
    /\ pc[a] = "claim"
    /\ \/ /\ env[a].claim = "none"
          /\ EnforceRevocation(a, FALSE, "False")
          /\ UNCHANGED budget
       \/ /\ env[a].claim = "unbound"
          /\ EnforceRevocation(a, FALSE, "Keep")
          /\ UNCHANGED budget
       \/ /\ env[a].claim \in {"lost", "bound"}
          /\ loc' = [loc EXCEPT ![a] = SawClaim(@, env[a])]
          /\ Goto(a, "resolve")
          /\ UNCHANGED <<snap, budget>>
       \/ /\ Disturbance("read")
          /\ Finish(a, "Keep", NoKey)
    /\ UNCHANGED <<obj, cache, secrets, live, used, env>>

SawBucket(l, e) == [l EXCEPT !.bucket = e.bucket, !.store = e.store]

\* resolveBound turns every error into "missing", of the Bucket or of the store.
ResolveBound(a) ==
    /\ pc[a] = "resolve"
    /\ \/ /\ env[a].bucket # "none"
          /\ \/ /\ loc' = [loc EXCEPT ![a] = SawBucket(@, env[a])]
                /\ UNCHANGED budget
             \/ /\ loc' = [loc EXCEPT ![a] = SawBucket(@, WithoutStore(env[a]))]
                /\ Disturbance("resolve")
          /\ Goto(a, "authorize")
          /\ UNCHANGED snap
       \/ /\ \/ env[a].bucket = "none" /\ UNCHANGED budget
             \/ Disturbance("resolve")
          /\ EnforceRevocation(a, FALSE, "Keep")
    /\ UNCHANGED <<obj, cache, secrets, live, used, env>>

\* A bucket that exists but is not Ready is health, not intent.
BucketUnhealthy(l, granted) ==
    l.store /\ l.bound /\ granted /\ l.bucket # "ready"

\* mutated form: the policy is not consulted
Usable_Ungated(l, granted) == l.store /\ l.bound

Usable(l, granted) == l.store /\ l.bound /\ granted

Authorize(a) ==
    /\ pc[a] = "authorize"
    /\ \/ /\ BucketUnhealthy(loc[a], env[a].granted)
          /\ Finish(a, "False", NoKey)
          /\ UNCHANGED budget
       \/ /\ ~BucketUnhealthy(loc[a], env[a].granted)
          /\ ~Usable(loc[a], env[a].granted)
          /\ EnforceRevocation(a, loc[a].store, "Keep")
          /\ UNCHANGED budget
       \/ /\ ~BucketUnhealthy(loc[a], env[a].granted)
          /\ Usable(loc[a], env[a].granted)
          /\ Goto(a, "getSecret")
          /\ loc' = [loc EXCEPT ![a] = NoLocal]
          /\ UNCHANGED <<snap, budget>>
       \/ /\ Disturbance("read")
          /\ Finish(a, "False", NoKey)
    /\ UNCHANGED <<obj, cache, secrets, live, used, env>>

\* mutated form: the SeaweedFS driver revokes by recorded key as well
RevokedKeys_Recorded(a) == IF env[a].store THEN {snap[a].key} ELSE {}

\* DeleteAccess: Garage deletes the key the status records, SeaweedFS the
\* identity file named after the access, whatever key it holds.
\* Without the store there is nothing to talk to, and that counts as done.
RevokedKeys(a) ==
    CASE ~env[a].store -> {}
      [] env[a].store /\ Backend = "Garage" -> {snap[a].key}
      [] env[a].store /\ Backend = "SeaweedFS" -> live[a]

DriverDeleteAccess(a) ==
    live' = [live EXCEPT ![a] = @ \ RevokedKeys(a)]

RevokeKey(a) ==
    /\ pc[a] = "revokeKey"
    /\ \/ /\ DriverDeleteAccess(a)
          /\ Goto(a, "dropSecret")
          /\ UNCHANGED <<snap, loc, budget>>
       \/ /\ Disturbance("noToken")    \* no admin credentials: a no-op
          /\ Goto(a, "dropSecret")
          /\ UNCHANGED <<live, snap, loc>>
       \/ /\ Disturbance("backend")
          /\ Finish(a, "False", NoKey)
          /\ UNCHANGED live
       \/ /\ Disturbance("lostReply")
          /\ DriverDeleteAccess(a)
          /\ Finish(a, "False", NoKey)
    /\ UNCHANGED <<obj, cache, secrets, used, env>>

Dropped(l) == [l EXCEPT !.ready = "False", !.revoked = TRUE]

\* deleteCredentialsSecret deletes by name.
DropSecret(a) ==
    /\ pc[a] = "dropSecret"
    /\ \/ /\ secrets' = [secrets EXCEPT ![SecretOf[a]] = NoSecret]
          /\ loc' = [loc EXCEPT ![a] = Dropped(@)]
          /\ Goto(a, "status")
          /\ UNCHANGED <<snap, budget>>
       \/ /\ Disturbance("apiWrite")
          /\ Finish(a, loc[a].ready, NoKey)
          /\ UNCHANGED secrets
    /\ UNCHANGED <<obj, cache, live, used, env>>

\* mutated form: a missing Secret does not force a new key
MintFresh_IgnoresSecret(o, secret) == o.rotate # o.obsRot \/ o.key = NoKey

\* mutated form: an access that is not Ready gets a new key
MintFresh_WhenNotReady(o, secret) ==
    ~o.ready \/ o.rotate # o.obsRot \/ o.key = NoKey \/ secret = NoSecret

\* A rotation is asked for, no key was issued yet, or the Secret is missing.
MintFresh(o, secret) ==
    o.rotate # o.obsRot \/ o.key = NoKey \/ secret = NoSecret

SawSecret(l, o, secret) ==
    [l EXCEPT !.mint = MintFresh(o, secret), !.old = secret.sk]

GetSecret(a) ==
    /\ pc[a] = "getSecret"
    /\ \/ /\ loc' = [loc EXCEPT ![a] =
                        SawSecret(@, snap[a], secrets[SecretOf[a]])]
          /\ Goto(a, "ensure")
          /\ UNCHANGED <<snap, budget>>
       \/ /\ Disturbance("read")
          /\ Finish(a, "Keep", NoKey)
    /\ UNCHANGED <<obj, cache, secrets, live, used, env>>

-----------------------------------------------------------------------------
(* EnsureAccess of the Garage driver *)

\* An EnsureAccess that fails or is not ready yet records the recorded key.
EnsureFails(a) == Finish(a, "False", snap[a].key)

\* The data plane does not answer: it is gone, or the call fails.
Unreachable(a) ==
    \/ ~env[a].store /\ UNCHANGED budget
    \/ Disturbance("backend")

MustMint(l) == [l EXCEPT !.mint = TRUE]
Reused(l, k) == [l EXCEPT !.key = k]           \* the secret key stays unknown

\* mutated form: the id of the new key is not taken over
Issued_NoId(l, k) == [l EXCEPT !.sk = k]

Issued(l, k) == [l EXCEPT !.key = k, !.sk = k]

EnsureGarage(a) ==
    /\ Backend = "Garage"
    /\ pc[a] = "ensure"
    /\ \/ /\ env[a].store
          /\ loc[a].mint \/ snap[a].key \notin live[a]
          /\ loc' = [loc EXCEPT ![a] = MustMint(@)]
          /\ Goto(a, "mint")
          /\ UNCHANGED <<snap, budget>>
       \/ /\ env[a].store
          /\ ~loc[a].mint /\ snap[a].key \in live[a]
          /\ loc' = [loc EXCEPT ![a] = Reused(@, snap[a].key)]
          /\ Goto(a, "allow")
          /\ UNCHANGED <<snap, budget>>
       \/ Unreachable(a) /\ EnsureFails(a)
    /\ UNCHANGED <<obj, cache, secrets, live, used, env>>

CreateKey(a) ==
    /\ pc[a] = "mint"
    /\ \/ \E k \in Key \ used :
             /\ env[a].store
             /\ live' = [live EXCEPT ![a] = @ \cup {k}]
             /\ used' = used \cup {k}
             /\ \/ /\ loc' = [loc EXCEPT ![a] = Issued(@, k)]
                   /\ Goto(a, "allow")
                   /\ UNCHANGED <<snap, budget>>
                \/ Disturbance("lostReply") /\ EnsureFails(a)
       \/ /\ Unreachable(a)
          /\ EnsureFails(a)
          /\ UNCHANGED <<live, used>>
    /\ UNCHANGED <<obj, cache, secrets, env>>

\* Granting a key that no longer exists fails; a key just minted is rolled
\* back, best-effort, when the grant fails.
Allow(a) ==
    /\ pc[a] = "allow"
    /\ \/ /\ env[a].store /\ loc[a].key \in live[a]
          /\ Goto(a, IF loc[a].mint /\ snap[a].key # NoKey
                     THEN "deletePrev" ELSE "writeSecret")
          /\ UNCHANGED <<live, snap, loc, budget>>
       \/ /\ env[a].store
          /\ \/ loc[a].key \notin live[a] /\ UNCHANGED budget
             \/ Disturbance("backend")
          /\ live' = [live EXCEPT ![a] = @ \ {loc[a].sk}]
          /\ EnsureFails(a)
       \/ /\ \/ ~env[a].store /\ UNCHANGED budget
             \/ Disturbance("rollback")
          /\ EnsureFails(a)
          /\ UNCHANGED live
    /\ UNCHANGED <<obj, cache, secrets, used, env>>

DeletePrev(a) ==
    /\ pc[a] = "deletePrev"
    /\ \/ /\ env[a].store
          /\ live' = [live EXCEPT ![a] = @ \ {snap[a].key}]
          /\ \/ Goto(a, "writeSecret") /\ UNCHANGED <<snap, loc, budget>>
             \/ Disturbance("lostReply") /\ EnsureFails(a)
       \/ /\ \/ ~env[a].store /\ UNCHANGED budget
             \/ Disturbance("deletePrev")
          /\ EnsureFails(a)
          /\ UNCHANGED live
    /\ UNCHANGED <<obj, cache, secrets, used, env>>

-----------------------------------------------------------------------------
(* EnsureAccess of the SeaweedFS driver: one identity file per access *)

ReadIdentity(a) ==
    /\ Backend = "SeaweedFS"
    /\ pc[a] = "ensure"
    /\ \/ /\ env[a].store
          /\ loc[a].mint \/ live[a] = {}
          /\ \E k \in Key \ used :
                /\ used' = used \cup {k}
                /\ loc' = [loc EXCEPT ![a] = Issued(@, k)]
          /\ Goto(a, "putIdentity")
          /\ UNCHANGED <<snap, budget>>
       \/ /\ env[a].store
          /\ ~loc[a].mint
          /\ \E k \in live[a] :
                loc' = [loc EXCEPT ![a] = Issued(@, k)]
          /\ Goto(a, "putIdentity")
          /\ UNCHANGED <<snap, used, budget>>
       \/ Unreachable(a) /\ EnsureFails(a) /\ UNCHANGED used
    /\ UNCHANGED <<obj, cache, secrets, live, env>>

\* The file is replaced as a whole and read back.
WriteIdentity(a) ==
    /\ pc[a] = "putIdentity"
    /\ \/ /\ env[a].store
          /\ live' = [live EXCEPT ![a] = {loc[a].key}]
          /\ \/ /\ Goto(a, "writeSecret")
                /\ UNCHANGED <<snap, loc, budget>>
             \/ Disturbance("lostReply") /\ EnsureFails(a)
       \/ Unreachable(a) /\ EnsureFails(a) /\ UNCHANGED live
    /\ UNCHANGED <<obj, cache, secrets, used, env>>

-----------------------------------------------------------------------------
(* CredentialsReady, status and deletion *)

\* mutated form: a Secret that exists keeps its secret key
SecretKeyToStore_Keeps(l) == IF l.old # NoKey THEN l.old ELSE l.sk

\* A reused key keeps the secret key that the existing Secret stores.
SecretKeyToStore(l) == IF l.sk # NoKey THEN l.sk ELSE l.old

\* SetControllerReference refuses a Secret another access controls.
OwnedByOther(a) == secrets[SecretOf[a]].owner \notin {a, "none"}

Written(l) == [l EXCEPT !.ready = "True"]

EnsureCredentialsSecret(a) ==
    /\ pc[a] = "writeSecret"
    /\ \/ /\ ~OwnedByOther(a)
          /\ secrets' = [secrets EXCEPT ![SecretOf[a]] =
                [owner |-> a, ak |-> loc[a].key, sk |-> SecretKeyToStore(loc[a])]]
          /\ loc' = [loc EXCEPT ![a] = Written(@)]
          /\ Goto(a, "status")
          /\ UNCHANGED <<snap, budget>>
       \/ /\ \/ OwnedByOther(a) /\ UNCHANGED budget
             \/ Disturbance("secretWrite")
          /\ Finish(a, "False", loc[a].key)
          /\ UNCHANGED secrets
    /\ UNCHANGED <<obj, cache, live, used, env>>

\* mutated form: the key is recorded only with the Secret
NewStatus_KeyWithSecret(latest, o, l) ==
    [latest EXCEPT
        !.ready = IF l.ready = "Keep" THEN @ ELSE l.ready = "True",
        !.key = IF l.revoked THEN NoKey ELSE IF l.ready = "True" THEN l.key ELSE @,
        !.obsRot = IF l.revoked THEN NoRotation
                   ELSE IF l.ready = "True" THEN o.rotate ELSE @]

\* The status that updateStatus computes from the latest object.
NewStatus(latest, o, l) ==
    [latest EXCEPT
        !.ready = IF l.ready = "Keep" THEN @ ELSE l.ready = "True",
        !.key = IF l.revoked THEN NoKey ELSE IF l.key # NoKey THEN l.key ELSE @,
        !.obsRot = IF l.revoked THEN NoRotation
                   ELSE IF l.ready = "True" THEN o.rotate ELSE @]

\* updateStatus starts from the cached object: a conflict is retried until the
\* cache has caught up, an unchanged status is not written, a missing object is
\* an error.
UpdateStatus(a) ==
    /\ pc[a] = "status"
    /\ \/ /\ cache[a] = obj[a] /\ obj[a].phase # "absent"
          /\ obj' = [obj EXCEPT ![a] = NewStatus(@, snap[a], loc[a])]
          /\ UNCHANGED budget
       \/ /\ \/ NewStatus(cache[a], snap[a], loc[a]) = cache[a]
             \/ cache[a].phase = "absent"
          /\ UNCHANGED <<obj, budget>>
       \/ Disturbance("statusWrite") /\ UNCHANGED obj
    /\ Return(a)
    /\ UNCHANGED <<cache, secrets, live, used, env>>

DeleteReadClaim(a) ==
    /\ pc[a] = "delClaim"
    /\ \/ /\ Goto(a, IF env[a].claim \in {"none", "unbound"}
                     THEN "release" ELSE "delResolve")
          /\ UNCHANGED <<snap, loc, budget>>
       \/ Disturbance("read") /\ Return(a)
    /\ UNCHANGED <<obj, cache, secrets, live, used, env>>

\* mutated form: an unresolvable bucket is retried
AfterResolve_Retries(e) ==
    IF e.bucket # "none" /\ e.store THEN "delKey" ELSE "delClaim"

\* A bucket or store that is gone is taken to have taken the key with it.
AfterResolve(e) ==
    IF e.bucket # "none" /\ e.store THEN "delKey" ELSE "release"

DeleteResolve(a) ==
    /\ pc[a] = "delResolve"
    /\ \/ /\ Goto(a, AfterResolve(env[a]))
          /\ UNCHANGED budget
       \/ Disturbance("resolve") /\ Goto(a, "release")
    /\ UNCHANGED <<obj, cache, secrets, live, used, env, snap, loc>>

DeleteKey(a) ==
    /\ pc[a] = "delKey"
    /\ \/ /\ DriverDeleteAccess(a)
          /\ \/ Goto(a, "release") /\ UNCHANGED <<snap, loc, budget>>
             \/ Disturbance("lostReply") /\ Return(a)
       \/ /\ UNCHANGED live
          /\ \/ Disturbance("backend") /\ Return(a)
             \/ /\ Disturbance("noToken")
                /\ Goto(a, "release")
                /\ UNCHANGED <<snap, loc>>
    /\ UNCHANGED <<obj, cache, secrets, used, env>>

\* Removing the last finalizer of a deleted object makes it disappear.
Gone == [NewObject EXCEPT !.phase = "absent"]

Release(a) ==
    /\ pc[a] = "release"
    /\ \/ /\ obj[a] = snap[a]
          /\ obj' = [obj EXCEPT ![a] = Gone]
          /\ UNCHANGED budget
       \/ /\ \/ obj[a] # snap[a] /\ UNCHANGED budget
             \/ Disturbance("apiWrite")
          /\ UNCHANGED obj
    /\ Return(a)
    /\ UNCHANGED <<cache, secrets, live, used, env>>

-----------------------------------------------------------------------------
(* The API server, the process, the user and the other controllers *)

\* The informer cache catches up.
CacheSync(a) ==
    /\ cache[a] # obj[a]
    /\ cache' = [cache EXCEPT ![a] = obj[a]]
    /\ UNCHANGED <<obj, secrets, live, used, env, pc, snap, loc, budget>>

\* The garbage collector follows the controller reference.
CollectSecret(a) ==
    /\ obj[a].phase = "absent"
    /\ secrets[SecretOf[a]].owner = a
    /\ secrets' = [secrets EXCEPT ![SecretOf[a]] = NoSecret]
    /\ UNCHANGED <<obj, cache, live, used, env, pc, snap, loc, budget>>

\* The process dies; its successor lists every object afresh.
Crash ==
    /\ Disturbance("crash")
    /\ \E a \in Access : pc[a] # "idle"
    /\ pc' = [a \in Access |-> "idle"]
    /\ snap' = [a \in Access |-> NewObject]
    /\ loc' = [a \in Access |-> NoLocal]
    /\ cache' = obj
    /\ UNCHANGED <<obj, secrets, live, used, env>>

\* boundBucketName is never cleared: a claim that was bound is lost, not unbound.
NextClaim == [none |-> "unbound", unbound |-> "bound", lost |-> "none",
              bound |-> "none"]

ClaimChange(a) ==
    /\ \E c \in {"none", "unbound", "lost", "bound"} :
          /\ env' = [env EXCEPT ![a] = WithClaim(@, c)]
          /\ \/ /\ Disturbance("claimLost")
                /\ {env[a].claim, c} = {"lost", "bound"}
             \/ /\ Disturbance("claimGone")
                /\ c = NextClaim[env[a].claim]
    /\ UNCHANGED <<obj, cache, secrets, live, used, pc, snap, loc>>

BucketChange(a) ==
    /\ \E b \in {"none", "notReady", "ready"} :
          /\ env' = [env EXCEPT ![a] = WithBucket(@, b)]
          /\ \/ /\ Disturbance("bucketFlap")
                /\ {env[a].bucket, b} = {"notReady", "ready"}
             \/ /\ Disturbance("bucketGone")
                /\ b = IF env[a].bucket = "none" THEN "notReady" ELSE "none"
    /\ UNCHANGED <<obj, cache, secrets, live, used, pc, snap, loc>>

\* Reclaim policy Delete destroys the keys with the data plane; Retain leaves
\* the volumes, and with them the keys, to a store of the same name.
StoreChange(a) ==
    /\ \/ /\ Disturbance("storeGone")
          /\ live' = [live EXCEPT ![a] = {}]
       \/ /\ Disturbance("storeRetain")
          /\ UNCHANGED live
    /\ env' = [env EXCEPT ![a] = WithStore(@, ~@.store)]
    /\ UNCHANGED <<obj, cache, secrets, used, pc, snap, loc>>

PolicyChange(a) ==
    /\ Disturbance("policy")
    /\ env' = [env EXCEPT ![a] = WithGrant(@, ~@.granted)]
    /\ UNCHANGED <<obj, cache, secrets, live, used, pc, snap, loc>>

\* The data plane is recreated empty: every key it knew is gone.
Vanish(a) ==
    /\ Disturbance("vanish")
    /\ live[a] # {}
    /\ live' = [live EXCEPT ![a] = {}]
    /\ UNCHANGED <<obj, cache, secrets, used, env, pc, snap, loc>>

Annotated(o, r) == [o EXCEPT !.rotate = r]

UserRotate(a) ==
    /\ Disturbance("rotate")
    /\ obj[a].phase = "live"
    /\ \E r \in Rotation \ {obj[a].rotate} : obj' = [obj EXCEPT ![a] = Annotated(@, r)]
    /\ UNCHANGED <<cache, secrets, live, used, env, pc, snap, loc>>

\* Without a finalizer a deleted object is gone at once.
Deleted(o) == IF o.fin THEN [o EXCEPT !.phase = "deleting"] ELSE Gone

UserDelete(a) ==
    /\ Disturbance("delete")
    /\ obj[a].phase = "live"
    /\ obj' = [obj EXCEPT ![a] = Deleted(@)]
    /\ UNCHANGED <<cache, secrets, live, used, env, pc, snap, loc>>

UserDeletesSecret(a) ==
    /\ Disturbance("secretGone")
    /\ secrets[SecretOf[a]] # NoSecret
    /\ secrets' = [secrets EXCEPT ![SecretOf[a]] = NoSecret]
    /\ UNCHANGED <<obj, cache, live, used, env, pc, snap, loc>>

-----------------------------------------------------------------------------
(* Specification *)

\* The accesses have just been created behind a claim that is bound.
Init ==
    /\ obj = [a \in Access |-> NewObject]
    /\ cache = [a \in Access |-> NewObject]
    /\ secrets = [n \in SecretName |-> NoSecret]
    /\ live = [a \in Access |-> {}]
    /\ used = {}
    /\ env = [a \in Access |-> [claim |-> "bound", bucket |-> "ready",
                                store |-> TRUE, granted |-> TRUE]]
    /\ pc = [a \in Access |-> "idle"]
    /\ snap = [a \in Access |-> NewObject]
    /\ loc = [a \in Access |-> NoLocal]
    /\ budget = [left |-> MaxDisturb, kept |-> Guarantee]

Step(a) ==
    \/ AddFinalizer(a) \/ ReadClaim(a) \/ ResolveBound(a) \/ Authorize(a)
    \/ RevokeKey(a) \/ DropSecret(a) \/ GetSecret(a)
    \/ EnsureGarage(a) \/ CreateKey(a) \/ Allow(a) \/ DeletePrev(a)
    \/ ReadIdentity(a) \/ WriteIdentity(a)
    \/ EnsureCredentialsSecret(a) \/ UpdateStatus(a)
    \/ DeleteReadClaim(a) \/ DeleteResolve(a) \/ DeleteKey(a) \/ Release(a)

Surroundings(a) ==
    \/ ClaimChange(a) \/ BucketChange(a) \/ StoreChange(a) \/ PolicyChange(a)
    \/ Vanish(a) \/ UserRotate(a) \/ UserDelete(a) \/ UserDeletesSecret(a)

Next ==
    \/ \E a \in Access :
          Reconcile(a) \/ Step(a) \/ CacheSync(a) \/ CollectSecret(a)
             \/ Surroundings(a)
    \/ Crash

Spec == Init /\ [][Next]_vars

\* Every reconcile ends with a requeue (RequeueAfter, or backoff after an
\* error), the informers deliver, the garbage collector runs.
Fairness ==
    \A a \in Access :
        /\ WF_vars(Reconcile(a))
        /\ WF_vars(Step(a))
        /\ WF_vars(CacheSync(a))
        /\ WF_vars(CollectSecret(a))

FairSpec == Spec /\ Fairness

-----------------------------------------------------------------------------
(* Properties *)

Kept(g) == g \in budget.kept

\* Every Secret holds an access key id with the secret key of that id:
\* ensureCredentialsSecret never combines a new id with an old secret key.
PairConsistent ==
    \A n \in SecretName : secrets[n].ak = secrets[n].sk

\* The same on a backend that reveals a secret key once: it holds until the
\* write of a Secret fails or the cache is behind, and crashes, rotations, keys
\* that vanish and lost replies in any order do not break it.
PairKept == Kept("pairs") => PairConsistent

\* Every key that exists in the backend is one the status records or the
\* running reconcile is about to record, so DeleteAccess can reach it; after
\* the finalizer is released there is none.
KeyTracked ==
    Kept("keys") =>
        \A a \in Access :
            IF obj[a].phase = "absent" THEN live[a] = {}
            ELSE live[a] \subseteq {obj[a].key, loc[a].key}

\* Deleting a BucketAccess revokes its key: the finalizer is released only when no
\* key of the access is left in the backend (reconcileDelete), as long as the driver
\* is asked to revoke; on SeaweedFS crashes, lost replies and failed status writes
\* never leave a key behind a deleted access.
DeletionRevokes ==
    Kept("keys") => \A a \in Access : obj[a].phase = "absent" => live[a] = {}

\* The Secret of a works: a matching pair whose key exists.
Working(a) ==
    LET s == secrets[SecretOf[a]]
    IN  s.owner = a /\ s.ak = s.sk /\ s.ak \in live[a]

\* While nothing but health changes (the bucket leaves Ready and returns, the
\* controller crashes, calls fail), credentials that work keep working.
CredentialsSurviveOutage ==
    [][Kept("outage")' => \A a \in Access : Working(a) => Working(a)']_vars

Authorized(a) ==
    /\ obj[a].phase = "live"
    /\ env[a] = [claim |-> "bound", bucket |-> "ready", store |-> TRUE,
                 granted |-> TRUE]

Denied(a) ==
    /\ obj[a].phase = "live"
    /\ env[a].bucket # "none" /\ env[a].store
    /\ env[a].claim = "lost" \/ (env[a].claim = "bound" /\ ~env[a].granted)

\* An access that stays authorized ends up Ready with working credentials of
\* the rotation asked for last.
Converges ==
    \A a \in Access :
        <>[](Authorized(a) /\ Kept("pairs")) =>
            <>[](/\ Working(a) /\ obj[a].ready
                 /\ obj[a].obsRot = obj[a].rotate)

\* An access that stays denied (claim no longer bound, or no policy) ends up
\* with neither a key nor a Secret: continuous enforcement.
RevocationEnforced ==
    \A a \in Access :
        <>[](Denied(a) /\ Kept("keys")) =>
            <>[](live[a] = {} /\ secrets[SecretOf[a]].owner # a)

\* The deletion of an access completes and takes the Secret along.
DeletionCompletes ==
    \A a \in Access :
        obj[a].phase = "deleting" ~>
            (obj[a].phase = "absent" /\ secrets[SecretOf[a]].owner # a)
=============================================================================
