------------------------------ MODULE Binding ------------------------------
(***************************************************************************)
(* The ObjectStore, Bucket and BucketClaim reconcilers around one store:   *)
(* how a claim is bound to a bucket, how readiness travels from the store  *)
(* to the bucket to the claim, how a withdrawn policy reaches a key, and   *)
(* how claims, buckets and stores are torn down behind their finalizers.   *)
(*                                                                         *)
(* Every reconciler is a worker that takes one object at a time; each call *)
(* it makes is a step.  A BucketAccess is reconciled in one step, which    *)
(* summarises what module BucketAccess does call by call.                  *)
(*                                                                         *)
(* Abstractions.                                                           *)
(*  - One store.  Every claim names one bucket for life (the spec fields   *)
(*    are immutable); greenfield claims own theirs.                        *)
(*  - A claim's namespace is granted its bucket or not; accesses live in   *)
(*    the namespace of their claim.                                        *)
(*  - Objects are read as they are; a stale read of a list is the          *)
(*    disturbance "staleList", other stale reads only delay.               *)
(*  - A reconcile that has to come back is enabled again at once.  Only a  *)
(*    Bucket that ended Ready is not requeued: queue holds the others.     *)
(***************************************************************************)
EXTENDS Naturals, FiniteSets

CONSTANTS
    Claim,          \* BucketClaims
    Bucket,         \* Bucket names
    BucketOf,       \* BucketOf[c]: existingBucketName or greenfieldBucketName
    Greenfield,     \* the claims that create their bucket
    Access,         \* BucketAccesses
    ClaimOf,        \* ClaimOf[a]: spec.bucketClaimName
    Shared,         \* buckets that exist because an administrator made them
    BucketReclaim,  \* reclaim policy of the buckets
    StoreReclaim,   \* reclaim policy of the store
    Disturb,        \* the disturbances that may happen
    MaxDisturb      \* how many of them

Faults ==
    {"crash", "bucketRead", "policyRead", "bucketWrite", "storeRead",
     "listRead", "staleList", "apiWrite", "statusWrite", "backend"}

Intents ==
    {"policy", "unhealthy", "deleteClaim", "createAccess", "deleteAccess",
     "deleteBucket", "deleteStore"}

\* Faults of the data plane and of the API server that leave claims bound.
HealthOnly ==
    {"unhealthy", "crash", "backend", "statusWrite", "apiWrite", "storeRead",
     "listRead"}

\* The bucket or the store of a claim is taken away, or an access is created
\* behind the back of a claim that is being deleted.
Disorderly == {"staleList", "createAccess", "deleteBucket", "deleteStore"}

\* What is promised until a disturbance of the wrong kind happens.
Guarantee == {"order", "health"}

Voids(d) ==
    {g \in Guarantee : \/ g = "order" /\ d \in Disorderly
                       \/ g = "health" /\ d \notin HealthOnly}

ASSUME BindingAssumption ==
    /\ BucketOf \in [Claim -> Bucket]
    /\ Greenfield \subseteq Claim
    /\ ClaimOf \in [Access -> Claim]
    /\ Shared \subseteq Bucket
    /\ BucketReclaim \in {"Retain", "Delete"}
    /\ StoreReclaim \in {"Retain", "Delete"}
    /\ Disturb \subseteq Faults \cup Intents
    /\ MaxDisturb \in Nat

\* The name of a greenfield bucket is derived from its claim, under a prefix that no
\* administrator may use.
ASSUME NamesAssumption ==
    \A c \in Greenfield :
        /\ BucketOf[c] \notin Shared
        /\ \A d \in Greenfield : BucketOf[d] = BucketOf[c] => d = c

VARIABLES
    store,    \* the ObjectStore
    bucket,   \* bucket[b]: the Bucket
    claim,    \* claim[c]: the BucketClaim
    access,   \* access[a]: the BucketAccess, and whether its key is alive
    granted,  \* granted[c]: some BucketClaimPolicy allows the namespace of c
    healthy,  \* the data plane answers
    backend,  \* backend[b]: the bucket exists in the data plane
    sw,       \* the ObjectStore worker
    bw,       \* bw[b]: the Bucket worker
    cw,       \* cw[c]: the BucketClaim worker
    queue,    \* Buckets in the workqueue
    budget    \* disturbances left, and the guarantees they left intact

vars == <<store, bucket, claim, access, granted, healthy, backend, sw, bw, cw,
          queue, budget>>

-----------------------------------------------------------------------------
(* Objects *)

Phase == {"absent", "live", "deleting"}

Store == [phase: Phase, fin: BOOLEAN, ready: BOOLEAN]

\* owned: the label that says a claim owns the bucket
BucketObject == [phase: Phase, fin: BOOLEAN, ready: BOOLEAN, owned: BOOLEAN]

\* named: status.boundBucketName is set
ClaimObject ==
    [phase: Phase, fin: BOOLEAN, bound: BOOLEAN, named: BOOLEAN, ready: BOOLEAN]

\* recorded: status.accessKeyID is set; key: the key exists in the backend
AccessObject == [phase: Phase, recorded: BOOLEAN, key: BOOLEAN]

NoStore == [phase |-> "absent", fin |-> FALSE, ready |-> FALSE]
NewStore == [phase |-> "live", fin |-> FALSE, ready |-> FALSE]
NoBucket == [phase |-> "absent", fin |-> FALSE, ready |-> FALSE, owned |-> FALSE]
NewBucket == [phase |-> "live", fin |-> FALSE, ready |-> FALSE, owned |-> FALSE]
NoClaim == [phase |-> "absent", fin |-> FALSE, bound |-> FALSE, named |-> FALSE,
            ready |-> FALSE]
NewClaim == [phase |-> "live", fin |-> FALSE, bound |-> FALSE, named |-> FALSE,
             ready |-> FALSE]
NewAccess == [phase |-> "live", recorded |-> FALSE, key |-> FALSE]

\* A worker: the next call, the object as read, and what status will say.
StorePC == {"idle", "finalizer", "ensure", "status", "teardown", "release"}
BucketPC == {"idle", "finalizer", "store", "ensure", "status", "delStore",
             "delBackend", "release"}
ClaimPC == {"idle", "finalizer", "readBucket", "policy", "ensureBucket",
            "bucketReady", "status", "refs", "dropBucket", "release"}

StoreWorker == [pc: StorePC, snap: Store, ready: BOOLEAN]
BucketWorker == [pc: BucketPC, snap: BucketObject, ready: BOOLEAN]
ClaimWorker == [pc: ClaimPC, snap: ClaimObject, bound: BOOLEAN, ready: BOOLEAN]

IdleStore == [pc |-> "idle", snap |-> NoStore, ready |-> FALSE]
IdleBucket == [pc |-> "idle", snap |-> NoBucket, ready |-> FALSE]
IdleClaim == [pc |-> "idle", snap |-> NoClaim, bound |-> FALSE, ready |-> FALSE]

\* Every object and every worker of the four reconcilers keeps its type.
TypeOK ==
    /\ store \in Store
    /\ bucket \in [Bucket -> BucketObject]
    /\ claim \in [Claim -> ClaimObject]
    /\ access \in [Access -> AccessObject]
    /\ granted \in [Claim -> BOOLEAN]
    /\ healthy \in BOOLEAN
    /\ backend \in [Bucket -> BOOLEAN]
    /\ sw \in StoreWorker
    /\ bw \in [Bucket -> BucketWorker]
    /\ cw \in [Claim -> ClaimWorker]
    /\ queue \in SUBSET Bucket
    /\ budget \in [left: Nat, kept: SUBSET Guarantee]

Disturbance(d) ==
    /\ d \in Disturb
    /\ budget.left > 0
    /\ budget' = [left |-> budget.left - 1, kept |-> budget.kept \ Voids(d)]

\* Deleting an object without a finalizer removes it at once.
Marked(o, none) == IF o.fin THEN [o EXCEPT !.phase = "deleting"] ELSE none

-----------------------------------------------------------------------------
(* ObjectStoreReconciler *)

StoreGoto(label) == sw' = [sw EXCEPT !.pc = label]

StoreReconcile ==
    /\ sw.pc = "idle"
    /\ store.phase # "absent"
    /\ sw' = [sw EXCEPT !.snap = store,
                        !.pc = IF store.phase = "deleting" THEN "teardown"
                               ELSE IF store.fin THEN "ensure" ELSE "finalizer"]
    /\ UNCHANGED <<store, bucket, claim, access, granted, healthy, backend,
                   bw, cw, queue, budget>>

StoreAddFinalizer ==
    /\ sw.pc = "finalizer"
    /\ \/ /\ store = sw.snap
          /\ store' = [store EXCEPT !.fin = TRUE]
          /\ StoreGoto("ensure")
          /\ UNCHANGED budget
       \/ /\ \/ store # sw.snap /\ UNCHANGED budget
             \/ Disturbance("apiWrite")
          /\ sw' = IdleStore
          /\ UNCHANGED store
    /\ UNCHANGED <<bucket, claim, access, granted, healthy, backend, bw, cw,
                   queue>>

\* EnsureCluster: an error and a data plane that is not ready are the same.
StoreEnsure ==
    /\ sw.pc = "ensure"
    /\ \/ sw' = [sw EXCEPT !.pc = "status", !.ready = healthy] /\ UNCHANGED budget
       \/ Disturbance("backend") /\ StoreGoto("status")
    /\ UNCHANGED <<store, bucket, claim, access, granted, healthy, backend,
                   bw, cw, queue>>

\* mutated form: the watch does not look at Ready
OnStoreEvent_PhaseOnly(before, after) ==
    IF after.phase = "absent"
    THEN {b \in Bucket : bucket[b].phase # "absent"}
    ELSE {}

\* clusterReadyPredicate, enqueueBucketsByCluster: every Bucket of the store,
\* when Ready changes or the store is gone.
OnStoreEvent(before, after) ==
    IF before.ready # after.ready \/ after.phase = "absent"
    THEN {b \in Bucket : bucket[b].phase # "absent"}
    ELSE {}

StoreStatus ==
    /\ sw.pc = "status"
    /\ \/ /\ store' = [store EXCEPT !.ready = sw.ready]
          /\ queue' = queue \cup OnStoreEvent(store, store')
          /\ UNCHANGED budget
       \/ Disturbance("statusWrite") /\ UNCHANGED <<store, queue>>
    /\ sw' = IdleStore
    /\ UNCHANGED <<bucket, claim, access, granted, healthy, backend, bw, cw>>

\* DeleteCluster destroys the data plane only under reclaim policy Delete.
StoreTeardown ==
    /\ sw.pc = "teardown"
    /\ \/ /\ IF StoreReclaim = "Delete"
             THEN /\ backend' = [b \in Bucket |-> FALSE]
                  /\ access' = [a \in Access |-> [access[a] EXCEPT !.key = FALSE]]
             ELSE UNCHANGED <<backend, access>>
          /\ StoreGoto("release")
          /\ UNCHANGED budget
       \/ /\ Disturbance("backend")
          /\ sw' = IdleStore
          /\ UNCHANGED <<backend, access>>
    /\ UNCHANGED <<store, bucket, claim, granted, healthy, bw, cw, queue>>

StoreRelease ==
    /\ sw.pc = "release"
    /\ \/ /\ store' = NoStore
          /\ queue' = queue \cup OnStoreEvent(store, NoStore)
          /\ UNCHANGED budget
       \/ Disturbance("apiWrite") /\ UNCHANGED <<store, queue>>
    /\ sw' = IdleStore
    /\ UNCHANGED <<bucket, claim, access, granted, healthy, backend, bw, cw>>

-----------------------------------------------------------------------------
(* BucketReconciler *)

BucketGoto(b, label) == bw' = [bw EXCEPT ![b].pc = label]

\* mutated form: nothing but an event brings a Bucket back
BucketReturn_OnEventOnly(b, requeued) ==
    /\ bw' = [bw EXCEPT ![b] = IdleBucket]
    /\ UNCHANGED queue

\* finish: a Bucket that ended Ready is not requeued, any other is.
BucketReturn(b, requeued) ==
    /\ bw' = [bw EXCEPT ![b] = IdleBucket]
    /\ queue' = IF requeued THEN queue \cup {b} ELSE queue

BucketReconcile(b) ==
    /\ b \in queue
    /\ bw[b].pc = "idle"
    /\ queue' = queue \ {b}
    /\ bw' = [bw EXCEPT ![b] =
          [snap |-> bucket[b], ready |-> FALSE,
           pc |-> CASE bucket[b].phase = "absent" -> "idle"
                    [] bucket[b].phase = "deleting" -> "delStore"
                    [] bucket[b].phase = "live" /\ bucket[b].fin -> "store"
                    [] bucket[b].phase = "live" /\ ~bucket[b].fin -> "finalizer"]]
    /\ UNCHANGED <<store, bucket, claim, access, granted, healthy, backend,
                   sw, cw, budget>>

BucketAddFinalizer(b) ==
    /\ bw[b].pc = "finalizer"
    /\ \/ /\ bucket[b] = bw[b].snap
          /\ bucket' = [bucket EXCEPT ![b].fin = TRUE]
          /\ BucketGoto(b, "store")
          /\ UNCHANGED <<queue, budget>>
       \/ /\ \/ bucket[b] # bw[b].snap /\ UNCHANGED budget
             \/ Disturbance("apiWrite")
          /\ BucketReturn(b, TRUE)
          /\ UNCHANGED bucket
    /\ UNCHANGED <<store, claim, access, granted, healthy, backend, sw, cw>>

\* A store that is missing, unreadable or not Ready: WaitingForCluster.
BucketGetStore(b) ==
    /\ bw[b].pc = "store"
    /\ \/ /\ store.phase # "absent" /\ store.ready
          /\ BucketGoto(b, "ensure")
          /\ UNCHANGED budget
       \/ /\ \/ (store.phase = "absent" \/ ~store.ready) /\ UNCHANGED budget
             \/ Disturbance("storeRead")
          /\ BucketGoto(b, "status")
    /\ UNCHANGED <<store, bucket, claim, access, granted, healthy, backend, sw,
                   cw, queue>>

BucketEnsure(b) ==
    /\ bw[b].pc = "ensure"
    /\ \/ /\ healthy
          /\ backend' = [backend EXCEPT ![b] = TRUE]
          /\ bw' = [bw EXCEPT ![b].pc = "status", ![b].ready = TRUE]
          /\ UNCHANGED budget
       \/ /\ \/ ~healthy /\ UNCHANGED budget
             \/ Disturbance("backend")
          /\ BucketGoto(b, "status")
          /\ UNCHANGED backend
    /\ UNCHANGED <<store, bucket, claim, access, granted, healthy, sw, cw, queue>>

BucketStatus(b) ==
    /\ bw[b].pc = "status"
    /\ \/ /\ bucket' = [bucket EXCEPT ![b].ready = bw[b].ready]
          /\ BucketReturn(b, ~bw[b].ready)
          /\ UNCHANGED budget
       \/ /\ Disturbance("statusWrite")
          /\ BucketReturn(b, TRUE)
          /\ UNCHANGED bucket
    /\ UNCHANGED <<store, claim, access, granted, healthy, backend, sw, cw>>

\* A store that is gone took the bucket along; an error is retried.
BucketDeleteGetStore(b) ==
    /\ bw[b].pc = "delStore"
    /\ \/ /\ BucketGoto(b, IF store.phase = "absent" THEN "release"
                           ELSE "delBackend")
          /\ UNCHANGED <<queue, budget>>
       \/ Disturbance("storeRead") /\ BucketReturn(b, TRUE)
    /\ UNCHANGED <<store, bucket, claim, access, granted, healthy, backend, sw,
                   cw>>

BucketDeleteBackend(b) ==
    /\ bw[b].pc = "delBackend"
    /\ \/ /\ BucketReclaim = "Retain" \/ healthy
          /\ backend' = [backend EXCEPT ![b] = @ /\ BucketReclaim = "Retain"]
          /\ BucketGoto(b, "release")
          /\ UNCHANGED <<queue, budget>>
       \/ /\ BucketReclaim = "Delete"
          /\ \/ ~healthy /\ UNCHANGED budget
             \/ Disturbance("backend")
          /\ BucketReturn(b, TRUE)
          /\ UNCHANGED backend
    /\ UNCHANGED <<store, bucket, claim, access, granted, healthy, sw, cw>>

BucketRelease(b) ==
    /\ bw[b].pc = "release"
    /\ \/ /\ bucket' = [bucket EXCEPT ![b] = NoBucket]
          /\ BucketReturn(b, FALSE)
          /\ UNCHANGED budget
       \/ /\ Disturbance("apiWrite")
          /\ BucketReturn(b, TRUE)
          /\ UNCHANGED bucket
    /\ UNCHANGED <<store, claim, access, granted, healthy, backend, sw, cw>>

-----------------------------------------------------------------------------
(* BucketClaimReconciler *)

ClaimGoto(c, label) == cw' = [cw EXCEPT ![c].pc = label]
ClaimReturn(c) == cw' = [cw EXCEPT ![c] = IdleClaim]

\* ensureBound did not bind: the remaining stages are gated as well.
NotBound(c) ==
    cw' = [cw EXCEPT ![c].pc = "status", ![c].bound = FALSE, ![c].ready = FALSE]

\* ensureBound bound the claim.
IsBound(c) == cw' = [cw EXCEPT ![c].pc = "bucketReady", ![c].bound = TRUE]

ClaimReconcile(c) ==
    /\ cw[c].pc = "idle"
    /\ claim[c].phase # "absent"
    /\ cw' = [cw EXCEPT ![c].snap = claim[c],
                        ![c].pc = IF claim[c].phase = "deleting" THEN "refs"
                                  ELSE IF ~claim[c].fin THEN "finalizer"
                                  ELSE IF c \in Greenfield THEN "ensureBucket"
                                  ELSE "readBucket"]
    /\ UNCHANGED <<store, bucket, claim, access, granted, healthy, backend, sw,
                   bw, queue, budget>>

ClaimAddFinalizer(c) ==
    /\ cw[c].pc = "finalizer"
    /\ \/ /\ claim[c] = cw[c].snap
          /\ claim' = [claim EXCEPT ![c].fin = TRUE]
          /\ ClaimGoto(c, IF c \in Greenfield THEN "ensureBucket" ELSE "readBucket")
          /\ UNCHANGED budget
       \/ /\ \/ claim[c] # cw[c].snap /\ UNCHANGED budget
             \/ Disturbance("apiWrite")
          /\ ClaimReturn(c)
          /\ UNCHANGED claim
    /\ UNCHANGED <<store, bucket, access, granted, healthy, backend, sw, bw,
                   queue>>

\* ensureBrownfield: the bucket must exist and must not be another claim's.
ClaimReadBucket(c) ==
    /\ cw[c].pc = "readBucket"
    /\ LET b == bucket[BucketOf[c]]
       IN  \/ /\ b.phase # "absent" /\ ~b.owned
              /\ ClaimGoto(c, "policy")
              /\ UNCHANGED budget
           \/ /\ \/ (b.phase = "absent" \/ b.owned) /\ UNCHANGED budget
                 \/ Disturbance("bucketRead")
              /\ NotBound(c)
    /\ UNCHANGED <<store, bucket, claim, access, granted, healthy, backend, sw,
                   bw, queue>>

\* Deny by default, and an unreadable policy list unbinds as well.
ClaimCheckPolicy(c) ==
    /\ cw[c].pc = "policy"
    /\ \/ granted[c] /\ IsBound(c) /\ UNCHANGED budget
       \/ ~granted[c] /\ NotBound(c) /\ UNCHANGED budget
       \/ Disturbance("policyRead") /\ NotBound(c)
    /\ UNCHANGED <<store, bucket, claim, access, granted, healthy, backend, sw,
                   bw, queue>>

\* ensureGreenfield: CreateOrUpdate, also of a bucket that is being deleted.
ClaimEnsureBucket(c) ==
    /\ cw[c].pc = "ensureBucket"
    /\ LET b == BucketOf[c]
       IN  \/ /\ bucket' = [bucket EXCEPT ![b] =
                    [IF @.phase = "absent" THEN NewBucket ELSE @
                        EXCEPT !.owned = TRUE]]
              /\ queue' = queue \cup {x \in {b} : bucket[x].phase = "absent"}
              /\ IsBound(c)
              /\ UNCHANGED budget
           \/ /\ Disturbance("bucketWrite")
              /\ NotBound(c)
              /\ UNCHANGED <<bucket, queue>>
    /\ UNCHANGED <<store, claim, access, granted, healthy, backend, sw, bw>>

\* A bucket that is missing, unreadable or not Ready leaves the claim Bound.
ClaimBucketReady(c) ==
    /\ cw[c].pc = "bucketReady"
    /\ LET b == bucket[BucketOf[c]]
       IN  \/ /\ cw' = [cw EXCEPT ![c].pc = "status",
                         ![c].ready = (b.phase # "absent" /\ b.ready)]
              /\ UNCHANGED budget
           \/ /\ Disturbance("bucketRead")
              /\ ClaimGoto(c, "status")
    /\ UNCHANGED <<store, bucket, claim, access, granted, healthy, backend, sw,
                   bw, queue>>

\* mutated form: the status forgets the bucket when the claim is not bound
ClaimStatusOf_Clears(o, w) ==
    [o EXCEPT !.bound = w.bound, !.ready = w.ready, !.named = w.bound]

\* boundBucketName is set and never cleared.
ClaimStatusOf(o, w) ==
    [o EXCEPT !.bound = w.bound, !.ready = w.ready, !.named = @ \/ w.bound]

ClaimStatus(c) ==
    /\ cw[c].pc = "status"
    /\ \/ /\ claim' = [claim EXCEPT ![c] = ClaimStatusOf(@, cw[c])]
          /\ UNCHANGED budget
       \/ Disturbance("statusWrite") /\ UNCHANGED claim
    /\ ClaimReturn(c)
    /\ UNCHANGED <<store, bucket, access, granted, healthy, backend, sw, bw,
                   queue>>

\* mutated form: an access that is being deleted is not counted
Referencing_Live(c) ==
    {a \in Access : ClaimOf[a] = c /\ access[a].phase = "live"}

\* referencingAccesses
Referencing(c) ==
    {a \in Access : ClaimOf[a] = c /\ access[a].phase # "absent"}

\* mutated form: the owned bucket is left behind
AfterRefs_KeepsBucket(c) == "release"

\* mutated form: the claim is parked in a state nothing handles
AfterRefs_Parked(c) == IF c \in Greenfield THEN "waitBucket" ELSE "release"

\* A greenfield claim takes its Bucket along; a brownfield one owns nothing.
AfterRefs(c) == IF c \in Greenfield THEN "dropBucket" ELSE "release"

\* The count comes from the cache, which may not show a new access yet.
ClaimCountRefs(c) ==
    /\ cw[c].pc = "refs"
    /\ \/ /\ \/ Referencing(c) = {} /\ UNCHANGED budget
             \/ Disturbance("staleList")
          /\ ClaimGoto(c, AfterRefs(c))
       \/ /\ \/ Referencing(c) # {} /\ UNCHANGED budget
             \/ Disturbance("listRead")
          /\ ClaimReturn(c)
    /\ UNCHANGED <<store, bucket, claim, access, granted, healthy, backend, sw,
                   bw, queue>>

\* The greenfield Bucket is deleted by name.
ClaimDropBucket(c) ==
    /\ cw[c].pc = "dropBucket"
    /\ LET b == BucketOf[c]
       IN  \/ /\ bucket' = [bucket EXCEPT ![b] = Marked(@, NoBucket)]
              /\ queue' = queue \cup {b}
              /\ ClaimGoto(c, "release")
              /\ UNCHANGED budget
           \/ /\ Disturbance("apiWrite")
              /\ ClaimReturn(c)
              /\ UNCHANGED <<bucket, queue>>
    /\ UNCHANGED <<store, claim, access, granted, healthy, backend, sw, bw>>

ClaimRelease(c) ==
    /\ cw[c].pc = "release"
    /\ \/ claim' = [claim EXCEPT ![c] = NoClaim] /\ UNCHANGED budget
       \/ Disturbance("apiWrite") /\ UNCHANGED claim
    /\ ClaimReturn(c)
    /\ UNCHANGED <<store, bucket, access, granted, healthy, backend, sw, bw,
                   queue>>

-----------------------------------------------------------------------------
(* BucketAccessReconciler, one reconcile in one step *)

Authorized(c) == c \in Greenfield \/ granted[c]

Resolves(c) ==
    claim[c].named /\ bucket[BucketOf[c]].phase # "absent" /\ store.phase # "absent"

\* The claim is bound to a bucket that resolves and may be used.
Usable(c) == Resolves(c) /\ claim[c].bound /\ Authorized(c)

\* mutated form: a bucket that is not Ready is a reason to revoke
AccessOf_Unhealthy(a, o) ==
    LET c == ClaimOf[a]
    IN  IF Usable(c) /\ bucket[BucketOf[c]].ready
        THEN [o EXCEPT !.recorded = TRUE, !.key = TRUE]
        ELSE [o EXCEPT !.recorded = FALSE, !.key = @ /\ ~(o.recorded /\ Resolves(c))]

\* What a reconcile leaves: issue, wait, or revoke what the status records.
\* A key whose bucket or store does not resolve is given up, not revoked.
AccessOf(a, o) ==
    LET c == ClaimOf[a]
    IN  CASE Usable(c) /\ bucket[BucketOf[c]].ready
               -> [o EXCEPT !.recorded = TRUE, !.key = TRUE]
          [] Usable(c) /\ ~bucket[BucketOf[c]].ready
               -> o
          [] ~Usable(c)
               -> [o EXCEPT !.recorded = FALSE,
                            !.key = @ /\ ~(o.recorded /\ Resolves(c))]

\* Issuing and revoking need the data plane; a failed call is retried.
AccessReconcile(a) ==
    /\ access[a].phase = "live"
    /\ Resolves(ClaimOf[a]) => healthy
    /\ AccessOf(a, access[a]) # access[a]
    /\ access' = [access EXCEPT ![a] = AccessOf(a, @)]
    /\ UNCHANGED <<store, bucket, claim, granted, healthy, backend, sw, bw, cw,
                   queue, budget>>

AccessDelete(a) ==
    /\ access[a].phase = "deleting"
    /\ Resolves(ClaimOf[a]) => healthy
    /\ access' = [access EXCEPT ![a] =
          [phase |-> "absent", recorded |-> FALSE,
           key |-> @.key /\ ~(@.recorded /\ Resolves(ClaimOf[a]))]]
    /\ UNCHANGED <<store, bucket, claim, granted, healthy, backend, sw, bw, cw,
                   queue, budget>>

-----------------------------------------------------------------------------
(* The process, the user, the administrator and the data plane *)

\* The process dies; its successor queues every object.
Crash ==
    /\ Disturbance("crash")
    /\ sw' = IdleStore
    /\ bw' = [b \in Bucket |-> IdleBucket]
    /\ cw' = [c \in Claim |-> IdleClaim]
    /\ queue' = {b \in Bucket : bucket[b].phase # "absent"}
    /\ UNCHANGED <<store, bucket, claim, access, granted, healthy, backend>>

HealthChange ==
    /\ Disturbance("unhealthy")
    /\ healthy' = ~healthy
    /\ UNCHANGED <<store, bucket, claim, access, granted, backend, sw, bw, cw,
                   queue>>

PolicyChange(c) ==
    /\ Disturbance("policy")
    /\ granted' = [granted EXCEPT ![c] = ~@]
    /\ UNCHANGED <<store, bucket, claim, access, healthy, backend, sw, bw, cw,
                   queue>>

UserDeletesClaim(c) ==
    /\ Disturbance("deleteClaim")
    /\ claim[c].phase = "live"
    /\ claim' = [claim EXCEPT ![c] = Marked(@, NoClaim)]
    /\ UNCHANGED <<store, bucket, access, granted, healthy, backend, sw, bw, cw,
                   queue>>

UserCreatesAccess(a) ==
    /\ Disturbance("createAccess")
    /\ access[a].phase = "absent"
    /\ access' = [access EXCEPT ![a].phase = "live"]
    /\ UNCHANGED <<store, bucket, claim, granted, healthy, backend, sw, bw, cw,
                   queue>>

UserDeletesAccess(a) ==
    /\ Disturbance("deleteAccess")
    /\ access[a].phase = "live"
    /\ access' = [access EXCEPT ![a].phase = "deleting"]
    /\ UNCHANGED <<store, bucket, claim, granted, healthy, backend, sw, bw, cw,
                   queue>>

AdminDeletesBucket(b) ==
    /\ Disturbance("deleteBucket")
    /\ bucket[b].phase = "live"
    /\ bucket' = [bucket EXCEPT ![b] = Marked(@, NoBucket)]
    /\ queue' = queue \cup {b}
    /\ UNCHANGED <<store, claim, access, granted, healthy, backend, sw, bw, cw>>

AdminDeletesStore ==
    /\ Disturbance("deleteStore")
    /\ store.phase = "live"
    /\ store' = Marked(store, NoStore)
    /\ queue' = queue \cup OnStoreEvent(store, store')
    /\ UNCHANGED <<bucket, claim, access, granted, healthy, backend, sw, bw, cw>>

-----------------------------------------------------------------------------
(* Specification *)

\* The store, the claims, the accesses and the shared buckets were just applied.
Init ==
    /\ store = NewStore
    /\ bucket = [b \in Bucket |-> IF b \in Shared THEN NewBucket ELSE NoBucket]
    /\ claim = [c \in Claim |-> NewClaim]
    /\ access = [a \in Access |-> NewAccess]
    /\ granted = [c \in Claim |-> TRUE]
    /\ healthy = TRUE
    /\ backend = [b \in Bucket |-> FALSE]
    /\ sw = IdleStore
    /\ bw = [b \in Bucket |-> IdleBucket]
    /\ cw = [c \in Claim |-> IdleClaim]
    /\ queue = Shared
    /\ budget = [left |-> MaxDisturb, kept |-> Guarantee]

StoreStep ==
    \/ StoreReconcile \/ StoreAddFinalizer \/ StoreEnsure \/ StoreStatus
    \/ StoreTeardown \/ StoreRelease

BucketStep(b) ==
    \/ BucketReconcile(b) \/ BucketAddFinalizer(b) \/ BucketGetStore(b)
    \/ BucketEnsure(b) \/ BucketStatus(b) \/ BucketDeleteGetStore(b)
    \/ BucketDeleteBackend(b) \/ BucketRelease(b)

ClaimStep(c) ==
    \/ ClaimReconcile(c) \/ ClaimAddFinalizer(c) \/ ClaimReadBucket(c)
    \/ ClaimCheckPolicy(c) \/ ClaimEnsureBucket(c) \/ ClaimBucketReady(c)
    \/ ClaimStatus(c) \/ ClaimCountRefs(c) \/ ClaimDropBucket(c)
    \/ ClaimRelease(c)

AccessStep(a) == AccessReconcile(a) \/ AccessDelete(a)

Next ==
    \/ StoreStep
    \/ \E b \in Bucket : BucketStep(b) \/ AdminDeletesBucket(b)
    \/ \E c \in Claim : ClaimStep(c) \/ PolicyChange(c) \/ UserDeletesClaim(c)
    \/ \E a \in Access : AccessStep(a) \/ UserCreatesAccess(a) \/ UserDeletesAccess(a)
    \/ AdminDeletesStore
    \/ HealthChange
    \/ Crash

Spec == Init /\ [][Next]_vars

\* Every reconcile but that of a Ready Bucket is followed by another one
\* (RequeueAfter, or backoff after an error).
Fairness ==
    /\ WF_vars(StoreStep)
    /\ \A b \in Bucket : WF_vars(BucketStep(b))
    /\ \A c \in Claim : WF_vars(ClaimStep(c))
    /\ \A a \in Access : WF_vars(AccessStep(a))

FairSpec == Spec /\ Fairness

-----------------------------------------------------------------------------
(* Properties *)

Kept(g) == g \in budget.kept

\* A claim outlives the keys issued through it, and with it the data: accesses and
\* claim are deleted in any order, among crashes, outages and failing calls, and both
\* the claim and the data of a greenfield bucket last until the last key is revoked
\* (the claim's finalizer is held until no BucketAccess references it, one that is
\* being deleted included; only then is its Bucket deleted, and DeleteBucket runs).
OrderlyTeardown ==
    Kept("order") =>
        \A a \in Access :
            access[a].key =>
                claim[ClaimOf[a]].phase # "absent" /\ backend[BucketOf[ClaimOf[a]]]

\* Health never costs a key: what flaps, fails or restarts between store,
\* bucket, claim and access leaves the key of a live access alone
\* (bucketUnhealthy in reconcileNormal of BucketAccess).
KeysSurviveOutage ==
    [][Kept("health")' =>
         \A a \in Access :
            access[a].key /\ access[a].phase = "live" => access'[a].key]_vars

\* A Bucket does not stay Ready over a store that stays not Ready, although a
\* Ready Bucket is never requeued: the watch on the store has to bring it back
\* (clusterReadyPredicate, finish of Bucket).
BucketFollowsStore ==
    \A b \in Bucket :
        <>[](bucket[b].phase = "live" /\ ~store.ready) => <>[](~bucket[b].ready)

\* Nothing stands in the way of access a.
Serviceable(a) ==
    LET c == ClaimOf[a]
    IN  /\ healthy
        /\ store.phase = "live"
        /\ claim[c].phase = "live"
        /\ access[a].phase = "live"
        /\ Authorized(c)
        /\ c \notin Greenfield => bucket[BucketOf[c]].phase = "live"
        /\ c \in Greenfield => bucket[BucketOf[c]].phase # "deleting"

\* Store, bucket, claim and access converge: once nothing stands in the way
\* for good, the claim is Bound and Ready and the access has a key
\* (the four finish functions and the watches between them).
BindingConverges ==
    \A a \in Access :
        LET c == ClaimOf[a]
        IN  <>[]Serviceable(a) => <>[](claim[c].bound /\ claim[c].ready /\ access[a].key)

\* A withdrawn policy reaches the data plane: as long as bucket and store exist,
\* the key of an access whose namespace stays denied is deleted, also when the
\* claim lost its binding first (boundBucketName is never cleared).
RevocationReaches ==
    \A a \in Access :
        LET c == ClaimOf[a]
        IN  <>[](/\ healthy
                 /\ ~Authorized(c)
                 /\ store.phase # "absent"
                 /\ claim[c].phase # "absent"
                 /\ bucket[BucketOf[c]].phase # "absent")
              => <>[](~access[a].key)

\* A deleted claim goes away once its accesses do, and a greenfield claim takes
\* its Bucket along (reconcileDelete of BucketClaim and Bucket).
TeardownCompletes ==
    \A c \in Claim :
        <>[](/\ healthy
             /\ claim[c].phase # "live"
             /\ \A a \in Access : ClaimOf[a] = c => access[a].phase # "live")
          => <>[](/\ claim[c].phase = "absent"
                  /\ c \in Greenfield => bucket[BucketOf[c]].phase = "absent")
=============================================================================
