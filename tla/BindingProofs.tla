--------------------------- MODULE BindingProofs ---------------------------
(***************************************************************************)
(* Proofs about the ObjectStore, Bucket, BucketClaim and BucketAccess      *)
(* reconcilers together, for any number of claims, buckets and accesses.   *)
(*                                                                         *)
(* A key needs the whole chain above it: its access records it, the claim  *)
(* names a bucket, the bucket and the store are there, and so is the data  *)
(* (KeyInv).  The chain is taken down from below: a claim that is past the *)
(* count of its accesses has none (ClearedInv), and a bucket that is taken *)
(* down is one whose claim is past that count (TeardownInv).  That nobody  *)
(* else holds a key on such a bucket is OwnedInv: brownfield claims are    *)
(* turned away from the bucket of a greenfield one.                        *)
(***************************************************************************)
EXTENDS Binding, TLAPS

-----------------------------------------------------------------------------
(* The invariants *)

\* b is the bucket of a greenfield claim.
Claimed(b) == \E c \in Greenfield : BucketOf[c] = b

\* No access of c is left, and no key of one.
Cleared(c) == \A a \in Access : ClaimOf[a] = c => access[a].phase = "absent" /\ ~access[a].key

\* b belongs to a greenfield claim that has no access left.
Emptied(b) == \E c \in Greenfield : BucketOf[c] = b /\ Cleared(c)

\* An object is there, behind its finalizer, while a worker is past adding it, and only
\* an object with a finalizer can be seen being deleted.
HeldInv ==
    /\ \A b \in Bucket :
         /\ bucket[b].phase = "deleting" => bucket[b].fin
         /\ bucket[b].fin => bucket[b].phase # "absent"
         /\ bw[b].pc \notin {"idle", "finalizer"} => bucket[b].phase # "absent" /\ bucket[b].fin
         /\ bw[b].pc = "finalizer" => bw[b].snap.phase # "absent"
    /\ \A c \in Claim :
         /\ claim[c].phase = "deleting" => claim[c].fin
         /\ cw[c].pc \notin {"idle", "finalizer"} => claim[c].phase # "absent" /\ claim[c].fin
         /\ cw[c].pc = "finalizer" => cw[c].snap.phase # "absent"
         /\ claim[c].named => claim[c].phase # "absent" /\ claim[c].fin
         /\ cw[c].pc \in {"ensureBucket", "dropBucket"} => c \in Greenfield
         /\ cw[c].pc \in {"readBucket", "policy"} => c \notin Greenfield

\* A greenfield bucket bears its owner's label, no other bucket bears one, and a
\* brownfield claim is never bound to a bucket with an owner.
OwnedInv ==
    /\ \A b \in Bucket : bucket[b].phase # "absent" => (bucket[b].owned <=> Claimed(b))
    /\ \A c \in Claim \ Greenfield :
         Claimed(BucketOf[c]) => ~claim[c].named /\ ~cw[c].bound /\ cw[c].pc # "policy"

\* The store stays while the order is kept.
StoreInv == store.phase = "live" /\ sw.pc \notin {"teardown", "release"}

\* A claim past the count of its accesses has none.
ClearedInv == \A c \in Claim : cw[c].pc \in {"dropBucket", "release"} => Cleared(c)

\* A bucket that is taken down has no access left, and a Ready one that has an access
\* exists in the data plane.
TeardownInv ==
    \A b \in Bucket :
        /\ \/ bucket[b].phase = "deleting"
           \/ bw[b].pc \in {"delStore", "delBackend", "release"}
           => Emptied(b)
        /\ bucket[b].ready \/ bw[b].ready => backend[b] \/ Emptied(b)

\* What is above a key.
KeyInv ==
    \A a \in Access :
        access[a].key =>
            /\ access[a].phase # "absent" /\ access[a].recorded
            /\ claim[ClaimOf[a]].named
            /\ bucket[BucketOf[ClaimOf[a]]].phase # "absent"
            /\ backend[BucketOf[ClaimOf[a]]]

OrderInv == StoreInv /\ ClearedInv /\ TeardownInv /\ KeyInv

\* The bucket of c is there, and c may be bound to it.
Here(c) == bucket[BucketOf[c]].phase # "absent"

\* While only health has been disturbed, nothing is being taken down, and a claim that
\* was bound once stays so.
HealthInv ==
    /\ \A c \in Claim : /\ granted[c] /\ claim[c].phase = "live"
                        /\ cw[c].pc \notin {"refs", "dropBucket", "release"}
    /\ \A b \in Bucket : /\ bucket[b].phase # "deleting"
                         /\ bw[b].pc \notin {"delStore", "delBackend", "release"}
    /\ \A c \in Claim :
         /\ claim[c].named => claim[c].bound /\ Here(c)
         /\ cw[c].pc \in {"policy", "bucketReady"} => Here(c)
         /\ cw[c].pc = "bucketReady" => cw[c].bound
         /\ cw[c].pc = "status" /\ cw[c].bound => Here(c)
         /\ cw[c].pc = "status" /\ claim[c].named => cw[c].bound

BindingInv ==
    /\ TypeOK /\ HeldInv /\ OwnedInv
    /\ Kept("order") => OrderInv
    /\ Kept("health") => Kept("order") /\ HealthInv

-----------------------------------------------------------------------------
(* What the steps do to one object and its worker *)

\* Bucket b, its worker and its data, as any step of the system changes them.
BucketMoves(b) ==
    \/ bucket'[b] = bucket[b] /\ bw'[b] = bw[b] /\ backend'[b] = backend[b]
    \* the worker takes it
    \/ /\ bucket'[b] = bucket[b] /\ backend'[b] = backend[b]
       /\ bw[b].pc = "idle" /\ bw'[b].snap = bucket[b] /\ ~bw'[b].ready
       /\ \/ bw'[b].pc = "idle"
          \/ bw'[b].pc = "delStore" /\ bucket[b].phase = "deleting"
          \/ bw'[b].pc = "store" /\ bucket[b].phase = "live" /\ bucket[b].fin
          \/ bw'[b].pc = "finalizer" /\ bucket[b].phase = "live"
    \* the finalizer is added
    \/ /\ bw[b].pc = "finalizer" /\ bucket[b] = bw[b].snap /\ bw'[b].pc = "store"
       /\ bw'[b].ready = bw[b].ready /\ backend'[b] = backend[b]
       /\ bucket'[b].fin /\ bucket'[b].phase = bucket[b].phase
       /\ bucket'[b].ready = bucket[b].ready /\ bucket'[b].owned = bucket[b].owned
    \* the worker returns
    \/ bw'[b] = IdleBucket /\ bucket'[b] = bucket[b] /\ backend'[b] = backend[b]
    \* the store is read, EnsureBucket fails, or the store is read for a deletion
    \/ /\ bucket'[b] = bucket[b] /\ backend'[b] = backend[b] /\ bw'[b].ready = bw[b].ready
       /\ \/ bw[b].pc \in {"store", "ensure"} /\ bw'[b].pc \in {"ensure", "status"}
          \/ bw[b].pc = "delStore" /\ bw'[b].pc \in {"delBackend", "release"}
    \* EnsureBucket
    \/ bw[b].pc = "ensure" /\ bw'[b].pc = "status" /\ bucket'[b] = bucket[b] /\ backend'[b]
    \* the status is written
    \/ /\ bw[b].pc = "status" /\ bw'[b] = IdleBucket /\ backend'[b] = backend[b]
       /\ bucket'[b].ready = bw[b].ready /\ bucket'[b].phase = bucket[b].phase
       /\ bucket'[b].fin = bucket[b].fin /\ bucket'[b].owned = bucket[b].owned
    \* DeleteBucket
    \/ /\ bw[b].pc = "delBackend" /\ bw'[b].pc = "release" /\ bw'[b].ready = bw[b].ready
       /\ bucket'[b] = bucket[b]
    \* the finalizer is removed
    \/ /\ bw[b].pc = "release" /\ bw'[b] = IdleBucket /\ bucket'[b] = NoBucket
       /\ backend'[b] = backend[b]
    \* a greenfield claim makes it or labels it
    \/ /\ bw'[b] = bw[b] /\ backend'[b] = backend[b] /\ bucket'[b].owned
       /\ \E c \in Claim : BucketOf[c] = b /\ cw[c].pc = "ensureBucket"
       /\ \/ bucket[b].phase = "absent" /\ bucket'[b].phase = "live" /\ ~bucket'[b].ready
          \/ /\ bucket[b].phase # "absent" /\ bucket'[b].phase = bucket[b].phase
             /\ bucket'[b].fin = bucket[b].fin /\ bucket'[b].ready = bucket[b].ready
    \* a greenfield claim or an administrator deletes it
    \/ /\ bw'[b] = bw[b] /\ backend'[b] = backend[b]
       /\ \/ \E c \in Claim : BucketOf[c] = b /\ cw[c].pc = "dropBucket"
          \/ Disturbance("deleteBucket")
       /\ bucket'[b] = Marked(bucket[b], NoBucket)
    \* the data plane goes with the store
    \/ sw.pc = "teardown" /\ bucket'[b] = bucket[b] /\ bw'[b] = bw[b] /\ ~backend'[b]

\* Claim c and its worker, as any step of the system changes them.
ClaimMoves(c) ==
    \/ claim'[c] = claim[c] /\ cw'[c] = cw[c]
    \* the worker takes it
    \/ /\ claim'[c] = claim[c] /\ cw[c].pc = "idle" /\ claim[c].phase # "absent"
       /\ cw'[c].snap = claim[c] /\ cw'[c].bound = cw[c].bound
       /\ \/ cw'[c].pc = "refs" /\ claim[c].phase = "deleting"
          \/ cw'[c].pc = "finalizer" /\ claim[c].phase # "deleting"
          \/ /\ claim[c].phase # "deleting" /\ claim[c].fin
             /\ cw'[c].pc = IF c \in Greenfield THEN "ensureBucket" ELSE "readBucket"
    \* the finalizer is added
    \/ /\ cw[c].pc = "finalizer" /\ claim[c] = cw[c].snap
       /\ cw'[c].pc = IF c \in Greenfield THEN "ensureBucket" ELSE "readBucket"
       /\ cw'[c].bound = cw[c].bound
       /\ claim'[c].fin /\ claim'[c].phase = claim[c].phase
       /\ claim'[c].bound = claim[c].bound /\ claim'[c].named = claim[c].named
    \* the worker returns
    \/ claim'[c] = claim[c] /\ cw'[c] = IdleClaim
    \* ensureBrownfield
    \/ /\ claim'[c] = claim[c] /\ cw[c].pc = "readBucket" /\ cw'[c].pc = "policy"
       /\ cw'[c].bound = cw[c].bound
       /\ bucket[BucketOf[c]].phase # "absent" /\ ~bucket[BucketOf[c]].owned
       /\ UNCHANGED bucket
    \/ /\ claim'[c] = claim[c] /\ cw[c].pc = "readBucket"
       /\ cw'[c].pc = "status" /\ ~cw'[c].bound
       /\ \/ bucket[BucketOf[c]].phase = "absent" \/ bucket[BucketOf[c]].owned
          \/ Disturbance("bucketRead")
    \/ /\ claim'[c] = claim[c] /\ cw[c].pc = "policy" /\ granted[c]
       /\ cw'[c].pc = "bucketReady" /\ cw'[c].bound /\ UNCHANGED bucket
    \/ /\ claim'[c] = claim[c] /\ cw[c].pc = "policy"
       /\ cw'[c].pc = "status" /\ ~cw'[c].bound
       /\ ~granted[c] \/ Disturbance("policyRead")
    \* ensureGreenfield
    \/ /\ claim'[c] = claim[c] /\ cw[c].pc = "ensureBucket"
       /\ cw'[c].pc = "bucketReady" /\ cw'[c].bound
       /\ bucket'[BucketOf[c]].phase # "absent"
    \/ /\ claim'[c] = claim[c] /\ cw[c].pc = "ensureBucket"
       /\ cw'[c].pc = "status" /\ ~cw'[c].bound /\ Disturbance("bucketWrite")
    \* readiness of the bucket
    \/ /\ claim'[c] = claim[c] /\ cw[c].pc = "bucketReady"
       /\ cw'[c].pc = "status" /\ cw'[c].bound = cw[c].bound /\ UNCHANGED bucket
    \* the status is written
    \/ /\ cw[c].pc = "status" /\ cw'[c] = IdleClaim /\ UNCHANGED bucket
       /\ claim'[c].phase = claim[c].phase /\ claim'[c].fin = claim[c].fin
       /\ claim'[c].bound = cw[c].bound
       /\ claim'[c].named <=> claim[c].named \/ cw[c].bound
    \* referencingAccesses, and the deletion
    \/ /\ claim'[c] = claim[c] /\ cw[c].pc = "refs" /\ cw'[c].pc = AfterRefs(c)
       /\ cw'[c].bound = cw[c].bound /\ UNCHANGED access
       /\ Referencing(c) = {} \/ Disturbance("staleList")
    \/ /\ claim'[c] = claim[c] /\ cw[c].pc = "dropBucket" /\ cw'[c].pc = "release"
       /\ cw'[c].bound = cw[c].bound
    \/ cw[c].pc = "release" /\ claim'[c] = NoClaim /\ cw'[c] = IdleClaim
    \* the user deletes it
    \/ /\ cw'[c] = cw[c] /\ claim[c].phase = "live" /\ claim'[c] = Marked(claim[c], NoClaim)
       /\ Disturbance("deleteClaim")

\* Access a, as any step of the system changes it.
AccessMoves(a) ==
    \/ access'[a] = access[a]
    \/ /\ access[a].phase = "live" /\ access'[a] = AccessOf(a, access[a])
       /\ UNCHANGED <<store, bucket, claim, granted, backend, budget>>
    \/ /\ access[a].phase = "deleting" /\ access'[a].phase = "absent"
       /\ access'[a].key = (access[a].key /\ ~(access[a].recorded /\ Resolves(ClaimOf[a])))
    \/ Disturbance("createAccess")
    \/ /\ Disturbance("deleteAccess") /\ access[a].phase = "live" /\ access'[a].phase = "deleting"
       /\ access'[a].recorded = access[a].recorded /\ access'[a].key = access[a].key
    \/ sw.pc = "teardown" /\ ~access'[a].key /\ access'[a].phase = access[a].phase

\* The store and its worker, as any step of the system changes them.
StoreMoves ==
    /\ store'.phase = store.phase \/ sw.pc = "release" \/ Disturbance("deleteStore")
    /\ sw'.pc \in {"teardown", "release"} =>
         sw'.pc = sw.pc \/ sw.pc = "teardown" \/ store.phase = "deleting"

\* Every object and every grant, as a step changes them.
Moves ==
    /\ \A b \in Bucket : BucketMoves(b)
    /\ \A c \in Claim : ClaimMoves(c)
    /\ \A a \in Access : AccessMoves(a)
    /\ StoreMoves
    /\ \A c \in Claim : granted'[c] = granted[c] \/ Disturbance("policy")
    /\ UNCHANGED budget \/ \E d : Disturbance(d)

-----------------------------------------------------------------------------
(* Types *)

\* The worker of a Bucket as the steps change it.
LEMMA BucketWorkers ==
    ASSUME TypeOK, NEW b \in Bucket
    PROVE  /\ \A l \in BucketPC :
                LET f == [bw EXCEPT ![b].pc = l]
                IN  /\ f \in [Bucket -> BucketWorker] /\ f[b].pc = l
                    /\ f[b].snap = bw[b].snap /\ f[b].ready = bw[b].ready
                    /\ \A x \in Bucket \ {b} : f[x] = bw[x]
           /\ \A o \in BucketWorker :
                LET f == [bw EXCEPT ![b] = o]
                IN  f \in [Bucket -> BucketWorker] /\ f[b] = o /\ \A x \in Bucket \ {b} : f[x] = bw[x]
           /\ LET f == [bw EXCEPT ![b].pc = "status", ![b].ready = TRUE]
              IN  /\ f \in [Bucket -> BucketWorker] /\ f[b].pc = "status"
                  /\ \A x \in Bucket \ {b} : f[x] = bw[x]
           /\ IdleBucket \in BucketWorker
<1>1. bw \in [Bucket -> BucketWorker] /\ bw[b] \in BucketWorker
  BY DEF TypeOK
<1>2. ASSUME NEW l \in BucketPC
      PROVE  LET f == [bw EXCEPT ![b].pc = l]
             IN  /\ f \in [Bucket -> BucketWorker] /\ f[b].pc = l
                 /\ f[b].snap = bw[b].snap /\ f[b].ready = bw[b].ready
                 /\ \A x \in Bucket \ {b} : f[x] = bw[x]
  BY <1>1 DEF BucketWorker
<1>3. ASSUME NEW o \in BucketWorker
      PROVE  LET f == [bw EXCEPT ![b] = o]
             IN  f \in [Bucket -> BucketWorker] /\ f[b] = o /\ \A x \in Bucket \ {b} : f[x] = bw[x]
  BY <1>1
<1>4. LET f == [bw EXCEPT ![b].pc = "status", ![b].ready = TRUE]
      IN  /\ f \in [Bucket -> BucketWorker] /\ f[b].pc = "status"
          /\ \A x \in Bucket \ {b} : f[x] = bw[x]
  BY <1>1 DEF BucketWorker, BucketPC
<1>5. IdleBucket \in BucketWorker
  BY DEF IdleBucket, BucketWorker, BucketPC, NoBucket, BucketObject, Phase
<1> QED BY <1>2, <1>3, <1>4, <1>5

\* The worker of a BucketClaim as the steps change it.
LEMMA ClaimWorkers ==
    ASSUME TypeOK, NEW c \in Claim
    PROVE  /\ \A l \in ClaimPC : ClaimGoto(c, l) =>
                /\ cw' \in [Claim -> ClaimWorker] /\ cw'[c].pc = l
                /\ cw'[c].snap = cw[c].snap /\ cw'[c].bound = cw[c].bound
                /\ \A x \in Claim \ {c} : cw'[x] = cw[x]
           /\ ClaimReturn(c) =>
                /\ cw' \in [Claim -> ClaimWorker] /\ cw'[c] = IdleClaim
                /\ \A x \in Claim \ {c} : cw'[x] = cw[x]
           /\ NotBound(c) =>
                /\ cw' \in [Claim -> ClaimWorker] /\ cw'[c].pc = "status" /\ ~cw'[c].bound
                /\ \A x \in Claim \ {c} : cw'[x] = cw[x]
           /\ IsBound(c) =>
                /\ cw' \in [Claim -> ClaimWorker] /\ cw'[c].pc = "bucketReady" /\ cw'[c].bound
                /\ \A x \in Claim \ {c} : cw'[x] = cw[x]
<1>1. cw \in [Claim -> ClaimWorker] /\ cw[c] \in ClaimWorker
  BY DEF TypeOK
<1>2. ASSUME NEW l \in ClaimPC, ClaimGoto(c, l)
      PROVE  /\ cw' \in [Claim -> ClaimWorker] /\ cw'[c].pc = l
             /\ cw'[c].snap = cw[c].snap /\ cw'[c].bound = cw[c].bound
             /\ \A x \in Claim \ {c} : cw'[x] = cw[x]
  BY <1>1, <1>2 DEF ClaimWorker, ClaimGoto
<1>3. ASSUME ClaimReturn(c)
      PROVE  /\ cw' \in [Claim -> ClaimWorker] /\ cw'[c] = IdleClaim
             /\ \A x \in Claim \ {c} : cw'[x] = cw[x]
  <2>1. IdleClaim \in ClaimWorker
    BY DEF IdleClaim, ClaimWorker, ClaimPC, NoClaim, ClaimObject, Phase
  <2> QED BY <1>1, <1>3, <2>1 DEF ClaimReturn
<1>4. ASSUME NotBound(c)
      PROVE  /\ cw' \in [Claim -> ClaimWorker] /\ cw'[c].pc = "status" /\ ~cw'[c].bound
             /\ \A x \in Claim \ {c} : cw'[x] = cw[x]
  BY <1>1, <1>4 DEF ClaimWorker, ClaimPC, NotBound
<1>5. ASSUME IsBound(c)
      PROVE  /\ cw' \in [Claim -> ClaimWorker] /\ cw'[c].pc = "bucketReady" /\ cw'[c].bound
             /\ \A x \in Claim \ {c} : cw'[x] = cw[x]
  BY <1>1, <1>5 DEF ClaimWorker, ClaimPC, IsBound
<1> QED BY <1>2, <1>3, <1>4, <1>5

\* A disturbance is paid from the budget and ends the guarantees it voids.
LEMMA DisturbanceType ==
    ASSUME TypeOK, NEW d, Disturbance(d)
    PROVE  /\ budget' \in [left: Nat, kept: SUBSET Guarantee]
           /\ Kept("order")' => d \notin Disorderly /\ Kept("order")
           /\ Kept("health")' => d \in HealthOnly /\ Kept("health")
           /\ Kept("health")' /\ Kept("order") => Kept("order")'
<1>1. budget.left \in Nat /\ budget.left > 0 /\ budget.kept \in SUBSET Guarantee
      /\ budget' = [left |-> budget.left - 1, kept |-> budget.kept \ Voids(d)]
  BY DEF TypeOK, Disturbance
<1>2. budget.left - 1 \in Nat /\ budget.kept \ Voids(d) \in SUBSET Guarantee
  BY <1>1
<1>3. budget' \in [left: Nat, kept: SUBSET Guarantee] /\ budget'.kept = budget.kept \ Voids(d)
  BY <1>1, <1>2
<1>4. "order" \in Guarantee /\ "health" \in Guarantee
  BY DEF Guarantee
<1>5. d \in HealthOnly => d \notin Disorderly
  BY DEF HealthOnly, Disorderly
<1> QED BY <1>3, <1>4, <1>5 DEF Kept, Voids

\* Objects as the steps write them.
LEMMA Objects ==
    /\ NoStore \in Store /\ NewStore \in Store
    /\ NoBucket \in BucketObject /\ NewBucket \in BucketObject
    /\ NoClaim \in ClaimObject /\ NewClaim \in ClaimObject
    /\ NewAccess \in AccessObject
    /\ \A o \in BucketObject : Marked(o, NoBucket) \in BucketObject
    /\ \A o \in ClaimObject : Marked(o, NoClaim) \in ClaimObject
    /\ \A o \in Store : Marked(o, NoStore) \in Store
<1>1. /\ NoStore \in Store /\ NewStore \in Store
      /\ NoBucket \in BucketObject /\ NewBucket \in BucketObject
      /\ NoClaim \in ClaimObject /\ NewClaim \in ClaimObject
      /\ NewAccess \in AccessObject
  BY DEF NoStore, NewStore, Store, NoBucket, NewBucket, BucketObject, NoClaim, NewClaim,
     ClaimObject, NewAccess, AccessObject, Phase
<1>2. \A o \in BucketObject : [o EXCEPT !.phase = "deleting"] \in BucketObject
  BY DEF BucketObject, Phase
<1>3. \A o \in ClaimObject : [o EXCEPT !.phase = "deleting"] \in ClaimObject
  BY DEF ClaimObject, Phase
<1>4. \A o \in Store : [o EXCEPT !.phase = "deleting"] \in Store
  BY DEF Store, Phase
<1> QED BY <1>1, <1>2, <1>3, <1>4, Zenon DEF Marked

\* What a step of the Bucket worker does.
LEMMA BucketSteps ==
    ASSUME TypeOK, NEW b \in Bucket, BucketStep(b)
    PROVE  /\ bucket' \in [Bucket -> BucketObject] /\ bw' \in [Bucket -> BucketWorker]
           /\ backend' \in [Bucket -> BOOLEAN] /\ queue' \in SUBSET Bucket
           /\ UNCHANGED <<store, claim, access, granted, healthy, sw, cw>>
           /\ UNCHANGED budget \/ \E d \in {"apiWrite", "storeRead", "backend", "statusWrite"} : Disturbance(d)
           /\ BucketMoves(b)
           /\ \A x \in Bucket \ {b} :
                bucket'[x] = bucket[x] /\ bw'[x] = bw[x] /\ backend'[x] = backend[x]
<1>t. /\ bucket \in [Bucket -> BucketObject] /\ bw \in [Bucket -> BucketWorker]
      /\ backend \in [Bucket -> BOOLEAN] /\ queue \in SUBSET Bucket
      /\ bucket[b] \in BucketObject /\ bw[b] \in BucketWorker /\ backend[b] \in BOOLEAN
  BY DEF TypeOK
<1>u. UNCHANGED <<store, claim, access, granted, healthy, sw, cw>>
  BY Zenon DEF BucketStep, BucketReconcile, BucketAddFinalizer, BucketGetStore, BucketEnsure, BucketStatus,
     BucketDeleteGetStore, BucketDeleteBackend, BucketRelease
<1>b. UNCHANGED budget \/ \E d \in {"apiWrite", "storeRead", "backend", "statusWrite"} : Disturbance(d)
  BY DEF BucketStep, BucketReconcile, BucketAddFinalizer, BucketGetStore, BucketEnsure, BucketStatus,
     BucketDeleteGetStore, BucketDeleteBackend, BucketRelease
<1> DEFINE Typed == /\ bucket' \in [Bucket -> BucketObject] /\ bw' \in [Bucket -> BucketWorker]
                    /\ backend' \in [Bucket -> BOOLEAN] /\ queue' \in SUBSET Bucket
           Others == \A x \in Bucket \ {b} :
                       bucket'[x] = bucket[x] /\ bw'[x] = bw[x] /\ backend'[x] = backend[x]
<1> SUFFICES Typed /\ Others /\ BucketMoves(b)
  BY <1>u, <1>b
<1>g. ASSUME NEW l \in BucketPC, BucketGoto(b, l)
      PROVE  /\ bw' \in [Bucket -> BucketWorker] /\ bw'[b].pc = l
             /\ bw'[b].snap = bw[b].snap /\ bw'[b].ready = bw[b].ready
             /\ \A x \in Bucket \ {b} : bw'[x] = bw[x]
  BY <1>g, BucketWorkers DEF BucketGoto
<1>r. ASSUME NEW q, BucketReturn(b, q)
      PROVE  /\ bw' \in [Bucket -> BucketWorker] /\ bw'[b] = IdleBucket
             /\ \A x \in Bucket \ {b} : bw'[x] = bw[x]
             /\ queue' \in SUBSET Bucket
  <2>1. bw' = [bw EXCEPT ![b] = IdleBucket]
    BY <1>r DEF BucketReturn
  <2>2. queue' = queue \cup {b} \/ queue' = queue
    BY <1>r, Zenon DEF BucketReturn
  <2>3. queue' \in SUBSET Bucket
    BY <1>t, <2>2
  <2>4. /\ bw' \in [Bucket -> BucketWorker] /\ bw'[b] = IdleBucket
        /\ \A x \in Bucket \ {b} : bw'[x] = bw[x]
    BY <2>1, BucketWorkers
  <2> QED BY <2>3, <2>4
<1>p. BucketPC = {"idle", "finalizer", "store", "ensure", "status", "delStore", "delBackend", "release"}
  BY DEF BucketPC
<1>1. CASE BucketReconcile(b)
  <2> DEFINE l == CASE bucket[b].phase = "absent" -> "idle"
                    [] bucket[b].phase = "deleting" -> "delStore"
                    [] bucket[b].phase = "live" /\ bucket[b].fin -> "store"
                    [] bucket[b].phase = "live" /\ ~bucket[b].fin -> "finalizer"
             o == [snap |-> bucket[b], ready |-> FALSE, pc |-> l]
  <2>1. /\ bw' = [bw EXCEPT ![b] = o] /\ UNCHANGED <<bucket, backend>> /\ queue' = queue \ {b}
        /\ bw[b].pc = "idle"
    BY <1>1 DEF BucketReconcile
  <2>2. bucket[b].phase \in {"absent", "live", "deleting"} /\ bucket[b].fin \in BOOLEAN
    BY <1>t DEF BucketObject, Phase
  <2>3. \/ l = "idle"
        \/ l = "delStore" /\ bucket[b].phase = "deleting"
        \/ l = "store" /\ bucket[b].phase = "live" /\ bucket[b].fin
        \/ l = "finalizer" /\ bucket[b].phase = "live"
    BY <2>2
  <2> HIDE DEF l
  <2>4. o \in BucketWorker
    <3>1. l \in BucketPC
      BY <1>p, <2>3
    <3> QED BY <1>t, <3>1 DEF BucketWorker
  <2>5. o.snap = bucket[b] /\ ~o.ready /\ o.pc = l
    OBVIOUS
  <2> HIDE DEF o
  <2>6. bw' \in [Bucket -> BucketWorker] /\ bw'[b] = o /\ \A x \in Bucket \ {b} : bw'[x] = bw[x]
    BY <2>1, <2>4, BucketWorkers
  <2> QED BY <1>t, <2>1, <2>3, <2>5, <2>6 DEF BucketMoves
<1>2. CASE BucketAddFinalizer(b)
  <2>1. CASE /\ bucket[b] = bw[b].snap /\ bucket' = [bucket EXCEPT ![b].fin = TRUE]
             /\ BucketGoto(b, "store") /\ UNCHANGED queue
    <3>1. /\ bucket' \in [Bucket -> BucketObject] /\ \A x \in Bucket \ {b} : bucket'[x] = bucket[x]
          /\ bucket'[b].fin /\ bucket'[b].phase = bucket[b].phase
          /\ bucket'[b].ready = bucket[b].ready /\ bucket'[b].owned = bucket[b].owned
      BY <1>t, <2>1 DEF BucketObject
    <3>2. UNCHANGED backend /\ bw[b].pc = "finalizer"
      BY <1>2 DEF BucketAddFinalizer
    <3>3. /\ bw' \in [Bucket -> BucketWorker] /\ bw'[b].pc = "store" /\ bw'[b].ready = bw[b].ready
          /\ \A x \in Bucket \ {b} : bw'[x] = bw[x]
      BY <1>g, <1>p, <2>1
    <3> QED BY <1>t, <2>1, <3>1, <3>2, <3>3 DEF BucketMoves
  <2>2. CASE BucketReturn(b, TRUE) /\ UNCHANGED bucket
    <3>1. UNCHANGED backend
      BY <1>2 DEF BucketAddFinalizer
    <3> QED BY <1>t, <1>r, <2>2, <3>1 DEF BucketMoves
  <2> QED BY <1>2, <2>1, <2>2 DEF BucketAddFinalizer
<1>3. CASE BucketGetStore(b)
  <2>1. /\ bw[b].pc = "store" /\ UNCHANGED <<bucket, backend, queue>>
        /\ BucketGoto(b, "ensure") \/ BucketGoto(b, "status")
    BY <1>3 DEF BucketGetStore
  <2>2. /\ bw' \in [Bucket -> BucketWorker] /\ bw'[b].pc \in {"ensure", "status"}
        /\ bw'[b].ready = bw[b].ready /\ \A x \in Bucket \ {b} : bw'[x] = bw[x]
    BY <1>g, <1>p, <2>1
  <2> QED BY <1>t, <2>1, <2>2 DEF BucketMoves
<1>4. CASE BucketEnsure(b)
  <2>1. CASE /\ backend' = [backend EXCEPT ![b] = TRUE]
             /\ bw' = [bw EXCEPT ![b].pc = "status", ![b].ready = TRUE]
    <3>1. bw[b].pc = "ensure" /\ UNCHANGED <<bucket, queue>>
      BY <1>4 DEF BucketEnsure
    <3>2. bw' \in [Bucket -> BucketWorker] /\ bw'[b].pc = "status" /\ \A x \in Bucket \ {b} : bw'[x] = bw[x]
      BY <2>1, BucketWorkers
    <3> QED BY <1>t, <2>1, <3>1, <3>2 DEF BucketMoves
  <2>2. CASE BucketGoto(b, "status") /\ UNCHANGED backend
    <3>1. bw[b].pc = "ensure" /\ UNCHANGED <<bucket, queue>>
      BY <1>4 DEF BucketEnsure
    <3>2. /\ bw' \in [Bucket -> BucketWorker] /\ bw'[b].pc = "status"
          /\ bw'[b].ready = bw[b].ready /\ \A x \in Bucket \ {b} : bw'[x] = bw[x]
      BY <1>g, <1>p, <2>2
    <3> QED BY <1>t, <2>2, <3>1, <3>2 DEF BucketMoves
  <2> QED BY <1>4, <2>1, <2>2 DEF BucketEnsure
<1>5. CASE BucketStatus(b)
  <2>1. bw[b].pc = "status" /\ UNCHANGED backend /\ bw[b].ready \in BOOLEAN
    BY <1>t, <1>5 DEF BucketStatus, BucketWorker
  <2>2. CASE bucket' = [bucket EXCEPT ![b].ready = bw[b].ready] /\ BucketReturn(b, ~bw[b].ready)
    <3>1. PICK r \in BOOLEAN : r = bw[b].ready
      BY <2>1
    <3>2. bucket' = [bucket EXCEPT ![b] = [bucket[b] EXCEPT !.ready = r]]
      BY <2>2, <3>1
    <3>3. /\ bucket' \in [Bucket -> BucketObject] /\ \A x \in Bucket \ {b} : bucket'[x] = bucket[x]
          /\ bucket'[b].fin = bucket[b].fin /\ bucket'[b].phase = bucket[b].phase
          /\ bucket'[b].ready = r /\ bucket'[b].owned = bucket[b].owned
      BY <1>t, <3>2 DEF BucketObject
    <3>4. bucket'[b].ready = bw[b].ready
      BY <3>1, <3>3, Zenon
    <3>5. /\ bw' \in [Bucket -> BucketWorker] /\ bw'[b] = IdleBucket
          /\ \A x \in Bucket \ {b} : bw'[x] = bw[x]
          /\ queue' \in SUBSET Bucket
      BY <1>r, <2>2
    <3>6. backend'[b] = backend[b]
      BY <2>1
    <3>7. BucketMoves(b)
      BY <2>1, <3>3, <3>4, <3>5, <3>6, Zenon DEF BucketMoves
    <3> QED BY <1>t, <2>1, <3>3, <3>5, <3>7
  <2>3. CASE BucketReturn(b, TRUE) /\ UNCHANGED bucket
    BY <1>t, <1>r, <2>1, <2>3 DEF BucketMoves
  <2> QED BY <1>5, <2>2, <2>3 DEF BucketStatus
<1>6. CASE BucketDeleteGetStore(b)
  <2>1. bw[b].pc = "delStore" /\ UNCHANGED <<bucket, backend>>
    BY <1>6 DEF BucketDeleteGetStore
  <2>2. CASE /\ BucketGoto(b, IF store.phase = "absent" THEN "release" ELSE "delBackend")
             /\ UNCHANGED queue
    <3>1. /\ bw' \in [Bucket -> BucketWorker] /\ bw'[b].pc \in {"delBackend", "release"}
          /\ bw'[b].ready = bw[b].ready /\ \A x \in Bucket \ {b} : bw'[x] = bw[x]
      BY <1>g, <1>p, <2>2
    <3> QED BY <1>t, <2>1, <2>2, <3>1 DEF BucketMoves
  <2>3. CASE BucketReturn(b, TRUE)
    BY <1>t, <1>r, <2>1, <2>3 DEF BucketMoves
  <2> QED BY <1>6, <2>2, <2>3 DEF BucketDeleteGetStore
<1>7. CASE BucketDeleteBackend(b)
  <2>1. bw[b].pc = "delBackend" /\ UNCHANGED bucket
    BY <1>7 DEF BucketDeleteBackend
  <2>2. CASE /\ backend' = [backend EXCEPT ![b] = @ /\ BucketReclaim = "Retain"]
             /\ BucketGoto(b, "release") /\ UNCHANGED queue
    <3>1. PICK r \in BOOLEAN : r = (backend[b] /\ BucketReclaim = "Retain")
      OBVIOUS
    <3>2. backend' = [backend EXCEPT ![b] = r]
      BY <2>2, <3>1, Zenon
    <3>3. backend' \in [Bucket -> BOOLEAN] /\ \A x \in Bucket \ {b} : backend'[x] = backend[x]
      BY <1>t, <3>2
    <3>4. /\ bw' \in [Bucket -> BucketWorker] /\ bw'[b].pc = "release"
          /\ bw'[b].ready = bw[b].ready /\ \A x \in Bucket \ {b} : bw'[x] = bw[x]
      BY <1>g, <1>p, <2>2
    <3> QED BY <1>t, <2>1, <2>2, <3>3, <3>4 DEF BucketMoves
  <2>3. CASE BucketReturn(b, TRUE) /\ UNCHANGED backend
    BY <1>t, <1>r, <2>1, <2>3 DEF BucketMoves
  <2> QED BY <1>7, <2>2, <2>3 DEF BucketDeleteBackend
<1>8. CASE BucketRelease(b)
  <2>1. bw[b].pc = "release" /\ UNCHANGED backend
    BY <1>8 DEF BucketRelease
  <2>2. CASE bucket' = [bucket EXCEPT ![b] = NoBucket] /\ BucketReturn(b, FALSE)
    BY <1>t, <1>r, <2>1, <2>2, Objects DEF BucketMoves
  <2>3. CASE BucketReturn(b, TRUE) /\ UNCHANGED bucket
    BY <1>t, <1>r, <2>1, <2>3 DEF BucketMoves
  <2> QED BY <1>8, <2>2, <2>3 DEF BucketRelease
<1> QED BY <1>1, <1>2, <1>3, <1>4, <1>5, <1>6, <1>7, <1>8 DEF BucketStep

\* What a step of the BucketClaim worker does.
LEMMA ClaimSteps ==
    ASSUME TypeOK, NEW c \in Claim, ClaimStep(c)
    PROVE  /\ claim' \in [Claim -> ClaimObject] /\ cw' \in [Claim -> ClaimWorker]
           /\ bucket' \in [Bucket -> BucketObject] /\ queue' \in SUBSET Bucket
           /\ UNCHANGED <<store, access, granted, healthy, backend, sw, bw>>
           /\ UNCHANGED budget \/ \E d : Disturbance(d)
           /\ ClaimMoves(c)
           /\ \A x \in Claim \ {c} : claim'[x] = claim[x] /\ cw'[x] = cw[x]
           /\ \A b \in Bucket : BucketMoves(b)
<1>t. /\ bucket \in [Bucket -> BucketObject] /\ queue \in SUBSET Bucket
      /\ claim \in [Claim -> ClaimObject] /\ cw \in [Claim -> ClaimWorker]
      /\ claim[c] \in ClaimObject /\ cw[c] \in ClaimWorker
      /\ BucketOf[c] \in Bucket /\ bucket[BucketOf[c]] \in BucketObject
  BY BindingAssumption DEF TypeOK
<1>u. UNCHANGED <<store, access, granted, healthy, backend, sw, bw>>
  BY Zenon DEF ClaimStep, ClaimReconcile, ClaimAddFinalizer, ClaimReadBucket, ClaimCheckPolicy,
     ClaimEnsureBucket, ClaimBucketReady, ClaimStatus, ClaimCountRefs, ClaimDropBucket, ClaimRelease
<1>b. UNCHANGED budget \/ \E d : Disturbance(d)
  BY Zenon DEF ClaimStep, ClaimReconcile, ClaimAddFinalizer, ClaimReadBucket, ClaimCheckPolicy,
     ClaimEnsureBucket, ClaimBucketReady, ClaimStatus, ClaimCountRefs, ClaimDropBucket, ClaimRelease
<1> DEFINE Own == /\ claim' \in [Claim -> ClaimObject] /\ cw' \in [Claim -> ClaimWorker]
                  /\ ClaimMoves(c)
                  /\ \A x \in Claim \ {c} : claim'[x] = claim[x] /\ cw'[x] = cw[x]
           Theirs == /\ bucket' \in [Bucket -> BucketObject] /\ queue' \in SUBSET Bucket
                     /\ \A b \in Bucket : BucketMoves(b)
<1> SUFFICES Own /\ Theirs
  BY <1>u, <1>b
<1>q. ASSUME UNCHANGED <<bucket, queue>> PROVE Theirs
  BY <1>q, <1>t, <1>u DEF BucketMoves
<1>p. ClaimPC = {"idle", "finalizer", "readBucket", "policy", "ensureBucket",
                 "bucketReady", "status", "refs", "dropBucket", "release"}
  BY DEF ClaimPC
<1>g. ASSUME NEW l \in ClaimPC, ClaimGoto(c, l)
      PROVE  /\ cw' \in [Claim -> ClaimWorker] /\ cw'[c].pc = l
             /\ cw'[c].snap = cw[c].snap /\ cw'[c].bound = cw[c].bound
             /\ \A x \in Claim \ {c} : cw'[x] = cw[x]
  BY <1>g, ClaimWorkers
<1>r. ASSUME ClaimReturn(c)
      PROVE  /\ cw' \in [Claim -> ClaimWorker] /\ cw'[c] = IdleClaim
             /\ \A x \in Claim \ {c} : cw'[x] = cw[x]
  BY <1>r, ClaimWorkers
<1>n. ASSUME NotBound(c)
      PROVE  /\ cw' \in [Claim -> ClaimWorker] /\ cw'[c].pc = "status" /\ ~cw'[c].bound
             /\ \A x \in Claim \ {c} : cw'[x] = cw[x]
  BY <1>n, ClaimWorkers
<1>i. ASSUME IsBound(c)
      PROVE  /\ cw' \in [Claim -> ClaimWorker] /\ cw'[c].pc = "bucketReady" /\ cw'[c].bound
             /\ \A x \in Claim \ {c} : cw'[x] = cw[x]
  BY <1>i, ClaimWorkers
<1>k. ASSUME ClaimReturn(c), UNCHANGED claim PROVE Own
  BY <1>k, <1>r, <1>t DEF ClaimMoves
<1>1. CASE ClaimReconcile(c)
  <2> DEFINE l == IF claim[c].phase = "deleting" THEN "refs"
                  ELSE IF ~claim[c].fin THEN "finalizer"
                  ELSE IF c \in Greenfield THEN "ensureBucket" ELSE "readBucket"
  <2>1. /\ cw' = [cw EXCEPT ![c].snap = claim[c], ![c].pc = l] /\ UNCHANGED <<claim, bucket, queue>>
        /\ cw[c].pc = "idle" /\ claim[c].phase # "absent"
    BY <1>1 DEF ClaimReconcile
  <2>2. l \in ClaimPC
    BY <1>p
  <2>3. \/ l = "refs" /\ claim[c].phase = "deleting"
        \/ l = "finalizer" /\ claim[c].phase # "deleting"
        \/ /\ claim[c].phase # "deleting" /\ claim[c].fin
           /\ l = IF c \in Greenfield THEN "ensureBucket" ELSE "readBucket"
    OBVIOUS
  <2> HIDE DEF l
  <2>4. /\ cw' \in [Claim -> ClaimWorker] /\ cw'[c].pc = l /\ cw'[c].snap = claim[c]
        /\ cw'[c].bound = cw[c].bound /\ \A x \in Claim \ {c} : cw'[x] = cw[x]
    BY <1>t, <2>1, <2>2 DEF ClaimWorker
  <2>5. Own
    BY <1>t, <2>1, <2>3, <2>4 DEF ClaimMoves
  <2> QED BY <1>q, <2>1, <2>5
<1>2. CASE ClaimAddFinalizer(c)
  <2>1. UNCHANGED <<bucket, queue>> /\ cw[c].pc = "finalizer"
    BY <1>2 DEF ClaimAddFinalizer
  <2>2. CASE /\ claim[c] = cw[c].snap /\ claim' = [claim EXCEPT ![c].fin = TRUE]
             /\ ClaimGoto(c, IF c \in Greenfield THEN "ensureBucket" ELSE "readBucket")
    <3>1. /\ claim' \in [Claim -> ClaimObject] /\ \A x \in Claim \ {c} : claim'[x] = claim[x]
          /\ claim'[c].fin /\ claim'[c].phase = claim[c].phase
          /\ claim'[c].bound = claim[c].bound /\ claim'[c].named = claim[c].named
      BY <1>t, <2>2 DEF ClaimObject
    <3>2. (IF c \in Greenfield THEN "ensureBucket" ELSE "readBucket") \in ClaimPC
      BY <1>p
    <3>3. /\ cw' \in [Claim -> ClaimWorker]
          /\ cw'[c].pc = IF c \in Greenfield THEN "ensureBucket" ELSE "readBucket"
          /\ cw'[c].bound = cw[c].bound /\ \A x \in Claim \ {c} : cw'[x] = cw[x]
      BY <1>g, <2>2, <3>2
    <3>4. Own
      BY <2>1, <2>2, <3>1, <3>3 DEF ClaimMoves
    <3> QED BY <1>q, <2>1, <3>4
  <2>3. CASE ClaimReturn(c) /\ UNCHANGED claim
    BY <1>k, <1>q, <2>1, <2>3
  <2> QED BY <1>2, <2>2, <2>3 DEF ClaimAddFinalizer
<1>3. CASE ClaimReadBucket(c)
  <2>1. UNCHANGED <<claim, bucket, queue>> /\ cw[c].pc = "readBucket"
    BY <1>3 DEF ClaimReadBucket
  <2>2. CASE /\ bucket[BucketOf[c]].phase # "absent" /\ ~bucket[BucketOf[c]].owned
             /\ ClaimGoto(c, "policy")
    <3>1. Own
      BY <1>g, <1>p, <1>t, <2>1, <2>2 DEF ClaimMoves
    <3> QED BY <1>q, <2>1, <3>1
  <2>3. CASE /\ \/ bucket[BucketOf[c]].phase = "absent" \/ bucket[BucketOf[c]].owned
                \/ Disturbance("bucketRead")
             /\ NotBound(c)
    <3>1. Own
      BY <1>n, <1>t, <2>1, <2>3 DEF ClaimMoves
    <3> QED BY <1>q, <2>1, <3>1
  <2> QED BY <1>3, <2>2, <2>3 DEF ClaimReadBucket
<1>4. CASE ClaimCheckPolicy(c)
  <2>1. UNCHANGED <<claim, bucket, queue>> /\ cw[c].pc = "policy"
    BY <1>4 DEF ClaimCheckPolicy
  <2>2. CASE granted[c] /\ IsBound(c)
    <3>1. Own
      BY <1>i, <1>t, <2>1, <2>2 DEF ClaimMoves
    <3> QED BY <1>q, <2>1, <3>1
  <2>3. CASE (~granted[c] \/ Disturbance("policyRead")) /\ NotBound(c)
    <3>1. Own
      BY <1>n, <1>t, <2>1, <2>3 DEF ClaimMoves
    <3> QED BY <1>q, <2>1, <3>1
  <2> QED BY <1>4, <2>2, <2>3 DEF ClaimCheckPolicy
<1>5. CASE ClaimEnsureBucket(c)
  <2> DEFINE b == BucketOf[c]
             o == [IF bucket[b].phase = "absent" THEN NewBucket ELSE bucket[b] EXCEPT !.owned = TRUE]
  <2>1. UNCHANGED claim /\ cw[c].pc = "ensureBucket"
    BY <1>5 DEF ClaimEnsureBucket
  <2>2. CASE /\ bucket' = [bucket EXCEPT ![b] = o] /\ queue' = queue \cup {x \in {b} : bucket[x].phase = "absent"}
             /\ IsBound(c)
    <3>1. /\ o \in BucketObject /\ o.owned
          /\ \/ bucket[b].phase = "absent" /\ o.phase = "live" /\ ~o.ready
             \/ /\ bucket[b].phase # "absent" /\ o.phase = bucket[b].phase
                /\ o.fin = bucket[b].fin /\ o.ready = bucket[b].ready
      <4>1. CASE bucket[b].phase = "absent"
        <5>1. o = [NewBucket EXCEPT !.owned = TRUE]
          BY <4>1
        <5> QED BY <4>1, <5>1 DEF NewBucket, BucketObject, Phase
      <4>2. CASE bucket[b].phase # "absent"
        <5>1. o = [bucket[b] EXCEPT !.owned = TRUE]
          BY <4>2
        <5> QED BY <1>t, <4>2, <5>1 DEF BucketObject
      <4> QED BY <4>1, <4>2
    <3> HIDE DEF o
    <3>2. /\ bucket' \in [Bucket -> BucketObject] /\ bucket'[b] = o
          /\ \A x \in Bucket \ {b} : bucket'[x] = bucket[x]
      BY <1>t, <2>2, <3>1
    <3>3. queue' \in SUBSET Bucket
      BY <1>t, <2>2
    <3>4. ASSUME NEW x \in Bucket PROVE BucketMoves(x)
      <4>1. CASE x = b
        BY <1>u, <2>1, <3>1, <3>2, <4>1 DEF BucketMoves
      <4>2. CASE x # b
        BY <1>u, <3>2, <4>2 DEF BucketMoves
      <4> QED BY <4>1, <4>2
    <3>5. o.phase # "absent"
      BY <3>1
    <3>6. Own
      BY <1>i, <1>t, <2>1, <2>2, <3>2, <3>5 DEF ClaimMoves
    <3> QED BY <3>2, <3>3, <3>4, <3>6
  <2>3. CASE Disturbance("bucketWrite") /\ NotBound(c) /\ UNCHANGED <<bucket, queue>>
    <3>1. Own
      BY <1>n, <1>t, <2>1, <2>3 DEF ClaimMoves
    <3> QED BY <1>q, <2>3, <3>1
  <2> QED BY <1>5, <2>2, <2>3 DEF ClaimEnsureBucket
<1>6. CASE ClaimBucketReady(c)
  <2>1. UNCHANGED <<claim, bucket, queue>> /\ cw[c].pc = "bucketReady"
    BY <1>6 DEF ClaimBucketReady
  <2>2. /\ cw' \in [Claim -> ClaimWorker] /\ cw'[c].pc = "status" /\ cw'[c].bound = cw[c].bound
        /\ \A x \in Claim \ {c} : cw'[x] = cw[x]
    <3>1. CASE ClaimGoto(c, "status")
      BY <1>g, <1>p, <3>1
    <3>2. CASE cw' = [cw EXCEPT ![c].pc = "status", ![c].ready =
                        (bucket[BucketOf[c]].phase # "absent" /\ bucket[BucketOf[c]].ready)]
      <4>1. PICK r \in BOOLEAN :
              r = (bucket[BucketOf[c]].phase # "absent" /\ bucket[BucketOf[c]].ready)
        OBVIOUS
      <4>2. cw' = [cw EXCEPT ![c].pc = "status", ![c].ready = r]
        BY <3>2, <4>1, Zenon
      <4> QED BY <1>t, <1>p, <4>2 DEF ClaimWorker
    <3> QED BY <1>6, <3>1, <3>2 DEF ClaimBucketReady
  <2>3. Own
    BY <1>t, <2>1, <2>2 DEF ClaimMoves
  <2> QED BY <1>q, <2>1, <2>3
<1>7. CASE ClaimStatus(c)
  <2>1. UNCHANGED <<bucket, queue>> /\ cw[c].pc = "status" /\ ClaimReturn(c)
    BY <1>7 DEF ClaimStatus
  <2>2. CASE claim' = [claim EXCEPT ![c] = ClaimStatusOf(@, cw[c])]
    <3>1. cw[c].bound \in BOOLEAN /\ cw[c].ready \in BOOLEAN /\ claim[c].named \in BOOLEAN
      BY <1>t DEF ClaimWorker, ClaimObject
    <3>2. PICK n \in BOOLEAN : n = (claim[c].named \/ cw[c].bound)
      OBVIOUS
    <3> DEFINE U(x, y, z) == [claim[c] EXCEPT !.bound = x, !.ready = y, !.named = z]
               o == U(cw[c].bound, cw[c].ready, n)
    <3>3. claim' = [claim EXCEPT ![c] = o]
      BY <2>2, <3>2, Zenon DEF ClaimStatusOf
    <3>4. \A x, y, z \in BOOLEAN :
            /\ U(x, y, z) \in ClaimObject /\ U(x, y, z).phase = claim[c].phase
            /\ U(x, y, z).fin = claim[c].fin /\ U(x, y, z).bound = x /\ U(x, y, z).named = z
      BY <1>t DEF ClaimObject
    <3> HIDE DEF U
    <3>5. /\ o \in ClaimObject /\ o.phase = claim[c].phase /\ o.fin = claim[c].fin
          /\ o.bound = cw[c].bound /\ o.named = n
      BY <3>1, <3>2, <3>4, Zenon
    <3> HIDE DEF o
    <3>6. /\ claim' \in [Claim -> ClaimObject] /\ claim'[c] = o
          /\ \A x \in Claim \ {c} : claim'[x] = claim[x]
      BY <1>t, <3>3, <3>5
    <3>7. ClaimMoves(c)
      <4>1. claim'[c].named <=> claim[c].named \/ cw[c].bound
        BY <3>2, <3>5, <3>6, Zenon
      <4>2. /\ claim'[c].phase = claim[c].phase /\ claim'[c].fin = claim[c].fin
            /\ claim'[c].bound = cw[c].bound
        BY <3>5, <3>6, Zenon
      <4> QED BY <1>r, <2>1, <4>1, <4>2, Zenon DEF ClaimMoves
    <3>8. Own
      BY <1>r, <2>1, <3>6, <3>7
    <3> QED BY <1>q, <2>1, <3>8
  <2>3. CASE UNCHANGED claim
    BY <1>k, <1>q, <2>1, <2>3
  <2> QED BY <1>7, <2>2, <2>3 DEF ClaimStatus
<1>8. CASE ClaimCountRefs(c)
  <2>1. UNCHANGED <<claim, bucket, queue>> /\ cw[c].pc = "refs"
    BY <1>8 DEF ClaimCountRefs
  <2>2. CASE (Referencing(c) = {} \/ Disturbance("staleList")) /\ ClaimGoto(c, AfterRefs(c))
    <3>1. AfterRefs(c) \in ClaimPC
      BY <1>p DEF AfterRefs
    <3>2. Own
      BY <1>g, <1>t, <1>u, <2>1, <2>2, <3>1 DEF ClaimMoves
    <3> QED BY <1>q, <2>1, <3>2
  <2>3. CASE ClaimReturn(c)
    BY <1>k, <1>q, <2>1, <2>3
  <2> QED BY <1>8, <2>2, <2>3 DEF ClaimCountRefs
<1>9. CASE ClaimDropBucket(c)
  <2> DEFINE b == BucketOf[c]
  <2>1. UNCHANGED claim /\ cw[c].pc = "dropBucket"
    BY <1>9 DEF ClaimDropBucket
  <2>2. CASE /\ bucket' = [bucket EXCEPT ![b] = Marked(@, NoBucket)] /\ queue' = queue \cup {b}
             /\ ClaimGoto(c, "release")
    <3>1. /\ bucket' \in [Bucket -> BucketObject] /\ bucket'[b] = Marked(bucket[b], NoBucket)
          /\ \A x \in Bucket \ {b} : bucket'[x] = bucket[x]
      BY <1>t, <2>2, Objects
    <3>2. queue' \in SUBSET Bucket
      BY <1>t, <2>2
    <3>3. ASSUME NEW x \in Bucket PROVE BucketMoves(x)
      <4>1. CASE x = b
        BY <1>u, <2>1, <3>1, <4>1 DEF BucketMoves
      <4>2. CASE x # b
        BY <1>u, <3>1, <4>2 DEF BucketMoves
      <4> QED BY <4>1, <4>2
    <3>4. Own
      BY <1>g, <1>p, <1>t, <2>1, <2>2 DEF ClaimMoves
    <3> QED BY <3>1, <3>2, <3>3, <3>4
  <2>3. CASE ClaimReturn(c) /\ UNCHANGED <<bucket, queue>>
    BY <1>k, <1>q, <2>1, <2>3
  <2> QED BY <1>9, <2>2, <2>3 DEF ClaimDropBucket
<1>10. CASE ClaimRelease(c)
  <2>1. UNCHANGED <<bucket, queue>> /\ cw[c].pc = "release" /\ ClaimReturn(c)
    BY <1>10 DEF ClaimRelease
  <2>2. CASE claim' = [claim EXCEPT ![c] = NoClaim]
    <3>1. Own
      BY <1>r, <1>t, <2>1, <2>2, Objects DEF ClaimMoves
    <3> QED BY <1>q, <2>1, <3>1
  <2>3. CASE UNCHANGED claim
    BY <1>k, <1>q, <2>1, <2>3
  <2> QED BY <1>10, <2>2, <2>3 DEF ClaimRelease
<1> QED BY <1>1, <1>2, <1>3, <1>4, <1>5, <1>6, <1>7, <1>8, <1>9, <1>10 DEF ClaimStep

\* What a step of the ObjectStore worker does.
LEMMA StoreSteps ==
    ASSUME TypeOK, StoreStep
    PROVE  TypeOK' /\ Moves
<1>t. /\ store \in Store /\ sw \in StoreWorker /\ healthy \in BOOLEAN /\ queue \in SUBSET Bucket
      /\ access \in [Access -> AccessObject] /\ backend \in [Bucket -> BOOLEAN]
      /\ budget \in [left: Nat, kept: SUBSET Guarantee]
  BY DEF TypeOK
<1>u. UNCHANGED <<bucket, claim, granted, healthy, bw, cw>>
  BY Zenon DEF StoreStep, StoreReconcile, StoreAddFinalizer, StoreEnsure, StoreStatus, StoreTeardown,
     StoreRelease
<1>b. UNCHANGED budget \/ \E d : Disturbance(d)
  BY Zenon DEF StoreStep, StoreReconcile, StoreAddFinalizer, StoreEnsure, StoreStatus, StoreTeardown,
     StoreRelease
<1>c. budget' \in [left: Nat, kept: SUBSET Guarantee]
  BY <1>t, <1>b, DisturbanceType
<1>q. SUFFICES /\ store' \in Store /\ sw' \in StoreWorker /\ queue' \in SUBSET Bucket
               /\ access' \in [Access -> AccessObject] /\ backend' \in [Bucket -> BOOLEAN]
               /\ \A b \in Bucket : backend'[b] = backend[b] \/ (sw.pc = "teardown" /\ ~backend'[b])
               /\ \A a \in Access : AccessMoves(a)
               /\ StoreMoves
  <2>1. TypeOK'
    BY <1>q, <1>u, <1>c DEF TypeOK
  <2>2. \A b \in Bucket : BucketMoves(b)
    BY <1>q, <1>u DEF BucketMoves
  <2>3. \A c \in Claim : ClaimMoves(c)
    BY <1>u DEF ClaimMoves
  <2> QED BY <1>q, <1>u, <1>b, <2>1, <2>2, <2>3 DEF Moves
<1>i. IdleStore \in StoreWorker /\ IdleStore.pc = "idle"
  BY Objects DEF IdleStore, StoreWorker, StorePC
<1>g. ASSUME NEW l \in StorePC, StoreGoto(l)
      PROVE  sw' \in StoreWorker /\ sw'.pc = l
  BY <1>g, <1>t DEF StoreGoto, StoreWorker
<1>p. StorePC = {"idle", "finalizer", "ensure", "status", "teardown", "release"}
  BY DEF StorePC
<1>e. \A x, y : OnStoreEvent(x, y) \in SUBSET Bucket
  BY DEF OnStoreEvent
<1>n. ASSUME UNCHANGED <<access, backend>>
      PROVE  /\ access' \in [Access -> AccessObject] /\ backend' \in [Bucket -> BOOLEAN]
             /\ \A b \in Bucket : backend'[b] = backend[b]
             /\ \A a \in Access : AccessMoves(a)
  BY <1>n, <1>t DEF AccessMoves
<1>1. CASE StoreReconcile
  <2> DEFINE l == IF store.phase = "deleting" THEN "teardown"
                  ELSE IF store.fin THEN "ensure" ELSE "finalizer"
  <2>1. sw' = [sw EXCEPT !.snap = store, !.pc = l] /\ UNCHANGED <<store, access, backend, queue>>
    BY <1>1 DEF StoreReconcile
  <2>2. l \in StorePC /\ l # "release" /\ (l = "teardown" => store.phase = "deleting")
    BY <1>p
  <2> HIDE DEF l
  <2>3. sw' \in StoreWorker /\ sw'.pc = l
    BY <1>t, <2>1, <2>2 DEF StoreWorker
  <2>4. StoreMoves
    BY <2>1, <2>2, <2>3 DEF StoreMoves
  <2> QED BY <1>n, <1>t, <2>1, <2>3, <2>4
<1>2. CASE StoreAddFinalizer
  <2>1. UNCHANGED <<access, backend, queue>> /\ sw.pc = "finalizer"
    BY <1>2 DEF StoreAddFinalizer
  <2>2. CASE store' = [store EXCEPT !.fin = TRUE] /\ StoreGoto("ensure")
    <3>1. store' \in Store /\ store'.phase = store.phase
      BY <1>t, <2>2 DEF Store
    <3>2. sw' \in StoreWorker /\ sw'.pc = "ensure"
      BY <1>g, <1>p, <2>2
    <3>3. StoreMoves
      BY <3>1, <3>2 DEF StoreMoves
    <3> QED BY <1>n, <1>t, <2>1, <3>1, <3>2, <3>3
  <2>3. CASE sw' = IdleStore /\ UNCHANGED store
    <3>1. StoreMoves
      BY <1>i, <2>3 DEF StoreMoves
    <3> QED BY <1>n, <1>t, <1>i, <2>1, <2>3, <3>1
  <2> QED BY <1>2, <2>2, <2>3 DEF StoreAddFinalizer
<1>3. CASE StoreEnsure
  <2>1. UNCHANGED <<store, access, backend, queue>>
    BY <1>3 DEF StoreEnsure
  <2>2. sw' \in StoreWorker /\ sw'.pc = "status"
    <3>1. CASE sw' = [sw EXCEPT !.pc = "status", !.ready = healthy]
      <4>1. \A r \in BOOLEAN : [sw EXCEPT !.pc = "status", !.ready = r] \in StoreWorker
                               /\ [sw EXCEPT !.pc = "status", !.ready = r].pc = "status"
        BY <1>t, <1>p DEF StoreWorker
      <4> QED BY <1>t, <3>1, <4>1, Zenon
    <3>2. CASE StoreGoto("status")
      BY <1>g, <1>p, <3>2
    <3> QED BY <1>3, <3>1, <3>2 DEF StoreEnsure
  <2>3. StoreMoves
    BY <2>1, <2>2 DEF StoreMoves
  <2> QED BY <1>n, <1>t, <2>1, <2>2, <2>3
<1>4. CASE StoreStatus
  <2>1. UNCHANGED <<access, backend>> /\ sw' = IdleStore
    BY <1>4 DEF StoreStatus
  <2>2. store' \in Store /\ store'.phase = store.phase
    <3>1. \A r \in BOOLEAN : [store EXCEPT !.ready = r] \in Store
                             /\ [store EXCEPT !.ready = r].phase = store.phase
      BY <1>t DEF Store
    <3>2. sw.ready \in BOOLEAN
      BY <1>t DEF StoreWorker
    <3>3. store' = [store EXCEPT !.ready = sw.ready] \/ store' = store
      BY <1>4 DEF StoreStatus
    <3> QED BY <1>t, <3>1, <3>2, <3>3, Zenon
  <2>3. queue' \in SUBSET Bucket
    <3>1. queue' = queue \cup OnStoreEvent(store, store') \/ queue' = queue
      BY <1>4, Zenon DEF StoreStatus
    <3> QED BY <1>t, <1>e, <3>1
  <2>4. StoreMoves
    BY <1>i, <2>1, <2>2 DEF StoreMoves
  <2> QED BY <1>n, <1>i, <2>1, <2>2, <2>3, <2>4
<1>5. CASE StoreTeardown
  <2>1. sw.pc = "teardown" /\ UNCHANGED <<store, queue>>
    BY <1>5 DEF StoreTeardown
  <2>2. sw' \in StoreWorker
    BY <1>5, <1>g, <1>i, <1>p DEF StoreTeardown
  <2>3. StoreMoves
    BY <2>1 DEF StoreMoves
  <2>4. CASE UNCHANGED <<backend, access>>
    BY <1>n, <1>t, <2>1, <2>2, <2>3, <2>4
  <2>5. CASE /\ backend' = [b \in Bucket |-> FALSE]
             /\ access' = [a \in Access |-> [access[a] EXCEPT !.key = FALSE]]
    <3>1. ASSUME NEW a \in Access
          PROVE  /\ access'[a] \in AccessObject /\ ~access'[a].key /\ access'[a].phase = access[a].phase
      BY <1>t, <2>5 DEF AccessObject
    <3>2. access' \in [Access -> AccessObject]
      BY <2>5, <3>1
    <3>3. \A a \in Access : AccessMoves(a)
      BY <2>1, <3>1 DEF AccessMoves
    <3> QED BY <1>t, <2>1, <2>2, <2>3, <2>5, <3>2, <3>3
  <2> QED BY <1>5, <2>4, <2>5 DEF StoreTeardown
<1>6. CASE StoreRelease
  <2>1. UNCHANGED <<access, backend>> /\ sw' = IdleStore /\ sw.pc = "release"
    BY <1>6 DEF StoreRelease
  <2>2. store' \in Store
    BY <1>6, <1>t, Objects DEF StoreRelease
  <2>3. queue' \in SUBSET Bucket
    <3>1. queue' = queue \cup OnStoreEvent(store, NoStore) \/ queue' = queue
      BY <1>6 DEF StoreRelease
    <3> QED BY <1>t, <1>e, <3>1
  <2>4. StoreMoves
    BY <1>i, <2>1 DEF StoreMoves
  <2> QED BY <1>n, <1>i, <2>1, <2>2, <2>3, <2>4
<1> QED BY <1>1, <1>2, <1>3, <1>4, <1>5, <1>6 DEF StoreStep

\* What a BucketAccess reconcile, and the user who makes or deletes one, do.
LEMMA AccessSteps ==
    ASSUME TypeOK, NEW a \in Access,
           AccessReconcile(a) \/ AccessDelete(a) \/ UserCreatesAccess(a) \/ UserDeletesAccess(a)
    PROVE  TypeOK' /\ Moves
<1>t. access \in [Access -> AccessObject] /\ access[a] \in AccessObject
  BY DEF TypeOK
<1>u. UNCHANGED <<store, bucket, claim, granted, healthy, backend, sw, bw, cw, queue>>
  BY Zenon DEF AccessReconcile, AccessDelete, UserCreatesAccess, UserDeletesAccess
<1>b. UNCHANGED budget \/ \E d : Disturbance(d)
  BY Zenon DEF AccessReconcile, AccessDelete, UserCreatesAccess, UserDeletesAccess
<1>c. budget' \in [left: Nat, kept: SUBSET Guarantee]
  BY <1>b, DisturbanceType DEF TypeOK
<1>q. SUFFICES \E o \in AccessObject :
                 access' = [access EXCEPT ![a] = o] /\ (access'[a] = o => AccessMoves(a))
  <2>1. access' \in [Access -> AccessObject]
    BY <1>q, <1>t
  <2>2. TypeOK'
    BY <1>u, <1>c, <2>1 DEF TypeOK
  <2>3. ASSUME NEW x \in Access PROVE AccessMoves(x)
    <3>1. CASE x = a
      BY <1>q, <1>t, <3>1
    <3>2. CASE x # a
      BY <1>q, <1>t, <3>2 DEF AccessMoves
    <3> QED BY <3>1, <3>2
  <2>4. \A b \in Bucket : BucketMoves(b)
    BY <1>u DEF BucketMoves
  <2>5. \A c \in Claim : ClaimMoves(c)
    BY <1>u DEF ClaimMoves
  <2>6. StoreMoves
    BY <1>u DEF StoreMoves
  <2> QED BY <1>u, <1>b, <2>2, <2>3, <2>4, <2>5, <2>6 DEF Moves
<1>1. CASE AccessReconcile(a)
  <2>1. /\ access' = [access EXCEPT ![a] = AccessOf(a, access[a])] /\ access[a].phase = "live"
        /\ UNCHANGED budget
    BY <1>1 DEF AccessReconcile
  <2>2. AccessOf(a, access[a]) \in AccessObject
    <3>1. \A r, k \in BOOLEAN : [access[a] EXCEPT !.recorded = r, !.key = k] \in AccessObject
      BY <1>t DEF AccessObject
    <3>2. PICK k \in BOOLEAN : k = (access[a].key /\ ~(access[a].recorded /\ Resolves(ClaimOf[a])))
      OBVIOUS
    <3>3. [access[a] EXCEPT !.recorded = FALSE, !.key = k] \in AccessObject
          /\ [access[a] EXCEPT !.recorded = TRUE, !.key = TRUE] \in AccessObject
      BY <3>1, <3>2
    <3>4. CASE Usable(ClaimOf[a]) /\ bucket[BucketOf[ClaimOf[a]]].ready
      BY <3>3, <3>4 DEF AccessOf
    <3>5. CASE Usable(ClaimOf[a]) /\ ~bucket[BucketOf[ClaimOf[a]]].ready
      BY <1>t, <3>5 DEF AccessOf
    <3>6. CASE ~Usable(ClaimOf[a])
      <4>1. AccessOf(a, access[a]) =
              [access[a] EXCEPT !.recorded = FALSE,
                 !.key = access[a].key /\ ~(access[a].recorded /\ Resolves(ClaimOf[a]))]
        BY <3>6 DEF AccessOf
      <4> QED BY <3>2, <3>3, <4>1, Zenon
    <3> QED BY <3>4, <3>5, <3>6
  <2>3. access'[a] = AccessOf(a, access[a]) => AccessMoves(a)
    BY <1>u, <2>1 DEF AccessMoves
  <2> QED BY <2>1, <2>2, <2>3
<1>2. CASE AccessDelete(a)
  <2>1. PICK k \in BOOLEAN : k = (access[a].key /\ ~(access[a].recorded /\ Resolves(ClaimOf[a])))
    OBVIOUS
  <2>2. access' = [access EXCEPT ![a] = [phase |-> "absent", recorded |-> FALSE, key |-> k]]
    BY <1>2, <2>1, Zenon DEF AccessDelete
  <2>3. [phase |-> "absent", recorded |-> FALSE, key |-> k] \in AccessObject
    BY <2>1 DEF AccessObject, Phase
  <2>4. access'[a] = [phase |-> "absent", recorded |-> FALSE, key |-> k] => AccessMoves(a)
    <3>1. SUFFICES ASSUME access'[a] = [phase |-> "absent", recorded |-> FALSE, key |-> k]
                   PROVE  AccessMoves(a)
      OBVIOUS
    <3>2. access'[a].key = k /\ access'[a].phase = "absent" /\ access[a].phase = "deleting"
      BY <1>2, <3>1 DEF AccessDelete
    <3>3. access'[a].key = (access[a].key /\ ~(access[a].recorded /\ Resolves(ClaimOf[a])))
      BY <2>1, <3>2, Zenon
    <3> QED BY <3>2, <3>3, Zenon DEF AccessMoves
  <2> QED BY <2>2, <2>3, <2>4
<1>3. CASE UserCreatesAccess(a)
  <2>1. /\ access' = [access EXCEPT ![a] = [access[a] EXCEPT !.phase = "live"]]
        /\ Disturbance("createAccess")
    BY <1>3 DEF UserCreatesAccess
  <2>2. [access[a] EXCEPT !.phase = "live"] \in AccessObject
    BY <1>t DEF AccessObject, Phase
  <2> QED BY <2>1, <2>2 DEF AccessMoves
<1>4. CASE UserDeletesAccess(a)
  <2> DEFINE o == [access[a] EXCEPT !.phase = "deleting"]
  <2>1. /\ access' = [access EXCEPT ![a] = o]
        /\ Disturbance("deleteAccess") /\ access[a].phase = "live"
    BY <1>4 DEF UserDeletesAccess
  <2>2. /\ o \in AccessObject /\ o.phase = "deleting" /\ o.recorded = access[a].recorded
        /\ o.key = access[a].key
    BY <1>t DEF AccessObject, Phase
  <2> HIDE DEF o
  <2> QED BY <2>1, <2>2 DEF AccessMoves
<1> QED BY <1>1, <1>2, <1>3, <1>4

\* What the administrator, the user, the data plane and a crash do.
LEMMA OtherSteps ==
    ASSUME TypeOK,
           \/ \E b \in Bucket : AdminDeletesBucket(b)
           \/ \E c \in Claim : PolicyChange(c) \/ UserDeletesClaim(c)
           \/ AdminDeletesStore \/ HealthChange \/ Crash
    PROVE  TypeOK' /\ Moves
<1>t. /\ bucket \in [Bucket -> BucketObject] /\ queue \in SUBSET Bucket /\ store \in Store
      /\ claim \in [Claim -> ClaimObject] /\ granted \in [Claim -> BOOLEAN] /\ healthy \in BOOLEAN
  BY DEF TypeOK
<1>b. \E d : Disturbance(d)
  BY Zenon DEF AdminDeletesBucket, PolicyChange, UserDeletesClaim, AdminDeletesStore, HealthChange, Crash
<1>c. budget' \in [left: Nat, kept: SUBSET Guarantee]
  BY <1>b, DisturbanceType
<1>u. UNCHANGED <<access, backend>>
  BY Zenon DEF AdminDeletesBucket, PolicyChange, UserDeletesClaim, AdminDeletesStore, HealthChange, Crash
<1>a. \A a \in Access : AccessMoves(a)
  BY <1>u DEF AccessMoves
<1>s. UNCHANGED <<store, sw>> => StoreMoves
  BY DEF StoreMoves
<1>d. UNCHANGED <<bucket, bw>> => \A b \in Bucket : BucketMoves(b)
  BY <1>u DEF BucketMoves
<1>e. UNCHANGED <<claim, cw>> => \A c \in Claim : ClaimMoves(c)
  BY DEF ClaimMoves
<1>1. ASSUME NEW b \in Bucket, AdminDeletesBucket(b) PROVE TypeOK' /\ Moves
  <2>1. /\ bucket' = [bucket EXCEPT ![b] = Marked(bucket[b], NoBucket)] /\ queue' = queue \cup {b}
        /\ UNCHANGED <<store, claim, granted, healthy, sw, bw, cw>> /\ Disturbance("deleteBucket")
    BY <1>1 DEF AdminDeletesBucket
  <2>2. /\ bucket' \in [Bucket -> BucketObject] /\ bucket'[b] = Marked(bucket[b], NoBucket)
        /\ \A x \in Bucket \ {b} : bucket'[x] = bucket[x]
    BY <1>t, <2>1, Objects
  <2>3. TypeOK'
    BY <1>c, <1>u, <2>1, <2>2 DEF TypeOK
  <2>4. ASSUME NEW x \in Bucket PROVE BucketMoves(x)
    <3>1. CASE x = b
      BY <1>u, <2>1, <2>2, <3>1 DEF BucketMoves
    <3>2. CASE x # b
      BY <1>u, <2>1, <2>2, <3>2 DEF BucketMoves
    <3> QED BY <3>1, <3>2
  <2> QED BY <1>a, <1>b, <1>e, <1>s, <2>1, <2>3, <2>4 DEF Moves
<1>2. ASSUME NEW c \in Claim, PolicyChange(c) PROVE TypeOK' /\ Moves
  <2>1. /\ granted' = [granted EXCEPT ![c] = ~granted[c]] /\ Disturbance("policy")
        /\ UNCHANGED <<store, bucket, claim, healthy, sw, bw, cw, queue>>
    BY <1>2 DEF PolicyChange
  <2>2. granted' \in [Claim -> BOOLEAN]
    BY <1>t, <2>1
  <2>3. TypeOK'
    BY <1>c, <1>u, <2>1, <2>2 DEF TypeOK
  <2> QED BY <1>a, <1>b, <1>d, <1>e, <1>s, <2>1, <2>3 DEF Moves
<1>3. ASSUME NEW c \in Claim, UserDeletesClaim(c) PROVE TypeOK' /\ Moves
  <2>1. /\ claim' = [claim EXCEPT ![c] = Marked(claim[c], NoClaim)] /\ Disturbance("deleteClaim")
        /\ claim[c].phase = "live"
        /\ UNCHANGED <<store, bucket, granted, healthy, sw, bw, cw, queue>>
    BY <1>3 DEF UserDeletesClaim
  <2>2. /\ claim' \in [Claim -> ClaimObject] /\ claim'[c] = Marked(claim[c], NoClaim)
        /\ \A x \in Claim \ {c} : claim'[x] = claim[x]
    BY <1>t, <2>1, Objects
  <2>3. TypeOK'
    BY <1>c, <1>u, <2>1, <2>2 DEF TypeOK
  <2>4. ASSUME NEW x \in Claim PROVE ClaimMoves(x)
    <3>1. CASE x = c
      BY <2>1, <2>2, <3>1 DEF ClaimMoves
    <3>2. CASE x # c
      BY <2>1, <2>2, <3>2 DEF ClaimMoves
    <3> QED BY <3>1, <3>2
  <2> QED BY <1>a, <1>b, <1>d, <1>s, <2>1, <2>3, <2>4 DEF Moves
<1>4. CASE AdminDeletesStore
  <2>1. /\ store' = Marked(store, NoStore) /\ queue' = queue \cup OnStoreEvent(store, store')
        /\ Disturbance("deleteStore")
        /\ UNCHANGED <<bucket, claim, granted, healthy, sw, bw, cw>>
    BY <1>4 DEF AdminDeletesStore
  <2>2. store' \in Store
    BY <1>t, <2>1, Objects
  <2>3. queue' \in SUBSET Bucket
    BY <1>t, <2>1 DEF OnStoreEvent
  <2>4. TypeOK'
    BY <1>c, <1>u, <2>1, <2>2, <2>3 DEF TypeOK
  <2>5. StoreMoves
    BY <2>1 DEF StoreMoves
  <2> QED BY <1>a, <1>b, <1>d, <1>e, <2>1, <2>4, <2>5 DEF Moves
<1>5. CASE HealthChange
  <2>1. healthy' = ~healthy /\ UNCHANGED <<store, bucket, claim, granted, sw, bw, cw, queue>>
    BY <1>5 DEF HealthChange
  <2>2. healthy' \in BOOLEAN
    BY <2>1
  <2>3. TypeOK'
    BY <1>c, <1>u, <2>1, <2>2 DEF TypeOK
  <2> QED BY <1>a, <1>b, <1>d, <1>e, <1>s, <2>1, <2>3 DEF Moves
<1>6. CASE Crash
  <2>1. /\ sw' = IdleStore /\ bw' = [b \in Bucket |-> IdleBucket] /\ cw' = [c \in Claim |-> IdleClaim]
        /\ queue' = {b \in Bucket : bucket[b].phase # "absent"}
        /\ UNCHANGED <<store, bucket, claim, granted, healthy>>
    BY <1>6 DEF Crash
  <2>2. IdleStore \in StoreWorker /\ IdleBucket \in BucketWorker /\ IdleClaim \in ClaimWorker
    BY Objects DEF IdleStore, StoreWorker, StorePC, IdleBucket, BucketWorker, BucketPC, IdleClaim,
       ClaimWorker, ClaimPC
  <2>3. TypeOK'
    BY <1>c, <1>u, <2>1, <2>2 DEF TypeOK
  <2>4. \A b \in Bucket : BucketMoves(b)
    BY <1>u, <2>1 DEF BucketMoves
  <2>5. \A c \in Claim : ClaimMoves(c)
    BY <2>1 DEF ClaimMoves
  <2>6. StoreMoves
    BY <2>1 DEF StoreMoves, IdleStore
  <2> QED BY <1>a, <1>b, <2>1, <2>3, <2>4, <2>5, <2>6 DEF Moves
<1> QED BY <1>1, <1>2, <1>3, <1>4, <1>5, <1>6

\* Every step keeps the types and moves the objects as above.
LEMMA Steps ==
    ASSUME TypeOK, [Next]_vars
    PROVE  TypeOK' /\ Moves
<1>1. ASSUME NEW b \in Bucket, BucketStep(b) PROVE TypeOK' /\ Moves
  <2>1. /\ bucket' \in [Bucket -> BucketObject] /\ bw' \in [Bucket -> BucketWorker]
        /\ backend' \in [Bucket -> BOOLEAN] /\ queue' \in SUBSET Bucket
        /\ UNCHANGED <<store, claim, access, granted, healthy, sw, cw>>
        /\ UNCHANGED budget \/ \E d : Disturbance(d)
        /\ BucketMoves(b)
        /\ \A x \in Bucket \ {b} :
             bucket'[x] = bucket[x] /\ bw'[x] = bw[x] /\ backend'[x] = backend[x]
    BY <1>1, BucketSteps, Zenon
  <2>2. budget' \in [left: Nat, kept: SUBSET Guarantee]
    BY <2>1, DisturbanceType DEF TypeOK
  <2>3. TypeOK'
    BY <2>1, <2>2 DEF TypeOK
  <2>4. ASSUME NEW x \in Bucket PROVE BucketMoves(x)
    <3>1. CASE x = b
      BY <2>1, <3>1
    <3>2. CASE x # b
      BY <2>1, <3>2 DEF BucketMoves
    <3> QED BY <3>1, <3>2
  <2>5. \A c \in Claim : ClaimMoves(c)
    BY <2>1 DEF ClaimMoves
  <2>6. \A a \in Access : AccessMoves(a)
    BY <2>1 DEF AccessMoves
  <2>7. StoreMoves
    BY <2>1 DEF StoreMoves
  <2> QED BY <2>1, <2>3, <2>4, <2>5, <2>6, <2>7 DEF Moves
<1>2. ASSUME NEW c \in Claim, ClaimStep(c) PROVE TypeOK' /\ Moves
  <2>1. /\ claim' \in [Claim -> ClaimObject] /\ cw' \in [Claim -> ClaimWorker]
        /\ bucket' \in [Bucket -> BucketObject] /\ queue' \in SUBSET Bucket
        /\ UNCHANGED <<store, access, granted, healthy, backend, sw, bw>>
        /\ UNCHANGED budget \/ \E d : Disturbance(d)
        /\ ClaimMoves(c)
        /\ \A x \in Claim \ {c} : claim'[x] = claim[x] /\ cw'[x] = cw[x]
        /\ \A b \in Bucket : BucketMoves(b)
    BY <1>2, ClaimSteps, Zenon
  <2>2. budget' \in [left: Nat, kept: SUBSET Guarantee]
    BY <2>1, DisturbanceType DEF TypeOK
  <2>3. TypeOK'
    BY <2>1, <2>2 DEF TypeOK
  <2>4. ASSUME NEW x \in Claim PROVE ClaimMoves(x)
    <3>1. CASE x = c
      BY <2>1, <3>1
    <3>2. CASE x # c
      BY <2>1, <3>2 DEF ClaimMoves
    <3> QED BY <3>1, <3>2
  <2>5. \A a \in Access : AccessMoves(a)
    BY <2>1 DEF AccessMoves
  <2>6. StoreMoves
    BY <2>1 DEF StoreMoves
  <2> QED BY <2>1, <2>3, <2>4, <2>5, <2>6 DEF Moves
<1>3. ASSUME UNCHANGED vars PROVE TypeOK' /\ Moves
  <2>1. TypeOK'
    BY <1>3 DEF vars, TypeOK
  <2>2. \A b \in Bucket : BucketMoves(b)
    BY <1>3 DEF vars, BucketMoves
  <2>3. \A c \in Claim : ClaimMoves(c)
    BY <1>3 DEF vars, ClaimMoves
  <2>4. (\A a \in Access : AccessMoves(a)) /\ StoreMoves
    BY <1>3 DEF vars, AccessMoves, StoreMoves
  <2> QED BY <1>3, <2>1, <2>2, <2>3, <2>4 DEF vars, Moves
<1>4. ASSUME NEW a \in Access,
             AccessReconcile(a) \/ AccessDelete(a) \/ UserCreatesAccess(a) \/ UserDeletesAccess(a)
      PROVE  TypeOK' /\ Moves
  BY <1>4, AccessSteps
<1>5. \/ UNCHANGED vars \/ StoreStep
      \/ \E b \in Bucket : BucketStep(b)
      \/ \E c \in Claim : ClaimStep(c)
      \/ \E a \in Access : \/ AccessReconcile(a) \/ AccessDelete(a)
                            \/ UserCreatesAccess(a) \/ UserDeletesAccess(a)
      \/ \E b \in Bucket : AdminDeletesBucket(b)
      \/ \E c \in Claim : PolicyChange(c) \/ UserDeletesClaim(c)
      \/ AdminDeletesStore \/ HealthChange \/ Crash
  BY Zenon DEF Next, AccessStep
<1> QED BY <1>1, <1>2, <1>3, <1>4, <1>5, StoreSteps, OtherSteps

-----------------------------------------------------------------------------
(* The finalizers and the owner's label *)

\* Marking an object for deletion keeps one that has a finalizer.
LEMMA MarkedFields ==
    /\ \A o \in BucketObject :
         LET m == Marked(o, NoBucket)
         IN  /\ o.fin => m.phase = "deleting" /\ m.fin /\ m.ready = o.ready /\ m.owned = o.owned
             /\ ~o.fin => m = NoBucket
    /\ \A o \in ClaimObject :
         LET m == Marked(o, NoClaim)
         IN  /\ o.fin => m.phase = "deleting" /\ m.fin /\ m.named = o.named /\ m.bound = o.bound
             /\ ~o.fin => m = NoClaim
BY DEF Marked, BucketObject, ClaimObject

\* A worker past its finalizer has an object to work on.
LEMMA HeldStep ==
    ASSUME TypeOK, Moves, HeldInv
    PROVE  HeldInv'
<1>1. ASSUME NEW b \in Bucket
      PROVE  /\ bucket'[b].phase = "deleting" => bucket'[b].fin
             /\ bucket'[b].fin => bucket'[b].phase # "absent"
             /\ bw'[b].pc \notin {"idle", "finalizer"} => bucket'[b].phase # "absent" /\ bucket'[b].fin
             /\ bw'[b].pc = "finalizer" => bw'[b].snap.phase # "absent"
  <2>1. /\ bucket[b].phase = "deleting" => bucket[b].fin
        /\ bucket[b].fin => bucket[b].phase # "absent"
        /\ bw[b].pc \notin {"idle", "finalizer"} => bucket[b].phase # "absent" /\ bucket[b].fin
        /\ bw[b].pc = "finalizer" => bw[b].snap.phase # "absent"
    BY DEF HeldInv
  <2>2. BucketMoves(b) /\ bucket[b] \in BucketObject
    BY DEF Moves, TypeOK
  <2> QED BY <2>1, <2>2, MarkedFields DEF BucketMoves, IdleBucket, NoBucket
<1>2. ASSUME NEW c \in Claim
      PROVE  /\ claim'[c].phase = "deleting" => claim'[c].fin
             /\ cw'[c].pc \notin {"idle", "finalizer"} => claim'[c].phase # "absent" /\ claim'[c].fin
             /\ cw'[c].pc = "finalizer" => cw'[c].snap.phase # "absent"
             /\ claim'[c].named => claim'[c].phase # "absent" /\ claim'[c].fin
             /\ cw'[c].pc \in {"ensureBucket", "dropBucket"} => c \in Greenfield
             /\ cw'[c].pc \in {"readBucket", "policy"} => c \notin Greenfield
  <2>1. /\ claim[c].phase = "deleting" => claim[c].fin
        /\ cw[c].pc \notin {"idle", "finalizer"} => claim[c].phase # "absent" /\ claim[c].fin
        /\ cw[c].pc = "finalizer" => cw[c].snap.phase # "absent"
        /\ claim[c].named => claim[c].phase # "absent" /\ claim[c].fin
        /\ cw[c].pc \in {"ensureBucket", "dropBucket"} => c \in Greenfield
        /\ cw[c].pc \in {"readBucket", "policy"} => c \notin Greenfield
    BY DEF HeldInv
  <2>2. ClaimMoves(c) /\ claim[c] \in ClaimObject
    BY DEF Moves, TypeOK
  <2> QED BY <2>1, <2>2, MarkedFields DEF ClaimMoves, IdleClaim, NoClaim, AfterRefs
<1> QED BY <1>1, <1>2 DEF HeldInv

\* ensureGreenfield labels the bucket it makes and nothing else is labelled, so
\* ensureBrownfield turns every other claim away from it.
LEMMA OwnedStep ==
    ASSUME TypeOK, Moves, HeldInv, OwnedInv
    PROVE  OwnedInv'
<1>1. ASSUME NEW b \in Bucket
      PROVE  bucket'[b].phase # "absent" => (bucket'[b].owned <=> Claimed(b))
  <2>1. /\ bucket[b].phase # "absent" => (bucket[b].owned <=> Claimed(b))
        /\ BucketMoves(b) /\ bucket[b] \in BucketObject
    BY DEF OwnedInv, Moves, TypeOK
  <2>2. \A c \in Claim : BucketOf[c] = b /\ cw[c].pc = "ensureBucket" => Claimed(b)
    BY DEF HeldInv, Claimed
  <2>3. /\ bucket[b].fin => bucket[b].phase # "absent"
        /\ bw[b].pc = "finalizer" => bw[b].snap.phase # "absent"
    BY DEF HeldInv
  <2> QED BY <2>1, <2>2, <2>3, MarkedFields DEF BucketMoves, NoBucket
<1>2. ASSUME NEW c \in Claim \ Greenfield, Claimed(BucketOf[c])
      PROVE  ~claim'[c].named /\ ~cw'[c].bound /\ cw'[c].pc # "policy"
  <2>1. /\ ~claim[c].named /\ ~cw[c].bound /\ cw[c].pc # "policy"
        /\ ClaimMoves(c) /\ claim[c] \in ClaimObject /\ BucketOf[c] \in Bucket
    BY <1>2, BindingAssumption DEF OwnedInv, Moves, TypeOK
  <2>2. bucket[BucketOf[c]].phase # "absent" => bucket[BucketOf[c]].owned
    BY <1>2, <2>1 DEF OwnedInv
  <2>3. cw[c].pc # "ensureBucket"
    BY DEF HeldInv
  <2> QED BY <2>1, <2>2, <2>3, MarkedFields DEF ClaimMoves, IdleClaim, NoClaim, AfterRefs
<1> QED BY <1>1, <1>2 DEF OwnedInv, Claimed

-----------------------------------------------------------------------------
(* Taking the chain down from below *)

\* While the order is kept, a step is not disorderly.
LEMMA Orderly ==
    ASSUME TypeOK, Moves, Kept("order")'
    PROVE  /\ Kept("order")
           /\ \A d \in Disorderly : ~Disturbance(d)
<1>1. ASSUME NEW d, Disturbance(d) PROVE d \notin Disorderly /\ Kept("order")
  BY <1>1, DisturbanceType
<1>2. UNCHANGED budget => Kept("order")
  BY DEF Kept
<1> QED BY <1>1, <1>2 DEF Moves

\* A claim without accesses stays without: nobody creates one.
LEMMA ClearedStays ==
    ASSUME TypeOK, Moves, Kept("order")', NEW c \in Claim, Cleared(c)
    PROVE  Cleared(c)'
<1>1. ASSUME NEW a \in Access, ClaimOf[a] = c
      PROVE  access'[a].phase = "absent" /\ ~access'[a].key
  <2>1. access[a].phase = "absent" /\ ~access[a].key /\ AccessMoves(a)
    BY <1>1 DEF Cleared, Moves
  <2>2. ~Disturbance("createAccess")
    BY Orderly DEF Disorderly
  <2> QED BY <2>1, <2>2 DEF AccessMoves
<1> QED BY <1>1 DEF Cleared

\* So does the bucket of a greenfield claim.
LEMMA EmptiedStays ==
    ASSUME TypeOK, Moves, Kept("order")', NEW b \in Bucket, Emptied(b)
    PROVE  Emptied(b)'
<1>1. PICK c \in Greenfield : BucketOf[c] = b /\ Cleared(c)
  BY DEF Emptied
<1>2. Cleared(c)'
  BY <1>1, ClearedStays, BindingAssumption
<1> QED BY <1>1, <1>2 DEF Emptied

\* Nobody uses a bucket without accesses: it has one greenfield claim, and no brownfield
\* claim is bound to it.
LEMMA NobodyUses ==
    ASSUME TypeOK, OwnedInv, NEW a \in Access, claim[ClaimOf[a]].named,
           Emptied(BucketOf[ClaimOf[a]])
    PROVE  access[a].phase = "absent" /\ ~access[a].key
<1>1. PICK c \in Greenfield : BucketOf[c] = BucketOf[ClaimOf[a]] /\ Cleared(c)
  BY DEF Emptied
<1>2. ClaimOf[a] \in Claim
  BY BindingAssumption
<1>3. ClaimOf[a] \in Greenfield
  BY <1>1, <1>2 DEF OwnedInv, Claimed
<1>4. ClaimOf[a] = c
  BY <1>1, <1>3, NamesAssumption
<1> QED BY <1>1, <1>4 DEF Cleared

\* The store is deleted only out of order.
LEMMA StoreKept ==
    ASSUME TypeOK, Moves, Kept("order")', StoreInv
    PROVE  StoreInv'
<1>1. ~Disturbance("deleteStore")
  BY Orderly DEF Disorderly
<1> QED BY <1>1 DEF Moves, StoreMoves, StoreInv

\* referencingAccesses counts an access that is being deleted, so a claim past it has
\* neither accesses nor keys.
LEMMA ClearedStep ==
    ASSUME TypeOK, Moves, Kept("order")', ClearedInv, KeyInv
    PROVE  ClearedInv'
<1>1. ASSUME NEW c \in Claim, cw'[c].pc \in {"dropBucket", "release"} PROVE Cleared(c)'
  <2>1. ClaimMoves(c) /\ ~Disturbance("staleList")
    BY Orderly DEF Moves, Disorderly
  <2>2. CASE cw[c].pc \in {"dropBucket", "release"}
    BY <2>2, ClearedStays DEF ClearedInv
  <2>3. CASE cw[c].pc \notin {"dropBucket", "release"}
    <3>1. Referencing(c) = {}
      BY <1>1, <2>1, <2>3 DEF ClaimMoves, IdleClaim
    <3>2. Cleared(c)
      BY <3>1 DEF Referencing, Cleared, KeyInv
    <3> QED BY <3>2, ClearedStays
  <2> QED BY <2>2, <2>3
<1> QED BY <1>1 DEF ClearedInv

\* reconcileDelete of a claim deletes its Bucket after the count, and only the deletion of
\* a Bucket takes the data.
LEMMA TeardownStep ==
    ASSUME TypeOK, Moves, Kept("order")', HeldInv, StoreInv, ClearedInv, TeardownInv
    PROVE  TeardownInv'
<1>1. ASSUME NEW b \in Bucket
      PROVE  /\ \/ bucket'[b].phase = "deleting"
                \/ bw'[b].pc \in {"delStore", "delBackend", "release"}
                => Emptied(b)'
             /\ bucket'[b].ready \/ bw'[b].ready => backend'[b] \/ Emptied(b)'
  <2>1. CASE Emptied(b)
    BY <2>1, EmptiedStays
  <2>2. CASE ~Emptied(b)
    <3>1. /\ bucket[b].phase # "deleting" /\ bw[b].pc \notin {"delStore", "delBackend", "release"}
          /\ bucket[b].ready \/ bw[b].ready => backend[b]
      BY <2>2 DEF TeardownInv
    <3>2. \A c \in Claim : BucketOf[c] = b => cw[c].pc # "dropBucket"
      BY <2>2 DEF ClearedInv, HeldInv, Emptied
    <3>3. ~Disturbance("deleteBucket") /\ sw.pc # "teardown" /\ BucketMoves(b)
      BY Orderly DEF Disorderly, StoreInv, Moves
    <3> QED BY <3>1, <3>2, <3>3 DEF BucketMoves, IdleBucket
  <2> QED BY <2>1, <2>2
<1> QED BY <1>1 DEF TeardownInv

\* A key is issued only where the whole chain is there, and no part of the chain goes while
\* the key is there.
LEMMA KeyStep ==
    ASSUME TypeOK, Moves, Kept("order")', HeldInv, OwnedInv, OrderInv
    PROVE  KeyInv'
<1>1. SUFFICES ASSUME NEW a \in Access, access'[a].key
               PROVE  /\ access'[a].phase # "absent" /\ access'[a].recorded
                      /\ claim'[ClaimOf[a]].named
                      /\ bucket'[BucketOf[ClaimOf[a]]].phase # "absent"
                      /\ backend'[BucketOf[ClaimOf[a]]]
  BY DEF KeyInv
<1> DEFINE c == ClaimOf[a]
           b == BucketOf[c]
<1>2. c \in Claim /\ b \in Bucket /\ access[a] \in AccessObject /\ claim[c] \in ClaimObject
      /\ bucket[b] \in BucketObject
  BY BindingAssumption DEF TypeOK
<1>3. AccessMoves(a) /\ ClaimMoves(c) /\ BucketMoves(b)
  BY <1>2 DEF Moves
<1>4. /\ store.phase = "live" /\ sw.pc # "teardown"
      /\ ~Disturbance("createAccess") /\ ~Disturbance("deleteBucket")
  BY Orderly DEF OrderInv, StoreInv, Disorderly
<1>5. access[a].key => /\ access[a].phase # "absent" /\ access[a].recorded /\ claim[c].named
                       /\ bucket[b].phase # "absent" /\ backend[b]
  BY DEF OrderInv, KeyInv
<1>6. access[a].key => Resolves(c)
  BY <1>4, <1>5 DEF Resolves
<1>7. CASE access[a].key
  <2>1. access'[a].phase # "absent" /\ access'[a].recorded
    <3>1. CASE access'[a] = AccessOf(a, access[a]) /\ access[a].phase = "live"
      <4>1. CASE Usable(c) /\ bucket[b].ready
        BY <1>2, <3>1, <4>1 DEF AccessOf, AccessObject
      <4>2. CASE Usable(c) /\ ~bucket[b].ready
        BY <1>5, <1>7, <3>1, <4>2 DEF AccessOf
      <4>3. CASE ~Usable(c)
        BY <1>1, <1>2, <1>5, <1>6, <1>7, <3>1, <4>3 DEF AccessOf, AccessObject
      <4> QED BY <4>1, <4>2, <4>3
    <3>2. CASE ~(access'[a] = AccessOf(a, access[a]) /\ access[a].phase = "live")
      BY <1>1, <1>3, <1>4, <1>5, <1>6, <1>7, <3>2 DEF AccessMoves
    <3> QED BY <3>1, <3>2
  <2>2. ~Emptied(b) /\ ~Cleared(c)
    BY <1>5, <1>7, NobodyUses DEF Cleared
  <2>3. claim[c].fin /\ cw[c].pc # "release"
    BY <1>2, <1>5, <1>7, <2>2 DEF HeldInv, OrderInv, ClearedInv
  <2>4. claim'[c].named
    BY <1>2, <1>3, <1>5, <1>7, <2>3, MarkedFields DEF ClaimMoves
  <2>5. bw[b].pc \notin {"delStore", "delBackend", "release"}
    BY <1>2, <2>2 DEF OrderInv, TeardownInv
  <2>6. \A d \in Claim : BucketOf[d] = b => cw[d].pc # "dropBucket"
    BY <2>2 DEF OrderInv, ClearedInv, HeldInv, Emptied
  <2>7. bucket'[b].phase # "absent" /\ backend'[b]
    BY <1>3, <1>4, <1>5, <1>7, <2>5, <2>6 DEF BucketMoves
  <2> QED BY <2>1, <2>4, <2>7
<1>8. CASE ~access[a].key
  <2>1. /\ access[a].phase = "live" /\ access'[a] = AccessOf(a, access[a])
        /\ UNCHANGED <<bucket, claim, backend>>
    BY <1>1, <1>3, <1>4, <1>8 DEF AccessMoves
  <2>2. Usable(c) /\ bucket[b].ready
    <3>1. CASE Usable(c) /\ ~bucket[b].ready
      BY <1>1, <1>8, <2>1, <3>1 DEF AccessOf
    <3>2. CASE ~Usable(c)
      BY <1>1, <1>2, <1>8, <2>1, <3>2 DEF AccessOf, AccessObject
    <3> QED BY <3>1, <3>2
  <2>3. access'[a].phase = "live" /\ access'[a].recorded
    BY <1>2, <2>1, <2>2 DEF AccessOf, AccessObject
  <2>4. claim[c].named /\ bucket[b].phase # "absent"
    BY <2>2 DEF Usable, Resolves
  <2>5. backend[b]
    BY <1>2, <2>1, <2>2, <2>4, NobodyUses DEF OrderInv, TeardownInv
  <2> QED BY <2>1, <2>3, <2>4, <2>5
<1> QED BY <1>7, <1>8

-----------------------------------------------------------------------------
(* Health *)

\* While only health is disturbed, no disturbance is of another kind.
LEMMA Healthy ==
    ASSUME TypeOK, Moves, Kept("health")'
    PROVE  /\ Kept("health") /\ (Kept("order") => Kept("order")')
           /\ \A d : Disturbance(d) => d \in HealthOnly
<1>1. ASSUME NEW d, Disturbance(d)
      PROVE  d \in HealthOnly /\ Kept("health") /\ (Kept("order") => Kept("order")')
  BY <1>1, DisturbanceType
<1>2. UNCHANGED budget => Kept("health") /\ (Kept("order") => Kept("order")')
  BY DEF Kept
<1> QED BY <1>1, <1>2 DEF Moves

\* A claim that was bound stays bound and a bucket that was there stays there: what is not
\* Ready is waited for.
LEMMA HealthStep ==
    ASSUME TypeOK, Moves, Kept("health")', HeldInv, OwnedInv, HealthInv
    PROVE  HealthInv'
<1>d. /\ ~Disturbance("policy") /\ ~Disturbance("deleteClaim") /\ ~Disturbance("bucketRead")
      /\ ~Disturbance("policyRead") /\ ~Disturbance("bucketWrite") /\ ~Disturbance("deleteBucket")
      /\ ~Disturbance("staleList")
  BY Healthy DEF HealthOnly
<1>1. ASSUME NEW b \in Bucket
      PROVE  /\ bucket'[b].phase # "deleting"
             /\ bw'[b].pc \notin {"delStore", "delBackend", "release"}
             /\ bucket[b].phase # "absent" => bucket'[b].phase # "absent"
  <2>1. /\ bucket[b].phase # "deleting" /\ bw[b].pc \notin {"delStore", "delBackend", "release"}
        /\ \A c \in Claim : cw[c].pc # "dropBucket"
    BY DEF HealthInv
  <2>2. BucketMoves(b)
    BY DEF Moves
  <2> QED BY <1>d, <2>1, <2>2 DEF BucketMoves, IdleBucket
<1>2. ASSUME NEW c \in Claim
      PROVE  /\ granted'[c] /\ claim'[c].phase = "live"
             /\ cw'[c].pc \notin {"refs", "dropBucket", "release"}
             /\ claim'[c].named => claim'[c].bound /\ Here(c)'
             /\ cw'[c].pc \in {"policy", "bucketReady"} => Here(c)'
             /\ cw'[c].pc = "bucketReady" => cw'[c].bound
             /\ cw'[c].pc = "status" /\ cw'[c].bound => Here(c)'
             /\ cw'[c].pc = "status" /\ claim'[c].named => cw'[c].bound
  <2>1. /\ granted[c] /\ claim[c].phase = "live" /\ cw[c].pc \notin {"refs", "dropBucket", "release"}
        /\ claim[c].named => claim[c].bound /\ Here(c)
        /\ cw[c].pc \in {"policy", "bucketReady"} => Here(c)
        /\ cw[c].pc = "bucketReady" => cw[c].bound
        /\ cw[c].pc = "status" /\ cw[c].bound => Here(c)
        /\ cw[c].pc = "status" /\ claim[c].named => cw[c].bound
    BY DEF HealthInv
  <2>2. ClaimMoves(c) /\ BucketOf[c] \in Bucket
    BY BindingAssumption DEF Moves
  <2>3. granted'[c]
    BY <1>d, <2>1 DEF Moves
  <2>4. Here(c) => Here(c)'
    BY <1>1, <2>2 DEF Here
  <2>5. cw[c].pc = "readBucket" /\ claim[c].named =>
          bucket[BucketOf[c]].phase # "absent" /\ ~bucket[BucketOf[c]].owned
    BY <2>1, <2>2 DEF HeldInv, OwnedInv, Here
  <2>6. /\ bucket[BucketOf[c]].phase # "absent" => Here(c)
        /\ bucket'[BucketOf[c]].phase # "absent" => Here(c)'
    BY DEF Here
  <2>7. /\ claim'[c].phase = "live"
        /\ cw'[c].pc \notin {"refs", "dropBucket", "release"}
    BY <1>d, <2>1, <2>2 DEF ClaimMoves, IdleClaim
  <2>8. claim'[c].named => claim'[c].bound /\ Here(c)'
    BY <1>d, <2>1, <2>2, <2>4 DEF ClaimMoves
  <2>9. /\ cw'[c].pc \in {"policy", "bucketReady"} => Here(c)'
        /\ cw'[c].pc = "bucketReady" => cw'[c].bound
        /\ cw'[c].pc = "status" /\ cw'[c].bound => Here(c)'
    BY <1>d, <2>1, <2>2, <2>4, <2>6 DEF ClaimMoves, IdleClaim
  <2>10. cw'[c].pc = "status" /\ claim'[c].named => cw'[c].bound
    BY <1>d, <2>1, <2>2, <2>5 DEF ClaimMoves, IdleClaim
  <2> QED BY <2>3, <2>7, <2>8, <2>9, <2>10
<1> QED BY <1>1, <1>2 DEF HealthInv

\* An access that is not being deleted keeps its key: claim and bucket resolve and are
\* allowed, so a reconcile issues it again or waits.
LEMMA KeyKept ==
    ASSUME TypeOK, Moves, Kept("health")', OrderInv, HealthInv,
           NEW a \in Access, access[a].key, access[a].phase = "live"
    PROVE  access'[a].key
<1> DEFINE c == ClaimOf[a]
           b == BucketOf[c]
<1>1. c \in Claim /\ access[a] \in AccessObject /\ AccessMoves(a)
  BY BindingAssumption DEF TypeOK, Moves
<1>2. Usable(c)
  BY <1>1 DEF OrderInv, KeyInv, StoreInv, HealthInv, Usable, Resolves, Authorized
<1>3. ~Disturbance("createAccess") /\ sw.pc # "teardown"
  BY Healthy DEF HealthOnly, OrderInv, StoreInv
<1>4. AccessOf(a, access[a]).key
  <2>1. CASE bucket[b].ready
    BY <1>1, <1>2, <2>1 DEF AccessOf, AccessObject
  <2>2. CASE ~bucket[b].ready
    BY <1>2, <2>2 DEF AccessOf
  <2> QED BY <2>1, <2>2
<1> QED BY <1>1, <1>3, <1>4 DEF AccessMoves

-----------------------------------------------------------------------------
(* The theorems *)

\* The store, the claims, the accesses and the shared buckets were just applied.
LEMMA InitInv ==
    ASSUME Init
    PROVE  BindingInv
<1>1. TypeOK
  <2>1. IdleStore \in StoreWorker /\ IdleBucket \in BucketWorker /\ IdleClaim \in ClaimWorker
    BY Objects DEF IdleStore, StoreWorker, StorePC, IdleBucket, BucketWorker, BucketPC, IdleClaim,
       ClaimWorker, ClaimPC
  <2>2. bucket \in [Bucket -> BucketObject] /\ claim \in [Claim -> ClaimObject]
        /\ access \in [Access -> AccessObject] /\ store \in Store
    BY Objects DEF Init
  <2> QED BY <2>1, <2>2, BindingAssumption DEF Init, TypeOK
<1>2. /\ \A x \in Bucket : bw[x] = IdleBucket
      /\ \A x \in Bucket : bucket[x] = NoBucket \/ (bucket[x] = NewBucket /\ x \in Shared)
      /\ \A x \in Claim : cw[x] = IdleClaim /\ claim[x] = NewClaim /\ granted[x]
      /\ \A x \in Access : access[x] = NewAccess
      /\ store = NewStore /\ sw = IdleStore
  BY DEF Init
<1>3. HeldInv
  BY <1>2 DEF HeldInv, IdleBucket, NoBucket, NewBucket, IdleClaim, NewClaim
<1>4. OwnedInv
  <2>1. \A x \in Shared : ~Claimed(x)
    BY NamesAssumption DEF Claimed
  <2> QED BY <1>2, <2>1 DEF OwnedInv, IdleClaim, NewClaim, NoBucket, NewBucket
<1>5. OrderInv
  BY <1>2, BindingAssumption DEF OrderInv, StoreInv, ClearedInv, TeardownInv, KeyInv, IdleStore,
     NewStore, IdleBucket, NoBucket, NewBucket, IdleClaim, NewAccess
<1>6. HealthInv
  BY <1>2 DEF HealthInv, IdleClaim, NewClaim, IdleBucket, NoBucket, NewBucket
<1>7. Kept("order")
  BY DEF Init, Kept, Guarantee
<1> QED BY <1>1, <1>3, <1>4, <1>5, <1>6, <1>7 DEF BindingInv

\* Every step of every reconciler, and every disturbance, keeps the invariant.
LEMMA StepInv ==
    ASSUME BindingInv, [Next]_vars
    PROVE  BindingInv'
<1>1. TypeOK /\ HeldInv /\ OwnedInv /\ (Kept("order") => OrderInv)
      /\ (Kept("health") => Kept("order") /\ HealthInv)
  BY DEF BindingInv
<1>2. TypeOK' /\ Moves
  BY <1>1, Steps
<1>3. HeldInv' /\ OwnedInv'
  BY <1>1, <1>2, HeldStep, OwnedStep
<1>4. Kept("order")' => OrderInv'
  <2>1. SUFFICES ASSUME Kept("order")' PROVE OrderInv'
    OBVIOUS
  <2>2. OrderInv
    BY <1>1, <1>2, <2>1, Orderly
  <2>3. StoreInv /\ ClearedInv /\ TeardownInv /\ KeyInv
    BY <2>2 DEF OrderInv
  <2>4. StoreInv' /\ ClearedInv'
    BY <1>1, <1>2, <2>1, <2>3, StoreKept, ClearedStep
  <2>5. TeardownInv'
    BY <1>1, <1>2, <2>1, <2>3, TeardownStep
  <2>6. KeyInv'
    BY <1>1, <1>2, <2>1, <2>2, KeyStep
  <2> QED BY <2>4, <2>5, <2>6 DEF OrderInv
<1>5. Kept("health")' => Kept("order")' /\ HealthInv'
  BY <1>1, <1>2, Healthy, HealthStep
<1> QED BY <1>2, <1>3, <1>4, <1>5 DEF BindingInv

\* The invariant holds throughout.
LEMMA InvAlways == Spec => []BindingInv
<1>1. Init => BindingInv
  BY InitInv
<1>2. BindingInv /\ [Next]_vars => BindingInv'
  BY StepInv
<1> QED BY <1>1, <1>2, PTL DEF Spec

\* The objects and the workers of the four reconcilers keep their types.
THEOREM BindingTypeCorrect == Spec => []TypeOK
<1>1. BindingInv => TypeOK
  BY DEF BindingInv
<1> QED BY <1>1, InvAlways, PTL

\* A claim and the data of its bucket outlive every key issued through the claim, in
\* whatever order claims and accesses are deleted and whatever fails meanwhile, unless
\* somebody takes the bucket or the store away or adds an access behind the back of a
\* claim that is being deleted (reconcileDelete of BucketClaim and Bucket).
THEOREM BindingOrderlyTeardown == Spec => []OrderlyTeardown
<1>1. BindingInv => OrderlyTeardown
  <2>1. SUFFICES ASSUME BindingInv, Kept("order"), NEW a \in Access, access[a].key
                 PROVE  claim[ClaimOf[a]].phase # "absent" /\ backend[BucketOf[ClaimOf[a]]]
    BY DEF OrderlyTeardown
  <2>2. ClaimOf[a] \in Claim
    BY BindingAssumption
  <2>3. claim[ClaimOf[a]].named /\ backend[BucketOf[ClaimOf[a]]]
    BY <2>1 DEF BindingInv, OrderInv, KeyInv
  <2> QED BY <2>1, <2>2, <2>3 DEF BindingInv, HeldInv
<1> QED BY <1>1, InvAlways, PTL

\* No flapping data plane, no failing call and no restart costs a live access its key
\* (bucketUnhealthy in reconcileNormal of BucketAccess).
THEOREM BindingKeysSurvive == Spec => KeysSurviveOutage
<1> DEFINE Kept1 == Kept("health")' =>
                      \A a \in Access :
                         access[a].key /\ access[a].phase = "live" => access'[a].key
<1>1. BindingInv /\ [Next]_vars => Kept1
  <2>1. SUFFICES ASSUME BindingInv, [Next]_vars, Kept("health")',
                        NEW a \in Access, access[a].key, access[a].phase = "live"
                 PROVE  access'[a].key
    OBVIOUS
  <2>2. TypeOK /\ Moves
    BY <2>1, Steps DEF BindingInv
  <2>3. OrderInv /\ HealthInv
    BY <2>1, <2>2, Healthy DEF BindingInv
  <2> QED BY <2>1, <2>2, <2>3, KeyKept
<1>2. BindingInv /\ [Next]_vars => [Kept1]_vars
  BY <1>1
<1> HIDE DEF Kept1
<1>3. Spec => [][Kept1]_vars
  BY <1>2, InvAlways, PTL DEF Spec
<1> QED BY <1>3 DEF Kept1, KeysSurviveOutage

=============================================================================
