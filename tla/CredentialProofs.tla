-------------------------- MODULE CredentialProofs --------------------------
(***************************************************************************)
(* What a BucketAccess promises to the namespace that uses it: a key dies  *)
(* with its access, a Secret never mixes two keys although Garage shows a  *)
(* secret key once, and no outage takes working credentials away.          *)
(***************************************************************************)
EXTENDS KeyTrackingProofs

-----------------------------------------------------------------------------
(* The invariants *)

Deleting == {"delClaim", "delResolve", "delKey", "release"}

\* The finalizer of object o as the worker at p knows it, from the cached copy c and from
\* what it read, s: a reconcile issues keys behind a finalizer only, although the cache may
\* be behind, because the cache never shows a live object again once one was seen deleted.
Finalizing(o, c, p, s) ==
    /\ o.phase = "absent" => ~o.fin
    /\ o.phase = "deleting" => o.fin
    /\ c.phase # "live" => o.phase # "live"
    /\ c.phase = "live" /\ c.fin => o.fin
    /\ p = "finalizer" => s.phase = "live"
    /\ p \in Deleting => s.phase = "deleting" /\ c.phase # "live"
    /\ p \notin Deleting \cup {"idle", "finalizer"} => o.fin

\* Where a key of the access may exist on SeaweedFS.
Housed(a) ==
    /\ Finalizing(obj[a], cache[a], pc[a], snap[a])
    /\ SurroundingsTracked(live[a], env[a])
    /\ ~obj[a].fin \/ pc[a] = "release" => live[a] = {}

HousedInv == Kept("keys") => \A a \in Access : Housed(a)

\* A recorded key is behind a finalizer, nobody else writes it, and it was minted.
Recorded(o, p, s, l) ==
    /\ o.phase = "deleting" => o.fin
    /\ ~o.fin => o.key = NoKey
    /\ p \notin {"idle", "finalizer"} => o.fin /\ o.key = s.key
    /\ {o.key, l.key} \subseteq used \cup {NoKey}

\* The Secret t of access a: its own, a pair, and the recorded key's if that one is alive.
Stored(a, o, ks, t) ==
    /\ t = NoSecret \/ t.owner = a
    /\ t.ak = t.sk /\ t.ak \in used \cup {NoKey}
    /\ ks \subseteq used
    /\ o.key \in ks /\ t # NoSecret => t.ak = o.key

\* What the worker at p carries: a fresh key with its secret key, or the recorded key, alive,
\* with the secret key that the Secret has for it.
Carried(p, s, l, ks, t) ==
    /\ p # "putIdentity"
    /\ p \in {"getSecret", "ensure"} => l.sk = NoKey
    /\ p = "ensure" /\ ~l.mint /\ s.key \in ks => l.old = s.key
    /\ p \in {"mint", "deletePrev"} => l.mint
    /\ p \in {"allow", "deletePrev", "writeSecret"} =>
         /\ l.key \in Key
         /\ l.mint => l.sk = l.key
         /\ ~l.mint => l.sk = NoKey /\ l.key = s.key /\ l.old = s.key
    /\ p = "writeSecret" /\ l.mint => s.key \notin ks
    /\ p = "status" => l.key \in {NoKey, s.key, t.ak} \/ t = NoSecret

Paired(a) ==
    /\ Recorded(obj[a], pc[a], snap[a], loc[a])
    /\ Stored(a, obj[a], live[a], secrets[SecretOf[a]])
    /\ Carried(pc[a], snap[a], loc[a], live[a], secrets[SecretOf[a]])

PairInv == Kept("pairs") => \A a \in Access : Paired(a)

\* Nobody wants anything changed: claim, policy, bucket and store stand, no rotation is
\* asked for, and the worker neither revokes nor deletes.
Wanted(o, e, p, s, l) ==
    /\ e.claim = "bound" /\ e.granted /\ e.store /\ e.bucket # "none"
    /\ o.phase = "live"
    /\ \A x \in {o, s} : x.rotate = NoRotation /\ x.obsRot = NoRotation
    /\ p \notin Deleting \cup {"revokeKey", "dropSecret"}
    /\ p \in {"resolve", "authorize"} => l.bound
    /\ p = "authorize" => l.store

\* A key is minted only in place of one that is dead or has no Secret, and the key in the
\* worker's hands is alive.
Replacing(p, s, l, ks, t) ==
    /\ p = "ensure" /\ l.mint => s.key = NoKey \/ t = NoSecret
    /\ p \in {"mint", "allow", "deletePrev"} /\ l.mint => s.key \notin ks \/ t = NoSecret
    /\ p \in {"allow", "deletePrev"} /\ l.mint => l.key \notin {s.key, t.ak}
    /\ p \in {"allow", "deletePrev", "writeSecret"} => l.key \in ks

Calm(a) ==
    /\ cache[a].phase = "live"
    /\ Wanted(obj[a], env[a], pc[a], snap[a], loc[a])
    /\ Replacing(pc[a], snap[a], loc[a], live[a], secrets[SecretOf[a]])

CalmInv == Kept("outage") => Kept("pairs") /\ \A a \in Access : Calm(a)

-----------------------------------------------------------------------------
(* What the writes do to the fields the invariants read *)

\* The locals, as the stages of a reconcile set them.
LEMMA LocalWrites ==
    /\ NoLocal.key = NoKey /\ NoLocal.sk = NoKey
    /\ \A l \in Local :
          /\ l.bound \in BOOLEAN /\ l.store \in BOOLEAN
          /\ MustMint(l).key = l.key
          /\ Written(l).key = l.key /\ Dropped(l).key = l.key
          /\ \A e \in Environment :
                /\ SawClaim(l, e).key = l.key /\ (SawClaim(l, e).bound <=> e.claim = "bound")
                /\ SawBucket(l, e).key = l.key /\ SawBucket(l, e).bound = l.bound
                /\ SawBucket(l, e).store = e.store
          /\ \A k \in KeyOrNone :
                Reused(l, k).key = k /\ Reused(l, k).sk = l.sk /\ Reused(l, k).old = l.old
          /\ \A o \in Object, t \in Secret \cup {NoSecret} :
                /\ SawSecret(l, o, t).key = l.key /\ SawSecret(l, o, t).sk = l.sk
                /\ SawSecret(l, o, t).old = t.sk
                /\ SawSecret(l, o, t).mint <=> MintFresh(o, t)
<1>1. NoLocal.key = NoKey /\ NoLocal.sk = NoKey
  BY DEF NoLocal
<1>2. ASSUME NEW l \in Local
      PROVE  /\ l.bound \in BOOLEAN /\ l.store \in BOOLEAN
             /\ MustMint(l).key = l.key
             /\ Written(l).key = l.key /\ Dropped(l).key = l.key
  BY DEF Local, MustMint, Written, Dropped
<1>3. ASSUME NEW l \in Local, NEW e \in Environment
      PROVE  /\ SawClaim(l, e).key = l.key /\ (SawClaim(l, e).bound <=> e.claim = "bound")
             /\ SawBucket(l, e).key = l.key /\ SawBucket(l, e).bound = l.bound
             /\ SawBucket(l, e).store = e.store
  BY DEF Local, Environment, SawClaim, SawBucket
<1>4. ASSUME NEW l \in Local, NEW k \in KeyOrNone
      PROVE  Reused(l, k).key = k /\ Reused(l, k).sk = l.sk /\ Reused(l, k).old = l.old
  BY DEF Local, Reused
<1>5. ASSUME NEW l \in Local, NEW o \in Object, NEW t \in Secret \cup {NoSecret}
      PROVE  /\ SawSecret(l, o, t).key = l.key /\ SawSecret(l, o, t).sk = l.sk
             /\ SawSecret(l, o, t).old = t.sk
             /\ SawSecret(l, o, t).mint <=> MintFresh(o, t)
  BY DEF Local, SawSecret
<1> QED BY <1>1, <1>2, <1>3, <1>4, <1>5

\* The rotation as the user and the status set it.
LEMMA RotationWrites ==
    /\ NewObject.rotate = NoRotation /\ NewObject.obsRot = NoRotation
    /\ \A o \in Object :
          /\ Finalized(o).rotate = o.rotate /\ Finalized(o).obsRot = o.obsRot
          /\ \A p \in Object, l \in Local :
                /\ NewStatus(o, p, l).rotate = o.rotate
                /\ NewStatus(o, p, l).obsRot \in {NoRotation, p.rotate, o.obsRot}
<1>1. NewObject.rotate = NoRotation /\ NewObject.obsRot = NoRotation
  BY DEF NewObject
<1>2. ASSUME NEW o \in Object
      PROVE  Finalized(o).rotate = o.rotate /\ Finalized(o).obsRot = o.obsRot
  BY DEF Object, Finalized
<1>3. ASSUME NEW o \in Object, NEW p \in Object, NEW l \in Local
      PROVE  /\ NewStatus(o, p, l).rotate = o.rotate
             /\ NewStatus(o, p, l).obsRot \in {NoRotation, p.rotate, o.obsRot}
  BY DEF Object, NewStatus
<1> QED BY <1>1, <1>2, <1>3

\* The exits of a reconcile.
LEMMA Exits ==
    ASSUME TypeOK, NEW a \in Access
    PROVE  /\ Return(a) => pc'[a] = "idle" /\ snap'[a] = NewObject /\ loc'[a] = NoLocal
           /\ \A r \in {"True", "False", "Keep"}, k \in KeyOrNone :
                Finish(a, r, k) =>
                   /\ pc'[a] = "status" /\ snap'[a] = snap[a] /\ loc'[a].key = k
           /\ \A l : Goto(a, l) => pc'[a] = l
<1>1. Return(a) => pc'[a] = "idle" /\ snap'[a] = NewObject /\ loc'[a] = NoLocal
  BY DEF TypeOK, Return, Goto
<1>2. ASSUME NEW r \in {"True", "False", "Keep"}, NEW k \in KeyOrNone, Finish(a, r, k)
      PROVE  pc'[a] = "status" /\ snap'[a] = snap[a] /\ loc'[a].key = k
  <2>1. pc'[a] = "status" /\ snap'[a] = snap[a] /\ loc'[a] = Outcome(r, k)
    BY <1>2 DEF TypeOK, Finish, Goto
  <2> QED BY <2>1, LocalFields
<1>3. \A l : Goto(a, l) => pc'[a] = l
  BY DEF TypeOK, Goto
<1> QED BY <1>1, <1>2, <1>3

\* A guarantee that stands after a disturbance stood before it.
LEMMA Standing ==
    ASSUME TypeOK, NEW d, Disturbance(d)
    PROVE  /\ Kept("pairs")' => d \notin LosesPairs
           /\ Kept("outage")' => d \in HealthOnly
           /\ Kept("outage")' /\ Kept("pairs") => Kept("pairs")'
           /\ \A g : Kept(g)' => Kept(g)
<1>1. budget'.kept = budget.kept \ Voids(d)
  BY DEF Disturbance
<1>2. "pairs" \in Guarantee /\ "outage" \in Guarantee
  BY DEF Guarantee
<1>3. HealthOnly \cap LosesPairs = {}
  BY DEF HealthOnly, LosesPairs
<1> QED BY <1>1, <1>2, <1>3 DEF Kept, Voids

\* Every step leaves the budget alone or is a disturbance.
LEMMA Disturbed ==
    ASSUME [Next]_vars
    PROVE  UNCHANGED budget \/ \E d : Disturbance(d)
<1>1. ASSUME NEW a \in Access, Reconcile(a) \/ CacheSync(a) \/ CollectSecret(a)
      PROVE  UNCHANGED budget \/ \E d : Disturbance(d)
  BY <1>1, Zenon DEF Reconcile, CacheSync, CollectSecret
<1>2. ASSUME NEW a \in Access, Step(a)
      PROVE  UNCHANGED budget \/ \E d : Disturbance(d)
  BY <1>2, Zenon DEF Step, AddFinalizer, ReadClaim, ResolveBound, Authorize,
       RevokeKey, DropSecret, GetSecret, EnsureGarage, CreateKey, Allow,
       DeletePrev, ReadIdentity, WriteIdentity, Unreachable,
       EnsureCredentialsSecret, UpdateStatus, DeleteReadClaim, DeleteResolve,
       DeleteKey, Release
<1>3. ASSUME NEW a \in Access, Surroundings(a)
      PROVE  UNCHANGED budget \/ \E d : Disturbance(d)
  BY <1>3, Zenon DEF Surroundings, ClaimChange, BucketChange, StoreChange,
       PolicyChange, Vanish, UserRotate, UserDelete, UserDeletesSecret
<1>4. Crash \/ UNCHANGED vars => UNCHANGED budget \/ \E d : Disturbance(d)
  BY Zenon DEF Crash, vars
<1> QED BY <1>1, <1>2, <1>3, <1>4, Zenon DEF Next

-----------------------------------------------------------------------------
(* A key dies with its access *)

\* Before the driver is called, and after it: a step inside a reconcile that issues.
LEMMA IssuingHoused ==
    ASSUME TypeOK, Backend = "SeaweedFS", HandedOver, Kept("keys")', NEW a \in Access, Housed(a),
           \/ Reconcile(a) \/ AddFinalizer(a) \/ ReadClaim(a) \/ ResolveBound(a)
           \/ Authorize(a) \/ GetSecret(a) \/ ReadIdentity(a) \/ WriteIdentity(a)
           \/ RevokeKey(a) \/ DropSecret(a) \/ EnsureCredentialsSecret(a) \/ UpdateStatus(a)
    PROVE  Housed(a)'
<1> USE ConstantsAssumption
<1>t. /\ cache[a] \in Object /\ obj[a] \in Object /\ snap[a] \in Object /\ loc[a] \in Local
      /\ snap[a].key \in KeyOrNone /\ NoKey \in KeyOrNone /\ loc[a].key \in KeyOrNone
      /\ live[a] \subseteq Key
  BY ObjectTypes, LocalTypes DEF TypeOK, KeyOrNone
<1>m. ASSUME UNCHANGED <<obj, cache, env>>,
             pc[a] \notin Deleting \cup {"idle", "finalizer"},
             pc'[a] \notin Deleting \cup {"finalizer"},
             live'[a] \subseteq live[a] \/ env[a].store
      PROVE  Housed(a)'
  BY <1>m DEF Housed, Finalizing, SurroundingsTracked, Deleting
<1>1. CASE Reconcile(a)
  <2>1. UNCHANGED <<obj, cache, live, env, loc>> /\ snap'[a] = cache[a] /\ pc[a] = "idle"
        /\ cache[a].phase # "absent"
    BY <1>1 DEF Reconcile, TypeOK
  <2>2. pc'[a] = IF cache[a].phase = "deleting" THEN "delClaim"
                 ELSE IF cache[a].fin THEN "claim" ELSE "finalizer"
    BY <1>1 DEF Reconcile, TypeOK, Goto
  <2>3. cache[a].phase \in {"live", "deleting"}
    BY <1>t, <2>1 DEF Object
  <2> QED BY <2>1, <2>2, <2>3 DEF Housed, Finalizing, Deleting
<1>2. CASE AddFinalizer(a)
  <2>1. UNCHANGED <<cache, live, env>> /\ pc[a] = "finalizer"
    BY <1>2 DEF AddFinalizer
  <2>2. CASE Return(a) /\ UNCHANGED obj
    BY <2>1, <2>2, Exits DEF Housed, Finalizing, Deleting
  <2>3. CASE /\ obj[a] = snap[a] /\ obj' = [obj EXCEPT ![a] = Finalized(@)]
             /\ Goto(a, "claim")
    <3>1. obj'[a] = Finalized(obj[a]) /\ pc'[a] = "claim"
      BY <2>3 DEF TypeOK, Goto
    <3>2. obj'[a].phase = obj[a].phase /\ obj'[a].fin
      BY <1>t, <3>1, ObjectFields
    <3> QED BY <2>1, <2>3, <3>1, <3>2 DEF Housed, Finalizing, Deleting
  <2> QED BY <1>2, <2>2, <2>3 DEF AddFinalizer
<1>3. CASE ReadClaim(a) \/ ResolveBound(a)
  <2>1. UNCHANGED <<obj, cache, live, env>> /\ pc[a] \in {"claim", "resolve"}
    BY <1>3 DEF ReadClaim, ResolveBound
  <2>2. pc'[a] \in {"dropSecret", "revokeKey", "status", "resolve", "authorize"}
    BY <1>3 DEF ReadClaim, ResolveBound, EnforceRevocation, Finish, Goto, TypeOK
  <2> QED BY <1>m, <2>1, <2>2 DEF Deleting
<1>4. CASE Authorize(a) \/ GetSecret(a)
  <2>1. UNCHANGED <<obj, cache, live, env>> /\ pc[a] \in {"authorize", "getSecret"}
    BY <1>4 DEF Authorize, GetSecret
  <2>2. pc'[a] \in {"dropSecret", "revokeKey", "status", "getSecret", "ensure"}
    BY <1>4 DEF Authorize, GetSecret, EnforceRevocation, Finish, Goto, TypeOK
  <2> QED BY <1>m, <2>1, <2>2 DEF Deleting
<1>5. CASE ReadIdentity(a)
  <2>1. UNCHANGED <<obj, cache, live, env>> /\ pc[a] = "ensure"
    BY <1>5 DEF ReadIdentity
  <2>2. pc'[a] \in {"status", "putIdentity"}
    BY <1>5 DEF ReadIdentity, EnsureFails, Finish, Goto, TypeOK
  <2> QED BY <1>m, <2>1, <2>2 DEF Deleting
<1>6. CASE WriteIdentity(a)
  <2>1. /\ UNCHANGED <<obj, cache, env>> /\ pc[a] = "putIdentity"
        /\ UNCHANGED live \/ env[a].store
    BY <1>6, Zenon DEF WriteIdentity
  <2>2. pc'[a] \in {"status", "writeSecret"}
    BY <1>6 DEF WriteIdentity, EnsureFails, Finish, Goto, TypeOK
  <2> QED BY <1>m, <2>1, <2>2 DEF Deleting
<1>7. CASE RevokeKey(a) \/ DropSecret(a)
  <2>1. UNCHANGED <<obj, cache, env>> /\ pc[a] \in {"revokeKey", "dropSecret"}
    BY <1>7 DEF RevokeKey, DropSecret
  <2>2. pc'[a] \in {"status", "dropSecret"} /\ live'[a] \subseteq live[a]
    BY <1>7 DEF RevokeKey, DropSecret, DriverDeleteAccess, Finish, Goto, TypeOK
  <2> QED BY <1>m, <2>1, <2>2 DEF Deleting
<1>8. CASE EnsureCredentialsSecret(a)
  <2>1. UNCHANGED <<obj, cache, live, env>> /\ pc[a] = "writeSecret"
    BY <1>8 DEF EnsureCredentialsSecret
  <2>2. pc'[a] = "status"
    BY <1>8 DEF EnsureCredentialsSecret, Finish, Goto, TypeOK
  <2> QED BY <1>m, <2>1, <2>2 DEF Deleting
<1>9. CASE UpdateStatus(a)
  <2>1. UNCHANGED <<cache, live, env>> /\ pc[a] = "status" /\ pc'[a] = "idle"
    BY <1>9 DEF UpdateStatus, Return, Goto, TypeOK
  <2>2. obj'[a] \in {obj[a], NewStatus(obj[a], snap[a], loc[a])}
    BY <1>9 DEF UpdateStatus, TypeOK
  <2>3. obj'[a].phase = obj[a].phase /\ obj'[a].fin = obj[a].fin
    BY <1>t, <2>2, ObjectFields
  <2> QED BY <2>1, <2>3 DEF Housed, Finalizing, SurroundingsTracked, Deleting
<1> QED BY <1>1, <1>2, <1>3, <1>4, <1>5, <1>6, <1>7, <1>8, <1>9

\* reconcileDelete: the finalizer is held until the identity is gone.
LEMMA DeletingHoused ==
    ASSUME TypeOK, Backend = "SeaweedFS", Kept("keys")', NEW a \in Access, Housed(a),
           DeleteReadClaim(a) \/ DeleteResolve(a) \/ DeleteKey(a) \/ Release(a)
    PROVE  Housed(a)'
<1>d. ~Disturbance("resolve") /\ ~Disturbance("noToken")
  BY KeptStep DEF LosesKeys
<1>m. ASSUME UNCHANGED <<obj, cache, env>>, pc[a] \in Deleting, live'[a] \subseteq live[a],
             \/ pc'[a] = "idle"
             \/ pc'[a] \in Deleting /\ UNCHANGED snap /\ (pc'[a] = "release" => live'[a] = {})
      PROVE  Housed(a)'
  BY <1>m DEF Housed, Finalizing, SurroundingsTracked, Deleting
<1>1. CASE DeleteReadClaim(a)
  <2>1. UNCHANGED <<obj, cache, live, env>> /\ pc[a] = "delClaim"
    BY <1>1 DEF DeleteReadClaim
  <2>2. pc'[a] = "idle" \/ (pc'[a] = "delResolve" /\ UNCHANGED snap)
    BY <1>1 DEF DeleteReadClaim, Return, Goto, TypeOK, Housed, SurroundingsTracked
  <2> QED BY <1>m, <2>1, <2>2 DEF Deleting
<1>2. CASE DeleteResolve(a)
  <2>1. UNCHANGED <<obj, cache, live, env, snap>> /\ pc[a] = "delResolve"
    BY <1>2 DEF DeleteResolve
  <2>2. pc'[a] = IF env[a].store THEN "delKey" ELSE "release"
    BY <1>2, <1>d DEF DeleteResolve, AfterResolve, TypeOK, Goto, Housed, SurroundingsTracked
  <2> QED BY <1>m, <2>1, <2>2 DEF Deleting, Housed, SurroundingsTracked
<1>3. CASE DeleteKey(a)
  <2>1. UNCHANGED <<obj, cache, env>> /\ pc[a] = "delKey"
    BY <1>3 DEF DeleteKey
  <2>2. live[a] \ RevokedKeys(a) = {}
    BY DEF RevokedKeys, Housed, SurroundingsTracked
  <2>3. CASE Return(a)
    <3>1. live'[a] \subseteq live[a]
      BY <1>3 DEF DeleteKey, DriverDeleteAccess, TypeOK
    <3> QED BY <1>m, <2>1, <2>3, <3>1, Exits DEF Deleting
  <2>4. CASE DriverDeleteAccess(a) /\ Goto(a, "release") /\ UNCHANGED snap
    <3>1. pc'[a] = "release" /\ live'[a] = {}
      BY <2>2, <2>4 DEF DriverDeleteAccess, TypeOK, Goto
    <3> QED BY <1>m, <2>1, <2>4, <3>1 DEF Deleting
  <2> QED BY <1>3, <1>d, <2>3, <2>4 DEF DeleteKey
<1>4. CASE Release(a)
  <2>1. UNCHANGED <<cache, live, env>> /\ pc[a] = "release" /\ pc'[a] = "idle"
    BY <1>4, Exits DEF Release
  <2>2. CASE UNCHANGED obj
    BY <1>m, <2>1, <2>2 DEF Deleting
  <2>3. CASE obj' = [obj EXCEPT ![a] = Gone]
    <3>1. obj'[a].phase = "absent" /\ ~obj'[a].fin
      BY <2>3, ObjectFields DEF TypeOK
    <3> QED BY <2>1, <3>1 DEF Housed, Finalizing, Deleting
  <2> QED BY <1>4, <2>2, <2>3 DEF Release
<1> QED BY <1>1, <1>2, <1>3, <1>4

\* The cache, the garbage collector, the user and the other controllers.
LEMMA AroundHoused ==
    ASSUME TypeOK, Kept("keys")', NEW a \in Access, Housed(a),
           CacheSync(a) \/ CollectSecret(a) \/ Surroundings(a)
    PROVE  Housed(a)'
<1>d. ~Disturbance("claimGone") /\ ~Disturbance("bucketGone") /\ ~Disturbance("storeRetain")
  BY KeptStep DEF LosesKeys
<1>t. obj[a] \in Object /\ cache[a] \in Object
  BY DEF TypeOK
<1>1. CASE CacheSync(a)
  <2>1. UNCHANGED <<obj, live, env, pc, snap, loc>> /\ cache'[a] = obj[a]
    BY <1>1 DEF CacheSync, TypeOK
  <2> QED BY <2>1 DEF Housed, Finalizing
<1>2. CASE CollectSecret(a) \/ UserDeletesSecret(a)
  BY <1>2 DEF CollectSecret, UserDeletesSecret, Housed
<1>3. CASE ClaimChange(a) \/ BucketChange(a) \/ PolicyChange(a)
  <2>1. UNCHANGED <<obj, cache, live, pc, snap, loc>>
    BY <1>3 DEF ClaimChange, BucketChange, PolicyChange
  <2>2. /\ env'[a].claim \in {"lost", "bound"} /\ env'[a].bucket # "none"
        /\ env'[a].store = env[a].store
    <3>1. CASE ClaimChange(a)
      <4>1. PICK c \in {"lost", "bound"} : env' = [env EXCEPT ![a] = WithClaim(@, c)]
        BY <1>d, <3>1 DEF ClaimChange
      <4> QED BY <4>1, EnvironmentFields DEF TypeOK, Housed, SurroundingsTracked
    <3>2. CASE BucketChange(a)
      <4>1. PICK b \in {"notReady", "ready"} : env' = [env EXCEPT ![a] = WithBucket(@, b)]
        BY <1>d, <3>2 DEF BucketChange
      <4> QED BY <4>1, EnvironmentFields DEF TypeOK, Housed, SurroundingsTracked
    <3>3. CASE PolicyChange(a)
      BY <3>3, EnvironmentFields DEF PolicyChange, TypeOK, Housed, SurroundingsTracked
    <3> QED BY <1>3, <3>1, <3>2, <3>3
  <2> QED BY <2>1, <2>2 DEF Housed, SurroundingsTracked
<1>4. CASE StoreChange(a) \/ Vanish(a)
  <2>1. UNCHANGED <<obj, cache, pc, snap, loc>> /\ live'[a] = {}
    BY <1>4, <1>d DEF StoreChange, Vanish, TypeOK
  <2>2. env'[a].claim = env[a].claim /\ env'[a].bucket = env[a].bucket
    BY <1>4, EnvironmentFields DEF StoreChange, Vanish, TypeOK
  <2> QED BY <2>1, <2>2 DEF Housed, SurroundingsTracked
<1>5. CASE UserRotate(a)
  <2>1. UNCHANGED <<cache, live, env, pc, snap, loc>>
    BY <1>5 DEF UserRotate
  <2>2. PICK r \in Rotation : obj' = [obj EXCEPT ![a] = Annotated(@, r)]
    BY <1>5 DEF UserRotate
  <2>3. obj'[a].phase = obj[a].phase /\ obj'[a].fin = obj[a].fin
    BY <1>t, <2>2, ObjectFields DEF TypeOK
  <2> QED BY <2>1, <2>3 DEF Housed, Finalizing
<1>6. CASE UserDelete(a)
  <2>1. UNCHANGED <<cache, live, env, pc, snap, loc>> /\ obj[a].phase = "live"
    BY <1>6 DEF UserDelete
  <2>2. obj'[a] = Deleted(obj[a])
    BY <1>6 DEF UserDelete, TypeOK
  <2>3. /\ obj[a].fin => obj'[a].phase = "deleting" /\ obj'[a].fin
        /\ ~obj[a].fin => obj'[a].phase = "absent" /\ ~obj'[a].fin
    BY <1>t, <2>2, ObjectFields
  <2> QED BY <2>1, <2>3 DEF Housed, Finalizing
<1> QED BY <1>1, <1>2, <1>3, <1>4, <1>5, <1>6 DEF Surroundings

\* Every step keeps the invariant, on SeaweedFS; a crash leaves no worker behind.
LEMMA HousedStep ==
    ASSUME TypeOK, HandedOver, HousedInv, [Next]_vars, Backend = "SeaweedFS"
    PROVE  HousedInv'
<1> SUFFICES ASSUME Kept("keys")', NEW b \in Access PROVE Housed(b)'
  BY DEF HousedInv
<1>1. \A a \in Access : Housed(a)
  BY KeptBackwards DEF HousedInv
<1>2. ASSUME NEW a \in Access,
             Reconcile(a) \/ Step(a) \/ CacheSync(a) \/ CollectSecret(a) \/ Surroundings(a)
      PROVE  Housed(b)'
  <2>1. CASE b # a
    <3>1. Same(b)
      BY <1>2, <2>1, OthersUntouched
    <3> QED BY <1>1, <3>1 DEF Same, Housed
  <2>2. CASE b = a
    <3>1. ~EnsureGarage(a) /\ ~CreateKey(a) /\ ~Allow(a) /\ ~DeletePrev(a)
      BY DEF HandedOver, EnsureGarage, CreateKey, Allow, DeletePrev
    <3> QED BY <1>1, <1>2, <2>2, <3>1, IssuingHoused, DeletingHoused, AroundHoused DEF Step
  <2> QED BY <2>1, <2>2
<1>3. CASE Crash
  <2>1. UNCHANGED <<obj, live, env>> /\ cache' = obj /\ pc'[b] = "idle"
    BY <1>3 DEF Crash
  <2> QED BY <1>1, <2>1 DEF Housed, Finalizing, Deleting
<1>4. CASE UNCHANGED vars
  BY <1>1, <1>4 DEF vars, Housed
<1> QED BY <1>2, <1>3, <1>4 DEF Next

\* A released BucketAccess leaves no key in the backend, on both backends: on SeaweedFS
\* whatever crashes, lags or gets lost, on Garage until an id is lost (reconcileDelete,
\* DeleteAccess of both drivers).
THEOREM KeysDieWithAccess == Spec => []DeletionRevokes
<1>1. CASE Backend = "Garage"
  <2>1. KeyTracked => DeletionRevokes
    BY DEF KeyTracked, DeletionRevokes
  <2>2. Spec => []KeyTracked
    BY <1>1, GarageKeyTracked
  <2> QED BY <2>1, <2>2, PTL
<1>2. CASE Backend = "SeaweedFS"
  <2>1. Init => HousedInv
    <3> SUFFICES ASSUME Init, NEW a \in Access PROVE Housed(a)
      BY DEF HousedInv
    <3>1. /\ obj[a] = NewObject /\ cache[a] = NewObject /\ live[a] = {} /\ pc[a] = "idle"
          /\ env[a].claim = "bound" /\ env[a].bucket = "ready"
      BY DEF Init
    <3> QED BY <3>1, ObjectFields DEF Housed, Finalizing, SurroundingsTracked, Deleting
  <2>2. TypeOK /\ HandedOver /\ HousedInv /\ [Next]_vars
           => (TypeOK /\ HandedOver /\ HousedInv)'
    BY <1>2, TypeStep, HandedOverStep, HousedStep
  <2>3. HousedInv => DeletionRevokes
    BY DEF HousedInv, DeletionRevokes, Housed, Finalizing
  <2> QED BY TypeInit, <2>1, <2>2, <2>3, PTL DEF Spec
<1> QED BY <1>1, <1>2, ConstantsAssumption

-----------------------------------------------------------------------------
(* A Secret never mixes two keys *)

Apart == \A a, b \in Access : SecretOf[a] = SecretOf[b] => a = b

\* What a step does to the Secret and the keys of the accesses it is not about: nothing,
\* when every access has a Secret of its own; and a key id is never given out twice.
LEMMA OthersKept ==
    ASSUME TypeOK, Apart, NEW a \in Access,
           Reconcile(a) \/ Step(a) \/ CacheSync(a) \/ CollectSecret(a) \/ Surroundings(a)
    PROVE  /\ used \subseteq used'
           /\ \A b \in Access : b # a => secrets'[SecretOf[b]] = secrets[SecretOf[b]]
<1> USE ConstantsAssumption
<1>1. CASE DropSecret(a) \/ EnsureCredentialsSecret(a) \/ CollectSecret(a) \/ UserDeletesSecret(a)
  BY <1>1 DEF DropSecret, EnsureCredentialsSecret, CollectSecret, UserDeletesSecret, TypeOK, Apart
<1>2. CASE CreateKey(a) \/ ReadIdentity(a)
  BY <1>2 DEF CreateKey, ReadIdentity
<1>3. ASSUME \/ Reconcile(a) \/ AddFinalizer(a) \/ ReadClaim(a) \/ ResolveBound(a)
             \/ Authorize(a) \/ RevokeKey(a) \/ GetSecret(a) \/ EnsureGarage(a)
             \/ Allow(a) \/ DeletePrev(a) \/ WriteIdentity(a) \/ UpdateStatus(a)
             \/ DeleteReadClaim(a) \/ DeleteResolve(a) \/ DeleteKey(a) \/ Release(a)
             \/ CacheSync(a) \/ ClaimChange(a) \/ BucketChange(a) \/ StoreChange(a)
             \/ PolicyChange(a) \/ Vanish(a) \/ UserRotate(a) \/ UserDelete(a)
      PROVE  UNCHANGED <<secrets, used>>
  BY <1>3, Zenon DEF Reconcile, AddFinalizer, ReadClaim, ResolveBound, Authorize,
       RevokeKey, GetSecret, EnsureGarage, Allow, DeletePrev, WriteIdentity, UpdateStatus,
       DeleteReadClaim, DeleteResolve, DeleteKey, Release, CacheSync, ClaimChange,
       BucketChange, StoreChange, PolicyChange, Vanish, UserRotate, UserDelete
<1> QED BY <1>1, <1>2, <1>3 DEF Step, Surroundings

\* An access that a step leaves alone keeps its pair.
LEMMA FramePaired ==
    ASSUME NEW b, Paired(b), Same(b), used \subseteq used',
           secrets'[SecretOf[b]] = secrets[SecretOf[b]]
    PROVE  Paired(b)'
  BY DEF Paired, Same, Recorded, Stored, Carried

\* A step inside a reconcile that leaves the object and the Secret alone has to account for
\* what the worker carries: keys disappear, or are minted with an id never used before.
LEMMA MovePaired ==
    ASSUME TypeOK, NEW a \in Access, Paired(a),
           pc[a] \notin {"idle", "finalizer"}, pc'[a] \notin {"idle", "finalizer"},
           UNCHANGED <<obj, secrets, snap>>,
           used \subseteq used', live'[a] \subseteq live[a] \cup (used' \ used),
           used' \subseteq Key, loc'[a].key \in used' \cup {NoKey},
           Carried(pc[a], snap[a], loc[a], live[a], secrets[SecretOf[a]])'
    PROVE  Paired(a)'
<1>1. Recorded(obj[a], pc[a], snap[a], loc[a])'
  BY DEF Paired, Recorded
<1>2. Stored(a, obj[a], live[a], secrets[SecretOf[a]])'
  <2>1. obj[a].key \in used \cup {NoKey}
    BY DEF Paired, Recorded
  <2>2. obj[a].key \in live'[a] => obj[a].key \in live[a]
    BY <2>1, ConstantsAssumption
  <2> QED BY <2>2 DEF Paired, Stored
<1> QED BY <1>1, <1>2 DEF Paired

\* A reconcile that stops reports the recorded key, or none.
LEMMA FinishPaired ==
    ASSUME TypeOK, NEW a \in Access, Paired(a), pc[a] \notin {"idle", "finalizer"},
           NEW r \in {"True", "False", "Keep"}, NEW k \in {NoKey, snap[a].key}, Finish(a, r, k),
           UNCHANGED <<obj, secrets>>,
           used \subseteq used', live'[a] \subseteq live[a] \cup (used' \ used),
           used' \subseteq Key
    PROVE  Paired(a)'
<1>1. k \in KeyOrNone /\ k \in used \cup {NoKey}
  BY ObjectTypes DEF TypeOK, KeyOrNone, Paired, Recorded
<1>2. pc'[a] = "status" /\ snap'[a] = snap[a] /\ loc'[a].key = k /\ UNCHANGED snap
  BY <1>1, Exits DEF Finish
<1>3. Carried(pc[a], snap[a], loc[a], live[a], secrets[SecretOf[a]])'
  BY <1>2 DEF Carried
<1> QED BY <1>1, <1>2, <1>3, MovePaired

\* A reconcile that returns forgets what it carried.
LEMMA ReturnPaired ==
    ASSUME TypeOK, NEW a \in Access, Paired(a), Return(a),
           UNCHANGED <<obj, secrets, used>>, live'[a] \subseteq live[a]
    PROVE  Paired(a)'
<1>1. pc'[a] = "idle" /\ loc'[a].key = NoKey
  BY Exits, LocalWrites
<1> QED BY <1>1 DEF Paired, Recorded, Stored, Carried

\* From the start of a reconcile to the call of the driver.
LEMMA ReadingPaired ==
    ASSUME TypeOK, Kept("pairs")', NEW a \in Access, Paired(a),
           \/ Reconcile(a) \/ AddFinalizer(a) \/ ReadClaim(a) \/ ResolveBound(a)
           \/ Authorize(a) \/ GetSecret(a)
    PROVE  Paired(a)'
<1> USE ConstantsAssumption
<1>t. /\ cache[a] \in Object /\ obj[a] \in Object /\ snap[a] \in Object /\ loc[a] \in Local
      /\ used \subseteq Key /\ env[a] \in Environment
      /\ secrets[SecretOf[a]] \in Secret \cup {NoSecret}
  BY DEF TypeOK
<1>k. loc[a].key \in used \cup {NoKey} /\ NoKey \in KeyOrNone
  BY DEF Paired, Recorded, KeyOrNone
<1>1. CASE Reconcile(a)
  <2>1. cache[a] = obj[a]
    BY <1>1, Standing DEF Reconcile, LosesPairs
  <2>2. /\ UNCHANGED <<obj, live, loc, secrets, used>> /\ snap'[a] = obj[a]
        /\ obj[a].phase # "absent"
    BY <1>1, <2>1 DEF Reconcile, TypeOK
  <2>3. pc'[a] = IF obj[a].phase = "deleting" THEN "delClaim"
                 ELSE IF obj[a].fin THEN "claim" ELSE "finalizer"
    BY <1>1, <2>1 DEF Reconcile, TypeOK, Goto
  <2> QED BY <2>2, <2>3 DEF Paired, Recorded, Stored, Carried
<1>2. CASE AddFinalizer(a)
  <2>1. UNCHANGED <<live, secrets, used>>
    BY <1>2 DEF AddFinalizer
  <2>2. CASE Return(a) /\ UNCHANGED obj
    BY <2>1, <2>2, ReturnPaired
  <2>3. CASE /\ obj[a] = snap[a] /\ obj' = [obj EXCEPT ![a] = Finalized(@)]
             /\ snap' = [snap EXCEPT ![a] = Finalized(@)]
             /\ Goto(a, "claim") /\ UNCHANGED loc
    <3>1. /\ obj'[a] = Finalized(obj[a]) /\ snap'[a] = Finalized(obj[a])
          /\ pc'[a] = "claim"
      BY <2>3 DEF TypeOK, Goto
    <3>2. obj'[a].fin /\ obj'[a].key = obj[a].key
      BY <1>t, <3>1, ObjectFields
    <3> QED BY <2>1, <2>3, <3>1, <3>2 DEF Paired, Recorded, Stored, Carried
  <2> QED BY <1>2, <2>2, <2>3 DEF AddFinalizer
<1>e. ASSUME NEW v \in BOOLEAN, NEW f \in {"True", "False", "Keep"}, EnforceRevocation(a, v, f),
             UNCHANGED <<obj, secrets, live, used>>, pc[a] \notin {"idle", "finalizer"}
      PROVE  Paired(a)'
  <2>1. CASE Finish(a, "False", NoKey)
    BY <1>e, <1>t, <2>1, FinishPaired
  <2>2. CASE /\ Goto(a, IF v THEN "revokeKey" ELSE "dropSecret")
             /\ loc' = [loc EXCEPT ![a] = Outcome(f, NoKey)] /\ UNCHANGED snap
    <3>1. pc'[a] \in {"revokeKey", "dropSecret"} /\ loc'[a].key = NoKey
      BY <1>k, <2>2, LocalFields DEF TypeOK, Goto
    <3>2. Carried(pc[a], snap[a], loc[a], live[a], secrets[SecretOf[a]])'
      BY <3>1 DEF Carried
    <3> QED BY <1>e, <1>t, <2>2, <3>1, <3>2, MovePaired
  <2> QED BY <1>e, <2>1, <2>2 DEF EnforceRevocation
<1>m. ASSUME UNCHANGED <<obj, secrets, snap, live, used>>, pc[a] \notin {"idle", "finalizer"},
             pc'[a] \in {"resolve", "authorize"}, loc'[a].key = loc[a].key
      PROVE  Paired(a)'
  <2>1. Carried(pc[a], snap[a], loc[a], live[a], secrets[SecretOf[a]])'
    BY <1>m DEF Carried
  <2> QED BY <1>m, <1>t, <1>k, <2>1, MovePaired
<1>3. CASE ReadClaim(a)
  <2>1. UNCHANGED <<obj, secrets, live, used>> /\ pc[a] = "claim"
    BY <1>3 DEF ReadClaim
  <2>2. CASE Finish(a, "Keep", NoKey)
    BY <1>t, <2>1, <2>2, FinishPaired
  <2>3. CASE EnforceRevocation(a, FALSE, "False") \/ EnforceRevocation(a, FALSE, "Keep")
    BY <1>e, <2>1, <2>3
  <2>4. CASE /\ loc' = [loc EXCEPT ![a] = SawClaim(@, env[a])]
             /\ Goto(a, "resolve") /\ UNCHANGED snap
    <3>1. loc'[a].key = loc[a].key /\ pc'[a] = "resolve"
      BY <1>t, <2>4, LocalWrites DEF TypeOK, Goto
    <3> QED BY <1>m, <2>1, <2>4, <3>1
  <2> QED BY <1>3, <2>2, <2>3, <2>4 DEF ReadClaim
<1>4. CASE ResolveBound(a)
  <2>1. UNCHANGED <<obj, secrets, live, used>> /\ pc[a] = "resolve"
    BY <1>4 DEF ResolveBound
  <2>2. CASE EnforceRevocation(a, FALSE, "Keep")
    BY <1>e, <2>1, <2>2
  <2>3. ASSUME NEW e \in Environment, loc' = [loc EXCEPT ![a] = SawBucket(@, e)],
               Goto(a, "authorize"), UNCHANGED snap
        PROVE  Paired(a)'
    <3>1. loc'[a].key = loc[a].key /\ pc'[a] = "authorize"
      BY <1>t, <2>3, LocalWrites DEF TypeOK, Goto
    <3> QED BY <1>m, <2>1, <2>3, <3>1
  <2>4. WithoutStore(env[a]) \in Environment
    BY <1>t, EnvironmentTypes
  <2> QED BY <1>4, <1>t, <2>2, <2>3, <2>4 DEF ResolveBound
<1>5. CASE Authorize(a)
  <2>1. UNCHANGED <<obj, secrets, live, used>> /\ pc[a] = "authorize"
    BY <1>5 DEF Authorize
  <2>2. CASE Finish(a, "False", NoKey)
    BY <1>t, <2>1, <2>2, FinishPaired
  <2>3. CASE EnforceRevocation(a, loc[a].store, "Keep")
    BY <1>e, <1>t, <2>1, <2>3, LocalWrites
  <2>4. CASE Goto(a, "getSecret") /\ loc' = [loc EXCEPT ![a] = NoLocal] /\ UNCHANGED snap
    <3>1. pc'[a] = "getSecret" /\ loc'[a].key = NoKey /\ loc'[a].sk = NoKey
      BY <2>4, LocalWrites DEF TypeOK, Goto
    <3>2. Carried(pc[a], snap[a], loc[a], live[a], secrets[SecretOf[a]])'
      BY <3>1 DEF Carried
    <3> QED BY <1>t, <2>1, <2>4, <3>1, <3>2, MovePaired
  <2> QED BY <1>5, <2>2, <2>3, <2>4 DEF Authorize
<1>6. CASE GetSecret(a)
  <2>1. UNCHANGED <<obj, secrets, live, used>> /\ pc[a] = "getSecret"
    BY <1>6 DEF GetSecret
  <2>2. CASE Finish(a, "Keep", NoKey)
    BY <1>t, <2>1, <2>2, FinishPaired
  <2>3. CASE /\ loc' = [loc EXCEPT ![a] = SawSecret(@, snap[a], secrets[SecretOf[a]])]
             /\ Goto(a, "ensure") /\ UNCHANGED snap
    <3>1. pc'[a] = "ensure" /\ loc'[a] = SawSecret(loc[a], snap[a], secrets[SecretOf[a]])
      BY <2>3 DEF TypeOK, Goto
    <3>2. /\ loc'[a].key = loc[a].key /\ loc'[a].sk = loc[a].sk
          /\ loc'[a].old = secrets[SecretOf[a]].sk
          /\ loc'[a].mint <=> MintFresh(snap[a], secrets[SecretOf[a]])
      BY <1>t, <3>1, LocalWrites
    <3>3. loc'[a].sk = NoKey
      BY <2>1, <3>2 DEF Paired, Carried
    <3>4. ~loc'[a].mint /\ snap[a].key \in live[a] => loc'[a].old = snap[a].key
      BY <2>1, <3>2 DEF Paired, Recorded, Stored, MintFresh
    <3>5. Carried(pc[a], snap[a], loc[a], live[a], secrets[SecretOf[a]])'
      BY <2>1, <2>3, <3>1, <3>3, <3>4 DEF Carried
    <3> QED BY <1>t, <1>k, <2>1, <2>3, <3>1, <3>2, <3>5, MovePaired
  <2> QED BY <1>6, <2>2, <2>3 DEF GetSecret
<1> QED BY <1>1, <1>2, <1>3, <1>4, <1>5, <1>6

\* EnsureAccess of the Garage driver: a key is reused with the secret key of the Secret, or
\* minted with its own.
LEMMA IssuingPaired ==
    ASSUME TypeOK, NEW a \in Access, Paired(a),
           EnsureGarage(a) \/ CreateKey(a) \/ Allow(a) \/ DeletePrev(a)
    PROVE  Paired(a)'
<1> USE ConstantsAssumption
<1>t. /\ snap[a] \in Object /\ loc[a] \in Local /\ snap[a].key \in KeyOrNone
      /\ used \subseteq Key /\ live[a] \subseteq Key
  BY ObjectTypes DEF TypeOK
<1>k. loc[a].key \in used \cup {NoKey} /\ loc[a].mint \in BOOLEAN
  BY <1>t, LocalFields DEF Paired, Recorded
<1>f. ASSUME EnsureFails(a), pc[a] \notin {"idle", "finalizer"}, UNCHANGED <<obj, secrets>>,
             used \subseteq used', live'[a] \subseteq live[a] \cup (used' \ used),
             used' \subseteq Key
      PROVE  Paired(a)'
  BY <1>f, FinishPaired DEF EnsureFails
<1>1. CASE EnsureGarage(a)
  <2>1. UNCHANGED <<obj, secrets, live, used>> /\ pc[a] = "ensure"
    BY <1>1 DEF EnsureGarage
  <2>2. CASE EnsureFails(a)
    BY <1>f, <1>t, <2>1, <2>2
  <2>3. CASE /\ loc' = [loc EXCEPT ![a] = MustMint(@)]
             /\ Goto(a, "mint") /\ UNCHANGED snap
    <3>1. pc'[a] = "mint" /\ loc'[a].mint /\ loc'[a].key = loc[a].key
      BY <1>t, <2>3, LocalFields, LocalWrites DEF TypeOK, Goto
    <3>2. Carried(pc[a], snap[a], loc[a], live[a], secrets[SecretOf[a]])'
      BY <3>1 DEF Carried
    <3> QED BY <1>t, <1>k, <2>1, <2>3, <3>1, <3>2, MovePaired
  <2>4. CASE /\ ~loc[a].mint /\ snap[a].key \in live[a]
             /\ loc' = [loc EXCEPT ![a] = Reused(@, snap[a].key)]
             /\ Goto(a, "allow") /\ UNCHANGED snap
    <3>1. pc'[a] = "allow" /\ loc'[a] = Reused(loc[a], snap[a].key)
      BY <2>4 DEF TypeOK, Goto
    <3>2. /\ loc'[a].key = snap[a].key /\ loc'[a].mint = loc[a].mint
          /\ loc'[a].sk = loc[a].sk /\ loc'[a].old = loc[a].old
      BY <1>t, <3>1, LocalFields, LocalWrites
    <3>3. loc[a].sk = NoKey /\ loc[a].old = snap[a].key
      BY <2>1, <2>4 DEF Paired, Carried
    <3>4. Carried(pc[a], snap[a], loc[a], live[a], secrets[SecretOf[a]])'
      BY <1>t, <2>4, <3>1, <3>2, <3>3 DEF Carried
    <3>5. snap[a].key \in used \cup {NoKey}
      BY <2>1 DEF Paired, Recorded
    <3> QED BY <1>t, <2>1, <2>4, <3>1, <3>2, <3>4, <3>5, MovePaired
  <2> QED BY <1>1, <2>2, <2>3, <2>4 DEF EnsureGarage
<1>2. CASE CreateKey(a)
  <2>1. UNCHANGED <<obj, secrets>> /\ pc[a] = "mint"
    BY <1>2 DEF CreateKey
  <2>2. CASE EnsureFails(a) /\ UNCHANGED <<live, used>>
    BY <1>f, <1>t, <2>1, <2>2
  <2>3. ASSUME NEW k \in Key \ used, live' = [live EXCEPT ![a] = @ \cup {k}],
               used' = used \cup {k}, EnsureFails(a)
        PROVE  Paired(a)'
    <3>1. live'[a] = live[a] \cup {k}
      BY <2>3 DEF TypeOK
    <3> QED BY <1>f, <1>t, <2>1, <2>3, <3>1
  <2>4. ASSUME NEW k \in Key \ used, live' = [live EXCEPT ![a] = @ \cup {k}],
               used' = used \cup {k}, loc' = [loc EXCEPT ![a] = Issued(@, k)],
               Goto(a, "allow"), UNCHANGED snap
        PROVE  Paired(a)'
    <3>1. pc'[a] = "allow" /\ live'[a] = live[a] \cup {k} /\ loc'[a] = Issued(loc[a], k)
      BY <2>4 DEF TypeOK, Goto
    <3>2. loc'[a].key = k /\ loc'[a].sk = k /\ loc'[a].mint = loc[a].mint
      BY <1>t, <3>1, LocalFields DEF KeyOrNone
    <3>3. loc[a].mint
      BY <2>1 DEF Paired, Carried
    <3>4. Carried(pc[a], snap[a], loc[a], live[a], secrets[SecretOf[a]])'
      BY <3>1, <3>2, <3>3 DEF Carried
    <3>5. /\ used \subseteq used' /\ live'[a] \subseteq live[a] \cup (used' \ used)
          /\ used' \subseteq Key /\ loc'[a].key \in used' \cup {NoKey}
      BY <1>t, <2>4, <3>1, <3>2
    <3>6. pc[a] \notin {"idle", "finalizer"} /\ pc'[a] \notin {"idle", "finalizer"}
      BY <2>1, <3>1
    <3> QED BY <2>1, <2>4, <3>4, <3>5, <3>6, MovePaired
  <2> QED BY <1>2, <2>2, <2>3, <2>4 DEF CreateKey
<1>3. CASE Allow(a)
  <2>1. UNCHANGED <<obj, secrets, used>> /\ pc[a] = "allow"
    BY <1>3 DEF Allow
  <2>2. CASE EnsureFails(a)
    <3>1. live'[a] \subseteq live[a]
      BY <1>3 DEF Allow, TypeOK
    <3> QED BY <1>f, <1>t, <2>1, <2>2, <3>1
  <2>3. CASE /\ Goto(a, IF loc[a].mint /\ snap[a].key # NoKey
                        THEN "deletePrev" ELSE "writeSecret")
             /\ UNCHANGED <<live, snap, loc>>
    <3>1. pc'[a] = IF loc[a].mint /\ snap[a].key # NoKey THEN "deletePrev" ELSE "writeSecret"
      BY <2>3 DEF TypeOK, Goto
    <3>2. Carried(pc[a], snap[a], loc[a], live[a], secrets[SecretOf[a]])'
      BY <1>t, <1>k, <2>1, <2>3, <3>1 DEF Paired, Carried
    <3> QED BY <1>t, <1>k, <2>1, <2>3, <3>1, <3>2, MovePaired
  <2> QED BY <1>3, <2>2, <2>3 DEF Allow
<1>4. CASE DeletePrev(a)
  <2>1. UNCHANGED <<obj, secrets, used>> /\ pc[a] = "deletePrev"
    BY <1>4 DEF DeletePrev
  <2>2. CASE EnsureFails(a)
    <3>1. live'[a] \subseteq live[a]
      BY <1>4 DEF DeletePrev, TypeOK
    <3> QED BY <1>f, <1>t, <2>1, <2>2, <3>1
  <2>3. CASE /\ live' = [live EXCEPT ![a] = @ \ {snap[a].key}]
             /\ Goto(a, "writeSecret") /\ UNCHANGED <<snap, loc>>
    <3>1. pc'[a] = "writeSecret" /\ live'[a] = live[a] \ {snap[a].key}
      BY <2>3 DEF TypeOK, Goto
    <3>2. Carried(pc[a], snap[a], loc[a], live[a], secrets[SecretOf[a]])'
      BY <2>1, <2>3, <3>1 DEF Paired, Carried
    <3> QED BY <1>t, <1>k, <2>1, <2>3, <3>1, <3>2, MovePaired
  <2> QED BY <1>4, <2>2, <2>3 DEF DeletePrev
<1> QED BY <1>1, <1>2, <1>3, <1>4

\* Revocation and deletion take keys and the Secret away, and mix nothing.
LEMMA EndingPaired ==
    ASSUME TypeOK, NEW a \in Access, Paired(a),
           \/ RevokeKey(a) \/ DropSecret(a)
           \/ DeleteReadClaim(a) \/ DeleteResolve(a) \/ DeleteKey(a) \/ Release(a)
    PROVE  Paired(a)'
<1> USE ConstantsAssumption
<1>t. loc[a] \in Local /\ used \subseteq Key /\ live[a] \subseteq Key
  BY DEF TypeOK
<1>k. loc[a].key \in used \cup {NoKey}
  BY DEF Paired, Recorded
<1>m. ASSUME UNCHANGED <<obj, secrets, snap, used, loc>>, live'[a] \subseteq live[a],
             pc[a] \notin {"idle", "finalizer"},
             pc'[a] \in {"dropSecret", "delResolve", "delKey", "release"}
      PROVE  Paired(a)'
  <2>1. Carried(pc[a], snap[a], loc[a], live[a], secrets[SecretOf[a]])'
    BY <1>m DEF Carried
  <2> QED BY <1>m, <1>t, <1>k, <2>1, MovePaired
<1>1. CASE RevokeKey(a)
  <2>1. UNCHANGED <<obj, secrets, used>> /\ pc[a] = "revokeKey" /\ live'[a] \subseteq live[a]
    BY <1>1 DEF RevokeKey, DriverDeleteAccess, TypeOK
  <2>2. CASE Finish(a, "False", NoKey)
    BY <1>t, <2>1, <2>2, FinishPaired
  <2>3. CASE Goto(a, "dropSecret") /\ UNCHANGED <<snap, loc>>
    <3>1. pc'[a] = "dropSecret"
      BY <2>3 DEF TypeOK, Goto
    <3> QED BY <1>m, <2>1, <2>3, <3>1
  <2> QED BY <1>1, <2>2, <2>3 DEF RevokeKey
<1>2. CASE DropSecret(a)
  <2>1. UNCHANGED <<obj, live, used>> /\ pc[a] = "dropSecret"
    BY <1>2 DEF DropSecret
  <2>2. CASE Finish(a, loc[a].ready, NoKey) /\ UNCHANGED secrets
    BY <1>t, <2>1, <2>2, FinishPaired, LocalTypes
  <2>3. CASE /\ secrets' = [secrets EXCEPT ![SecretOf[a]] = NoSecret]
             /\ loc' = [loc EXCEPT ![a] = Dropped(@)]
             /\ Goto(a, "status") /\ UNCHANGED snap
    <3>1. /\ pc'[a] = "status" /\ loc'[a].key = loc[a].key
          /\ secrets'[SecretOf[a]] = NoSecret
      BY <1>t, <2>3, LocalWrites DEF TypeOK, Goto
    <3> QED BY <2>1, <2>3, <3>1 DEF Paired, Recorded, Stored, Carried, NoSecret
  <2> QED BY <1>2, <2>2, <2>3 DEF DropSecret
<1>3. CASE DeleteReadClaim(a)
  <2>1. UNCHANGED <<obj, secrets, live, used>> /\ pc[a] = "delClaim"
    BY <1>3 DEF DeleteReadClaim
  <2>2. CASE Return(a)
    BY <2>1, <2>2, ReturnPaired
  <2>3. CASE pc'[a] \in {"release", "delResolve"} /\ UNCHANGED <<snap, loc>>
    BY <1>m, <2>1, <2>3
  <2> QED BY <1>3, <2>2, <2>3 DEF DeleteReadClaim, Goto, TypeOK
<1>4. CASE DeleteResolve(a)
  <2>1. UNCHANGED <<obj, secrets, live, used, snap, loc>> /\ pc[a] = "delResolve"
    BY <1>4 DEF DeleteResolve
  <2>2. pc'[a] \in {"delKey", "release"}
    BY <1>4 DEF DeleteResolve, AfterResolve, Goto, TypeOK
  <2> QED BY <1>m, <2>1, <2>2
<1>5. CASE DeleteKey(a)
  <2>1. UNCHANGED <<obj, secrets, used>> /\ pc[a] = "delKey" /\ live'[a] \subseteq live[a]
    BY <1>5 DEF DeleteKey, DriverDeleteAccess, TypeOK
  <2>2. CASE Return(a)
    BY <2>1, <2>2, ReturnPaired
  <2>3. CASE pc'[a] = "release" /\ UNCHANGED <<snap, loc>>
    BY <1>m, <2>1, <2>3
  <2> QED BY <1>5, <2>2, <2>3 DEF DeleteKey, Goto, TypeOK
<1>6. CASE Release(a)
  <2>1. UNCHANGED <<live, secrets, used>> /\ Return(a)
    BY <1>6 DEF Release
  <2>2. CASE UNCHANGED obj
    BY <2>1, <2>2, ReturnPaired
  <2>3. CASE obj' = [obj EXCEPT ![a] = Gone]
    <3>1. /\ obj'[a].phase = "absent" /\ ~obj'[a].fin /\ obj'[a].key = NoKey
          /\ pc'[a] = "idle" /\ loc'[a].key = NoKey
      BY <2>1, <2>3, ObjectFields, Exits, LocalWrites DEF TypeOK
    <3> QED BY <1>t, <2>1, <3>1 DEF Paired, Recorded, Stored, Carried
  <2> QED BY <1>6, <2>2, <2>3 DEF Release
<1> QED BY <1>1, <1>2, <1>3, <1>4, <1>5, <1>6

\* The Secret gets a matching pair; the status records the key the Secret has.
LEMMA RecordingPaired ==
    ASSUME TypeOK, Kept("pairs")', NEW a \in Access, Paired(a),
           EnsureCredentialsSecret(a) \/ UpdateStatus(a)
    PROVE  Paired(a)'
<1> USE ConstantsAssumption
<1>t. /\ obj[a] \in Object /\ snap[a] \in Object /\ loc[a] \in Local /\ used \subseteq Key
      /\ live[a] \subseteq Key
  BY DEF TypeOK
<1>1. CASE EnsureCredentialsSecret(a)
  <2>1. UNCHANGED <<obj, live, used>> /\ pc[a] = "writeSecret"
    BY <1>1 DEF EnsureCredentialsSecret
  <2>2. ~OwnedByOther(a)
    BY DEF OwnedByOther, Paired, Stored, NoSecret
  <2>3. ~Disturbance("secretWrite")
    BY Standing DEF LosesPairs
  <2>4. /\ secrets' = [secrets EXCEPT ![SecretOf[a]] =
                [owner |-> a, ak |-> loc[a].key, sk |-> SecretKeyToStore(loc[a])]]
        /\ loc' = [loc EXCEPT ![a] = Written(@)]
        /\ Goto(a, "status") /\ UNCHANGED snap
    BY <1>1, <2>2, <2>3 DEF EnsureCredentialsSecret
  <2>5. pc'[a] = "status" /\ loc'[a].key = loc[a].key
    BY <1>t, <2>4, LocalWrites DEF TypeOK, Goto
  <2>6. secrets'[SecretOf[a]] =
           [owner |-> a, ak |-> loc[a].key, sk |-> SecretKeyToStore(loc[a])]
    BY <2>4 DEF TypeOK
  <2>7. SecretKeyToStore(loc[a]) = loc[a].key
    BY <2>1 DEF SecretKeyToStore, Paired, Carried
  <2>8. obj[a].key \in live[a] => loc[a].key = obj[a].key
    BY <2>1 DEF Paired, Recorded, Carried
  <2>9. Recorded(obj[a], pc[a], snap[a], loc[a])'
    BY <2>1, <2>4, <2>5 DEF Paired, Recorded
  <2>10. Stored(a, obj[a], live[a], secrets[SecretOf[a]])'
    BY <2>1, <2>6, <2>7, <2>8 DEF Paired, Recorded, Stored
  <2>11. Carried(pc[a], snap[a], loc[a], live[a], secrets[SecretOf[a]])'
    BY <2>5, <2>6 DEF Carried
  <2> QED BY <2>9, <2>10, <2>11 DEF Paired
<1>2. CASE UpdateStatus(a)
  <2>1. UNCHANGED <<live, secrets, used>> /\ pc[a] = "status" /\ Return(a)
    BY <1>2 DEF UpdateStatus
  <2>2. CASE UNCHANGED obj
    BY <2>1, <2>2, ReturnPaired
  <2>3. CASE obj' = [obj EXCEPT ![a] = NewStatus(@, snap[a], loc[a])]
    <3>1. obj'[a] = NewStatus(obj[a], snap[a], loc[a])
      BY <2>3 DEF TypeOK
    <3>2. /\ obj'[a].phase = obj[a].phase /\ obj'[a].fin = obj[a].fin
          /\ obj'[a].key \in {NoKey, loc[a].key, obj[a].key}
          /\ obj'[a].key = loc[a].key => loc[a].key # NoKey \/ obj'[a].key = NoKey
      BY <1>t, <3>1, ObjectFields
    <3>3. pc'[a] = "idle" /\ loc'[a].key = NoKey
      BY <2>1, Exits, LocalWrites
    <3>4. /\ obj[a].fin /\ obj[a].key = snap[a].key
          /\ \/ loc[a].key \in {NoKey, snap[a].key, secrets[SecretOf[a]].ak}
             \/ secrets[SecretOf[a]] = NoSecret
      BY <2>1 DEF Paired, Recorded, Carried
    <3>5. Recorded(obj[a], pc[a], snap[a], loc[a])'
      BY <2>1, <3>2, <3>3, <3>4 DEF Paired, Recorded
    <3>6. Stored(a, obj[a], live[a], secrets[SecretOf[a]])'
      BY <1>t, <2>1, <3>2, <3>4 DEF Paired, Stored
    <3>7. Carried(pc[a], snap[a], loc[a], live[a], secrets[SecretOf[a]])'
      BY <3>3 DEF Carried
    <3> QED BY <3>5, <3>6, <3>7 DEF Paired
  <2> QED BY <1>2, <2>2, <2>3 DEF UpdateStatus
<1> QED BY <1>1, <1>2

\* The cache, the garbage collector, the user and the other controllers.
LEMMA AroundPaired ==
    ASSUME TypeOK, NEW a \in Access, Paired(a),
           CacheSync(a) \/ CollectSecret(a) \/ Surroundings(a)
    PROVE  Paired(a)'
<1> USE ConstantsAssumption
<1>t. obj[a] \in Object
  BY DEF TypeOK
<1>1. CASE CacheSync(a) \/ ClaimChange(a) \/ BucketChange(a) \/ PolicyChange(a)
  <2>1. UNCHANGED <<obj, live, secrets, used, pc, snap, loc>>
    BY <1>1 DEF CacheSync, ClaimChange, BucketChange, PolicyChange
  <2> QED BY <2>1 DEF Paired, Recorded, Stored, Carried
<1>2. CASE CollectSecret(a) \/ UserDeletesSecret(a)
  <2>1. /\ UNCHANGED <<obj, live, used, pc, snap, loc>>
        /\ secrets'[SecretOf[a]] = NoSecret
    BY <1>2 DEF CollectSecret, UserDeletesSecret, TypeOK
  <2> QED BY <2>1 DEF Paired, Recorded, Stored, Carried, NoSecret
<1>3. CASE StoreChange(a) \/ Vanish(a)
  <2>1. UNCHANGED <<obj, secrets, used, pc, snap, loc>> /\ live'[a] \subseteq live[a]
    BY <1>3 DEF StoreChange, Vanish, TypeOK
  <2> QED BY <2>1 DEF Paired, Recorded, Stored, Carried
<1>4. CASE UserRotate(a) \/ UserDelete(a)
  <2>1. UNCHANGED <<secrets, live, used, pc, snap, loc>>
    BY <1>4 DEF UserRotate, UserDelete
  <2>2. /\ obj'[a].phase = "deleting" => obj'[a].fin
        /\ obj'[a].fin <=> obj[a].fin
        /\ obj'[a].key = obj[a].key
    <3>1. CASE UserRotate(a)
      <4>1. PICK r \in Rotation : obj' = [obj EXCEPT ![a] = Annotated(@, r)]
        BY <3>1 DEF UserRotate
      <4> QED BY <1>t, <4>1, ObjectFields DEF TypeOK, Paired, Recorded
    <3>2. CASE UserDelete(a)
      <4>1. obj'[a] = Deleted(obj[a])
        BY <3>2 DEF UserDelete, TypeOK
      <4>2. CASE obj[a].fin
        BY <1>t, <4>1, <4>2, ObjectFields
      <4>3. CASE ~obj[a].fin
        BY <1>t, <4>1, <4>3, ObjectFields DEF Paired, Recorded
      <4> QED BY <4>2, <4>3
    <3> QED BY <1>4, <3>1, <3>2
  <2> QED BY <2>1, <2>2 DEF Paired, Recorded, Stored, Carried
<1> QED BY <1>1, <1>2, <1>3, <1>4 DEF Surroundings

\* Every step keeps the invariant, on Garage, when no two accesses share a Secret name.
LEMMA PairStep ==
    ASSUME TypeOK, HandedOver, PairInv, [Next]_vars, Backend = "Garage", Apart
    PROVE  PairInv'
<1> SUFFICES ASSUME Kept("pairs")', NEW b \in Access PROVE Paired(b)'
  BY DEF PairInv
<1>0. Kept("pairs")
  BY Disturbed, Standing DEF Kept
<1>1. \A a \in Access : Paired(a)
  BY <1>0 DEF PairInv
<1>2. ASSUME NEW a \in Access,
             Reconcile(a) \/ Step(a) \/ CacheSync(a) \/ CollectSecret(a) \/ Surroundings(a)
      PROVE  Paired(b)'
  <2>1. CASE b # a
    <3>1. Same(b) /\ used \subseteq used' /\ secrets'[SecretOf[b]] = secrets[SecretOf[b]]
      BY <1>2, <2>1, OthersUntouched, OthersKept
    <3> QED BY <1>1, <3>1, FramePaired
  <2>2. CASE b = a
    <3>1. ~ReadIdentity(a) /\ ~WriteIdentity(a)
      BY <1>1 DEF ReadIdentity, WriteIdentity, Paired, Carried
    <3> QED BY <1>1, <1>2, <2>2, <3>1, ReadingPaired, IssuingPaired, EndingPaired,
               RecordingPaired, AroundPaired DEF Step
  <2> QED BY <2>1, <2>2
<1>3. CASE Crash
  <2>1. UNCHANGED <<obj, live, secrets, used>> /\ pc'[b] = "idle" /\ loc'[b] = NoLocal
    BY <1>3 DEF Crash
  <2> QED BY <1>1, <2>1, LocalWrites DEF Paired, Recorded, Stored, Carried
<1>4. CASE UNCHANGED vars
  BY <1>1, <1>4 DEF vars, Paired, Recorded, Stored, Carried
<1> QED BY <1>2, <1>3, <1>4 DEF Next

\* At the start there is neither a key nor a Secret.
LEMMA PairInit == Init => PairInv /\ PairConsistent
<1> SUFFICES ASSUME Init PROVE (\A a \in Access : Paired(a)) /\ PairConsistent
  BY DEF PairInv
<1>1. PairConsistent
  BY DEF Init, PairConsistent, NoSecret
<1>2. ASSUME NEW a \in Access PROVE Paired(a)
  <2>1. /\ obj[a] = NewObject /\ live[a] = {} /\ pc[a] = "idle" /\ loc[a] = NoLocal
        /\ secrets[SecretOf[a]] = NoSecret /\ used = {}
    BY ConstantsAssumption DEF Init
  <2> QED BY <2>1, ObjectFields, LocalWrites DEF Paired, Recorded, Stored, Carried, NoSecret
<1> QED BY <1>1, <1>2

\* A credentials Secret never combines the id of one key with the secret key of another
\* (ensureCredentialsSecret), although Garage reveals a secret key once and the reconcile
\* relies on what an earlier one stored: crashes, lost replies, rotations, vanished keys,
\* revocations and failed status writes do not break it, as long as no write of a Secret
\* fails, no cache is behind and every BucketAccess has a Secret name of its own.
THEOREM SecretsHoldPairs ==
    ASSUME Apart
    PROVE  Spec => []PairKept
<1>1. CASE Backend = "Garage"
  <2>1. Init => TypeOK /\ HandedOver /\ PairInv /\ PairKept
    BY TypeInit, PairInit DEF PairKept
  <2>2. TypeOK /\ HandedOver /\ PairInv /\ PairKept /\ [Next]_vars
           => (TypeOK /\ HandedOver /\ PairInv /\ PairKept)'
    <3> SUFFICES ASSUME TypeOK, HandedOver, PairInv, PairKept, [Next]_vars, Kept("pairs")',
                        NEW n \in SecretName
                 PROVE  secrets'[n].ak = secrets'[n].sk
      BY <1>1, TypeStep, HandedOverStep, PairStep DEF PairKept, PairConsistent
    <3>1. PairConsistent
      BY Disturbed, Standing DEF Kept, PairKept
    <3>2. \A a \in Access : Paired(a)'
      BY <1>1, PairStep DEF PairInv
    <3>3. CASE secrets'[n] = secrets[n] \/ secrets'[n] = NoSecret
      BY <3>1, <3>3 DEF PairConsistent, NoSecret
    <3>4. ASSUME NEW a \in Access, EnsureCredentialsSecret(a)
          PROVE  secrets'[n].ak = secrets'[n].sk
      <4>1. CASE n = SecretOf[a]
        BY <3>2, <4>1 DEF Paired, Stored
      <4>2. CASE n # SecretOf[a]
        BY <3>1, <3>4, <4>2 DEF EnsureCredentialsSecret, PairConsistent, TypeOK
      <4> QED BY <4>1, <4>2
    <3> QED BY <3>3, <3>4, SecretStep
  <2> QED BY <2>1, <2>2, PTL DEF Spec
<1>2. CASE Backend = "SeaweedFS"
  <2>1. PairConsistent => PairKept
    BY DEF PairKept
  <2>2. Spec => []PairConsistent
    BY <1>2, SeaweedPairConsistent
  <2> QED BY <2>1, <2>2, PTL
<1> QED BY <1>1, <1>2, ConstantsAssumption

-----------------------------------------------------------------------------
(* No outage takes working credentials away *)

\* The disturbances that an outage consists of say nothing of what anybody wants.
LEMMA OutageOnly ==
    ASSUME TypeOK, Kept("outage")'
    PROVE  /\ ~Disturbance("lag") /\ ~Disturbance("resolve") /\ ~Disturbance("secretWrite")
           /\ ~Disturbance("noToken") /\ ~Disturbance("deletePrev")
           /\ ~Disturbance("policy") /\ ~Disturbance("claimLost") /\ ~Disturbance("claimGone")
           /\ ~Disturbance("bucketGone") /\ ~Disturbance("storeGone")
           /\ ~Disturbance("storeRetain") /\ ~Disturbance("vanish")
           /\ ~Disturbance("rotate") /\ ~Disturbance("delete") /\ ~Disturbance("secretGone")
  BY Standing DEF HealthOnly

\* Stages at which the worker holds nothing that matters here.
Bare == {"idle", "finalizer", "claim", "getSecret", "status"}

\* A step that leaves the object and what is around it alone has to account for the stage.
LEMMA MoveCalm ==
    ASSUME NEW a \in Access, Calm(a), UNCHANGED <<obj, cache, env>>,
           snap'[a].rotate = NoRotation /\ snap'[a].obsRot = NoRotation,
           \/ pc'[a] \in Bare
           \/ /\ pc'[a] \in {"ensure", "mint", "allow", "deletePrev", "writeSecret"}
              /\ Replacing(pc[a], snap[a], loc[a], live[a], secrets[SecretOf[a]])'
    PROVE  Calm(a)'
<1>1. Wanted(obj[a], env[a], pc[a], snap[a], loc[a])'
  BY DEF Calm, Wanted, Deleting, Bare
<1>2. Replacing(pc[a], snap[a], loc[a], live[a], secrets[SecretOf[a]])'
  BY DEF Replacing, Bare
<1> QED BY <1>1, <1>2 DEF Calm

\* A reconcile that stops or returns wants nothing changed.
LEMMA ExitCalm ==
    ASSUME TypeOK, NEW a \in Access, Calm(a), UNCHANGED <<obj, cache, env>>,
           \/ Return(a)
           \/ \E r \in {"True", "False", "Keep"}, k \in KeyOrNone : Finish(a, r, k)
    PROVE  Calm(a)'
<1>1. pc'[a] \in {"idle", "status"} /\ snap'[a] \in {NewObject, snap[a]}
  BY Exits
<1>2. snap'[a].rotate = NoRotation /\ snap'[a].obsRot = NoRotation
  BY <1>1, RotationWrites DEF Calm, Wanted
<1> QED BY <1>1, <1>2, MoveCalm DEF Bare

\* Up to the call of the driver nothing leads to revocation.
LEMMA ReadingCalm ==
    ASSUME TypeOK, Kept("outage")', NEW a \in Access, Paired(a), Calm(a),
           \/ Reconcile(a) \/ AddFinalizer(a) \/ ReadClaim(a) \/ ResolveBound(a)
           \/ Authorize(a) \/ GetSecret(a)
    PROVE  Calm(a)'
<1> USE ConstantsAssumption
<1>t. /\ cache[a] \in Object /\ obj[a] \in Object /\ snap[a] \in Object /\ loc[a] \in Local
      /\ env[a] \in Environment /\ secrets[SecretOf[a]] \in Secret \cup {NoSecret}
      /\ NoKey \in KeyOrNone
  BY DEF TypeOK, KeyOrNone
<1>w. /\ cache[a].phase = "live" /\ obj[a].phase = "live"
      /\ obj[a].rotate = NoRotation /\ obj[a].obsRot = NoRotation
      /\ snap[a].rotate = NoRotation /\ snap[a].obsRot = NoRotation
      /\ env[a].claim = "bound" /\ env[a].granted /\ env[a].store /\ env[a].bucket # "none"
  BY DEF Calm, Wanted
<1>1. CASE Reconcile(a)
  <2>1. cache[a] = obj[a]
    BY <1>1, OutageOnly DEF Reconcile
  <2>2. UNCHANGED <<obj, cache, env>> /\ snap'[a] = obj[a]
    BY <1>1, <2>1 DEF Reconcile, TypeOK
  <2>3. pc'[a] \in {"claim", "finalizer"}
    BY <1>1, <1>w DEF Reconcile, TypeOK, Goto
  <2> QED BY <1>w, <2>2, <2>3, MoveCalm DEF Bare
<1>2. CASE AddFinalizer(a)
  <2>1. UNCHANGED <<cache, env, secrets, live>>
    BY <1>2 DEF AddFinalizer
  <2>2. CASE Return(a) /\ UNCHANGED obj
    BY <2>1, <2>2, ExitCalm
  <2>3. CASE /\ obj[a] = snap[a] /\ obj' = [obj EXCEPT ![a] = Finalized(@)]
             /\ snap' = [snap EXCEPT ![a] = Finalized(@)]
             /\ Goto(a, "claim")
    <3>1. /\ obj'[a] = Finalized(obj[a]) /\ snap'[a] = Finalized(obj[a])
          /\ pc'[a] = "claim"
      BY <2>3 DEF TypeOK, Goto
    <3>2. /\ obj'[a].phase = "live"
          /\ obj'[a].rotate = NoRotation /\ obj'[a].obsRot = NoRotation
      BY <1>t, <1>w, <3>1, ObjectFields, RotationWrites
    <3>3. Wanted(obj[a], env[a], pc[a], snap[a], loc[a])'
      BY <1>w, <2>1, <3>1, <3>2 DEF Wanted, Deleting
    <3>4. Replacing(pc[a], snap[a], loc[a], live[a], secrets[SecretOf[a]])'
      BY <3>1 DEF Replacing
    <3> QED BY <1>w, <2>1, <3>3, <3>4 DEF Calm
  <2> QED BY <1>2, <2>2, <2>3 DEF AddFinalizer
<1>3. CASE ReadClaim(a)
  <2>1. UNCHANGED <<obj, cache, env, secrets, live>>
    BY <1>3 DEF ReadClaim
  <2>2. CASE Finish(a, "Keep", NoKey)
    BY <1>t, <2>1, <2>2, ExitCalm
  <2>3. CASE /\ loc' = [loc EXCEPT ![a] = SawClaim(@, env[a])]
             /\ Goto(a, "resolve") /\ UNCHANGED snap
    <3>1. loc'[a].bound /\ pc'[a] = "resolve"
      BY <1>t, <1>w, <2>3, LocalWrites DEF TypeOK, Goto
    <3> QED BY <1>w, <2>1, <2>3, <3>1 DEF Calm, Wanted, Replacing, Deleting
  <2> QED BY <1>3, <1>w, <2>2, <2>3 DEF ReadClaim
<1>4. CASE ResolveBound(a)
  <2>1. UNCHANGED <<obj, cache, env, secrets, live, snap>> /\ pc[a] = "resolve"
    BY <1>4, <1>w, OutageOnly DEF ResolveBound
  <2>2. loc'[a] = SawBucket(loc[a], env[a]) /\ pc'[a] = "authorize"
    BY <1>4, <1>w, OutageOnly DEF ResolveBound, TypeOK, Goto
  <2>3. loc'[a].bound = loc[a].bound /\ loc'[a].store = env[a].store
    BY <1>t, <2>2, LocalWrites
  <2>4. loc[a].bound
    BY <2>1 DEF Calm, Wanted
  <2> QED BY <1>w, <2>1, <2>2, <2>3, <2>4 DEF Calm, Wanted, Replacing, Deleting
<1>5. CASE Authorize(a)
  <2>1. UNCHANGED <<obj, cache, env, secrets, live>> /\ pc[a] = "authorize"
    BY <1>5 DEF Authorize
  <2>2. Usable(loc[a], env[a].granted)
    BY <1>w, <2>1 DEF Calm, Wanted, Usable
  <2>3. CASE Finish(a, "False", NoKey)
    BY <1>t, <2>1, <2>3, ExitCalm
  <2>4. CASE Goto(a, "getSecret") /\ UNCHANGED snap
    <3>1. pc'[a] = "getSecret"
      BY <2>4 DEF TypeOK, Goto
    <3> QED BY <1>w, <2>1, <2>4, <3>1, MoveCalm DEF Bare
  <2> QED BY <1>5, <2>2, <2>3, <2>4 DEF Authorize
<1>6. CASE GetSecret(a)
  <2>1. UNCHANGED <<obj, cache, env, secrets, live>>
    BY <1>6 DEF GetSecret
  <2>2. CASE Finish(a, "Keep", NoKey)
    BY <1>t, <2>1, <2>2, ExitCalm
  <2>3. CASE /\ loc' = [loc EXCEPT ![a] = SawSecret(@, snap[a], secrets[SecretOf[a]])]
             /\ Goto(a, "ensure") /\ UNCHANGED snap
    <3>1. pc'[a] = "ensure" /\ loc'[a] = SawSecret(loc[a], snap[a], secrets[SecretOf[a]])
      BY <2>3 DEF TypeOK, Goto
    <3>2. loc'[a].mint <=> MintFresh(snap[a], secrets[SecretOf[a]])
      BY <1>t, <3>1, LocalWrites
    <3>3. loc'[a].mint => snap[a].key = NoKey \/ secrets[SecretOf[a]] = NoSecret
      BY <1>w, <3>2 DEF MintFresh
    <3>4. Replacing(pc[a], snap[a], loc[a], live[a], secrets[SecretOf[a]])'
      BY <2>1, <2>3, <3>1, <3>3 DEF Replacing
    <3> QED BY <1>w, <2>1, <2>3, <3>1, <3>4, MoveCalm
  <2> QED BY <1>6, <2>2, <2>3 DEF GetSecret
<1> QED BY <1>1, <1>2, <1>3, <1>4, <1>5, <1>6

\* The driver replaces a key only when that key is dead or its Secret is missing.
LEMMA IssuingCalm ==
    ASSUME TypeOK, NEW a \in Access, Paired(a), Calm(a),
           EnsureGarage(a) \/ CreateKey(a) \/ Allow(a) \/ DeletePrev(a)
    PROVE  Calm(a)'
<1> USE ConstantsAssumption
<1>t. /\ snap[a] \in Object /\ loc[a] \in Local /\ snap[a].key \in KeyOrNone
      /\ used \subseteq Key /\ live[a] \subseteq Key
  BY ObjectTypes DEF TypeOK
<1>r. snap[a].rotate = NoRotation /\ snap[a].obsRot = NoRotation
  BY DEF Calm, Wanted
<1>f. ASSUME EnsureFails(a), UNCHANGED <<obj, cache, env>> PROVE Calm(a)'
  BY <1>t, <1>f, ExitCalm DEF EnsureFails
<1>1. CASE EnsureGarage(a)
  <2>1. UNCHANGED <<obj, cache, env, secrets, live>> /\ pc[a] = "ensure"
    BY <1>1 DEF EnsureGarage
  <2>2. CASE EnsureFails(a)
    BY <1>f, <2>1, <2>2
  <2>3. CASE /\ loc[a].mint \/ snap[a].key \notin live[a]
             /\ Goto(a, "mint") /\ UNCHANGED snap
    <3>1. pc'[a] = "mint"
      BY <2>3 DEF TypeOK, Goto
    <3>2. snap[a].key \notin live[a] \/ secrets[SecretOf[a]] = NoSecret
      BY <1>t, <2>1, <2>3 DEF Calm, Replacing
    <3>3. Replacing(pc[a], snap[a], loc[a], live[a], secrets[SecretOf[a]])'
      BY <2>1, <2>3, <3>1, <3>2 DEF Replacing
    <3> QED BY <1>r, <2>1, <2>3, <3>1, <3>3, MoveCalm
  <2>4. CASE /\ ~loc[a].mint /\ snap[a].key \in live[a]
             /\ loc' = [loc EXCEPT ![a] = Reused(@, snap[a].key)]
             /\ Goto(a, "allow") /\ UNCHANGED snap
    <3>1. pc'[a] = "allow" /\ loc'[a] = Reused(loc[a], snap[a].key)
      BY <2>4 DEF TypeOK, Goto
    <3>2. loc'[a].key = snap[a].key /\ loc'[a].mint = loc[a].mint
      BY <1>t, <3>1, LocalFields
    <3>3. Replacing(pc[a], snap[a], loc[a], live[a], secrets[SecretOf[a]])'
      BY <2>1, <2>4, <3>1, <3>2 DEF Replacing
    <3> QED BY <1>r, <2>1, <2>4, <3>1, <3>3, MoveCalm
  <2> QED BY <1>1, <2>2, <2>3, <2>4 DEF EnsureGarage
<1>2. CASE CreateKey(a)
  <2>1. UNCHANGED <<obj, cache, env, secrets>> /\ pc[a] = "mint"
    BY <1>2 DEF CreateKey
  <2>2. CASE EnsureFails(a)
    BY <1>f, <2>1, <2>2
  <2>3. ASSUME NEW k \in Key \ used, live' = [live EXCEPT ![a] = @ \cup {k}],
               loc' = [loc EXCEPT ![a] = Issued(@, k)],
               Goto(a, "allow"), UNCHANGED snap
        PROVE  Calm(a)'
    <3>1. pc'[a] = "allow" /\ live'[a] = live[a] \cup {k} /\ loc'[a] = Issued(loc[a], k)
      BY <2>3 DEF TypeOK, Goto
    <3>2. loc'[a].key = k
      BY <1>t, <3>1, LocalFields DEF KeyOrNone
    <3>3. k # snap[a].key /\ k # secrets[SecretOf[a]].ak
      BY <2>1 DEF Paired, Recorded, Stored
    <3>4. snap[a].key \notin live[a] \/ secrets[SecretOf[a]] = NoSecret
      BY <2>1 DEF Paired, Carried, Calm, Replacing
    <3>5. Replacing(pc[a], snap[a], loc[a], live[a], secrets[SecretOf[a]])'
      BY <2>1, <2>3, <3>1, <3>2, <3>3, <3>4 DEF Replacing
    <3> QED BY <1>r, <2>1, <2>3, <3>1, <3>5, MoveCalm
  <2> QED BY <1>2, <2>2, <2>3 DEF CreateKey
<1>3. CASE Allow(a)
  <2>1. UNCHANGED <<obj, cache, env, secrets>> /\ pc[a] = "allow"
    BY <1>3 DEF Allow
  <2>2. CASE EnsureFails(a)
    BY <1>f, <2>1, <2>2
  <2>3. CASE /\ Goto(a, IF loc[a].mint /\ snap[a].key # NoKey
                        THEN "deletePrev" ELSE "writeSecret")
             /\ UNCHANGED <<live, snap, loc>>
    <3>1. pc'[a] \in {"deletePrev", "writeSecret"}
      BY <2>3 DEF TypeOK, Goto
    <3>2. Replacing(pc[a], snap[a], loc[a], live[a], secrets[SecretOf[a]])'
      BY <2>1, <2>3, <3>1 DEF Calm, Replacing
    <3> QED BY <1>r, <2>1, <2>3, <3>1, <3>2, MoveCalm
  <2> QED BY <1>3, <2>2, <2>3 DEF Allow
<1>4. CASE DeletePrev(a)
  <2>1. UNCHANGED <<obj, cache, env, secrets>> /\ pc[a] = "deletePrev"
    BY <1>4 DEF DeletePrev
  <2>2. CASE EnsureFails(a)
    BY <1>f, <2>1, <2>2
  <2>3. CASE /\ live' = [live EXCEPT ![a] = @ \ {snap[a].key}]
             /\ Goto(a, "writeSecret") /\ UNCHANGED <<snap, loc>>
    <3>1. pc'[a] = "writeSecret" /\ live'[a] = live[a] \ {snap[a].key}
      BY <2>3 DEF TypeOK, Goto
    <3>2. loc[a].key \in live[a] /\ loc[a].key # snap[a].key
      BY <2>1 DEF Paired, Carried, Calm, Replacing
    <3>3. Replacing(pc[a], snap[a], loc[a], live[a], secrets[SecretOf[a]])'
      BY <2>3, <3>1, <3>2 DEF Replacing
    <3> QED BY <1>r, <2>1, <2>3, <3>1, <3>3, MoveCalm
  <2> QED BY <1>4, <2>2, <2>3 DEF DeletePrev
<1> QED BY <1>1, <1>2, <1>3, <1>4

\* The other steps that an outage allows.
LEMMA AroundCalm ==
    ASSUME TypeOK, Kept("outage")', NEW a \in Access, Paired(a), Calm(a),
           \/ EnsureCredentialsSecret(a) \/ UpdateStatus(a)
           \/ CacheSync(a) \/ CollectSecret(a) \/ Surroundings(a)
    PROVE  Calm(a)'
<1> USE ConstantsAssumption
<1>t. /\ obj[a] \in Object /\ snap[a] \in Object /\ loc[a] \in Local /\ env[a] \in Environment
      /\ loc[a].key \in KeyOrNone
  BY LocalTypes DEF TypeOK
<1>1. CASE EnsureCredentialsSecret(a)
  <2>1. UNCHANGED <<obj, cache, env, snap>> /\ pc'[a] = "status"
    BY <1>1 DEF EnsureCredentialsSecret, Finish, Goto, TypeOK
  <2> QED BY <2>1, MoveCalm DEF Bare, Calm, Wanted
<1>2. CASE UpdateStatus(a)
  <2>1. /\ UNCHANGED <<cache, env, live, secrets>>
        /\ pc'[a] = "idle" /\ snap'[a] = NewObject
    BY <1>2, Exits DEF UpdateStatus
  <2>2. obj'[a] \in {obj[a], NewStatus(obj[a], snap[a], loc[a])}
    BY <1>2 DEF UpdateStatus, TypeOK
  <2>3. /\ obj'[a].phase = obj[a].phase
        /\ obj'[a].rotate = NoRotation /\ obj'[a].obsRot = NoRotation
    BY <1>t, <2>2, ObjectFields, RotationWrites DEF Calm, Wanted
  <2>4. Wanted(obj[a], env[a], pc[a], snap[a], loc[a])'
    BY <2>1, <2>3, RotationWrites DEF Calm, Wanted, Deleting
  <2>5. Replacing(pc[a], snap[a], loc[a], live[a], secrets[SecretOf[a]])'
    BY <2>1 DEF Replacing
  <2> QED BY <2>1, <2>4, <2>5 DEF Calm
<1>3. CASE CacheSync(a)
  <2>1. UNCHANGED <<obj, live, secrets, env, pc, snap, loc>> /\ cache'[a] = obj[a]
    BY <1>3 DEF CacheSync, TypeOK
  <2> QED BY <2>1 DEF Calm, Wanted, Replacing
<1>4. ~CollectSecret(a)
  BY DEF CollectSecret, Calm, Wanted
<1>5. CASE Surroundings(a)
  <2>1. BucketChange(a) /\ Disturbance("bucketFlap")
    BY <1>5, OutageOnly DEF Surroundings, ClaimChange, BucketChange, StoreChange, PolicyChange,
         Vanish, UserRotate, UserDelete, UserDeletesSecret
  <2>2. UNCHANGED <<obj, cache, live, secrets, pc, snap, loc>>
    BY <2>1 DEF BucketChange
  <2>3. PICK b \in {"notReady", "ready"} : env' = [env EXCEPT ![a] = WithBucket(@, b)]
    BY <2>1, OutageOnly DEF BucketChange
  <2>4. /\ env'[a].claim = env[a].claim /\ env'[a].store = env[a].store
        /\ env'[a].granted = env[a].granted /\ env'[a].bucket # "none"
    BY <1>t, <2>3 DEF TypeOK, WithBucket, Environment
  <2> QED BY <2>2, <2>4 DEF Calm, Wanted, Replacing
<1> QED BY <1>1, <1>2, <1>3, <1>4, <1>5

\* Nothing that happens during an outage takes a working key or its Secret away.
LEMMA WorkingKept ==
    ASSUME TypeOK, Kept("outage")', NEW a \in Access, Paired(a), Calm(a), Working(a),
           Reconcile(a) \/ Step(a) \/ CacheSync(a) \/ CollectSecret(a) \/ Surroundings(a),
           ~ReadIdentity(a), ~WriteIdentity(a)
    PROVE  Working(a)'
<1> USE ConstantsAssumption
<1>w. /\ secrets[SecretOf[a]].owner = a
      /\ secrets[SecretOf[a]].ak = secrets[SecretOf[a]].sk
      /\ secrets[SecretOf[a]].ak \in live[a]
      /\ secrets[SecretOf[a]] # NoSecret
  BY DEF Working, NoSecret
<1>1. ASSUME UNCHANGED secrets, secrets[SecretOf[a]].ak \in live'[a] PROVE Working(a)'
  BY <1>w, <1>1 DEF Working
<1>2. /\ ~RevokeKey(a) /\ ~DropSecret(a) /\ ~DeleteReadClaim(a) /\ ~DeleteResolve(a)
      /\ ~DeleteKey(a) /\ ~Release(a) /\ ~CollectSecret(a)
  BY DEF Calm, Wanted, Deleting, RevokeKey, DropSecret, DeleteReadClaim, DeleteResolve,
         DeleteKey, Release, CollectSecret
<1>3. CASE \/ Reconcile(a) \/ AddFinalizer(a) \/ ReadClaim(a) \/ ResolveBound(a)
           \/ Authorize(a) \/ GetSecret(a) \/ EnsureGarage(a) \/ UpdateStatus(a)
           \/ CacheSync(a)
  <2>1. UNCHANGED <<secrets, live>>
    BY <1>3, Zenon DEF Reconcile, AddFinalizer, ReadClaim, ResolveBound, Authorize, GetSecret,
         EnsureGarage, UpdateStatus, CacheSync
  <2> QED BY <1>1, <1>w, <2>1
<1>4. CASE CreateKey(a)
  <2>1. UNCHANGED secrets /\ live[a] \subseteq live'[a]
    BY <1>4 DEF CreateKey, TypeOK
  <2> QED BY <1>1, <1>w, <2>1
<1>5. CASE Allow(a)
  <2>1. UNCHANGED secrets /\ live[a] \ {loc[a].sk} \subseteq live'[a] /\ pc[a] = "allow"
    BY <1>5 DEF Allow, TypeOK
  <2>2. loc[a].sk # secrets[SecretOf[a]].ak
    <3>1. CASE loc[a].mint
      BY <2>1, <3>1 DEF Paired, Carried, Calm, Replacing
    <3>2. CASE ~loc[a].mint
      BY <1>w, <2>1, <3>2 DEF Paired, Carried, TypeOK
    <3> QED BY <3>1, <3>2
  <2> QED BY <1>1, <1>w, <2>1, <2>2
<1>6. CASE DeletePrev(a)
  <2>1. UNCHANGED secrets /\ live[a] \ {snap[a].key} \subseteq live'[a] /\ pc[a] = "deletePrev"
    BY <1>6 DEF DeletePrev, TypeOK
  <2>2. snap[a].key \notin live[a]
    BY <1>w, <2>1 DEF Paired, Carried, Calm, Replacing
  <2> QED BY <1>1, <1>w, <2>1, <2>2
<1>7. CASE EnsureCredentialsSecret(a)
  <2>1. UNCHANGED live /\ pc[a] = "writeSecret"
    BY <1>7 DEF EnsureCredentialsSecret
  <2>2. ~OwnedByOther(a)
    BY <1>w DEF OwnedByOther
  <2>3. secrets' = [secrets EXCEPT ![SecretOf[a]] =
            [owner |-> a, ak |-> loc[a].key, sk |-> SecretKeyToStore(loc[a])]]
    BY <1>7, <2>2, OutageOnly DEF EnsureCredentialsSecret
  <2>4. secrets'[SecretOf[a]] =
           [owner |-> a, ak |-> loc[a].key, sk |-> SecretKeyToStore(loc[a])]
    BY <2>3 DEF TypeOK
  <2>5. SecretKeyToStore(loc[a]) = loc[a].key
    BY <2>1 DEF SecretKeyToStore, Paired, Carried
  <2>6. loc[a].key \in live[a]
    BY <2>1 DEF Calm, Replacing
  <2> QED BY <2>1, <2>4, <2>5, <2>6 DEF Working
<1>8. CASE Surroundings(a)
  <2>1. UNCHANGED <<secrets, live>>
    BY <1>8, OutageOnly DEF Surroundings, ClaimChange, BucketChange, StoreChange, PolicyChange,
         Vanish, UserRotate, UserDelete, UserDeletesSecret
  <2> QED BY <1>1, <1>w, <2>1
<1> QED BY <1>2, <1>3, <1>4, <1>5, <1>6, <1>7, <1>8 DEF Step

\* An outage leaves the pairs in order.
LEMMA OutageKeepsPairs ==
    ASSUME TypeOK, [Next]_vars, Kept("outage")', CalmInv, PairInv
    PROVE  /\ Kept("outage") /\ Kept("pairs")'
           /\ \A a \in Access : Calm(a) /\ Paired(a)
<1>1. Kept("outage")
  BY Disturbed, Standing DEF Kept
<1>2. Kept("pairs") /\ \A a \in Access : Calm(a) /\ Paired(a)
  BY <1>1 DEF CalmInv, PairInv
<1>3. Kept("pairs")'
  BY <1>2, Disturbed, Standing DEF Kept
<1> QED BY <1>1, <1>2, <1>3

\* Every step keeps the invariant, and with it the credentials that work.
LEMMA CalmStep ==
    ASSUME TypeOK, HandedOver, PairInv, CalmInv, [Next]_vars, Backend = "Garage", Apart
    PROVE  /\ CalmInv'
           /\ Kept("outage")' => \A b \in Access : Working(b) => Working(b)'
<1> SUFFICES ASSUME Kept("outage")', NEW b \in Access
             PROVE  Calm(b)' /\ (Working(b) => Working(b)')
  BY OutageKeepsPairs DEF CalmInv
<1>1. \A a \in Access : Calm(a) /\ Paired(a)
  BY OutageKeepsPairs
<1>2. ASSUME NEW a \in Access,
             Reconcile(a) \/ Step(a) \/ CacheSync(a) \/ CollectSecret(a) \/ Surroundings(a)
      PROVE  Calm(b)' /\ (Working(b) => Working(b)')
  <2>1. CASE b # a
    <3>1. Same(b) /\ secrets'[SecretOf[b]] = secrets[SecretOf[b]]
      BY <1>2, <2>1, OthersUntouched, OthersKept
    <3> QED BY <1>1, <3>1 DEF Same, Calm, Wanted, Replacing, Working
  <2>2. CASE b = a
    <3>1. ~ReadIdentity(a) /\ ~WriteIdentity(a)
      BY <1>1 DEF ReadIdentity, WriteIdentity, Paired, Carried
    <3>2. ~RevokeKey(a) /\ ~DropSecret(a) /\ ~DeleteReadClaim(a) /\ ~DeleteResolve(a)
          /\ ~DeleteKey(a) /\ ~Release(a)
      BY <1>1 DEF Calm, Wanted, Deleting, RevokeKey, DropSecret, DeleteReadClaim, DeleteResolve,
             DeleteKey, Release
    <3>3. Calm(a)'
      BY <1>1, <1>2, <3>1, <3>2, ReadingCalm, IssuingCalm, AroundCalm DEF Step
    <3> QED BY <1>1, <1>2, <2>2, <3>1, <3>3, WorkingKept
  <2> QED BY <2>1, <2>2
<1>3. CASE Crash
  <2>1. /\ UNCHANGED <<obj, env, live, secrets>> /\ cache' = obj /\ pc'[b] = "idle"
        /\ snap'[b] = NewObject
    BY <1>3 DEF Crash
  <2> QED BY <1>1, <2>1, RotationWrites DEF Calm, Wanted, Replacing, Deleting, Working
<1>4. CASE UNCHANGED vars
  BY <1>1, <1>4 DEF vars, Calm, Wanted, Replacing, Working
<1> QED BY <1>2, <1>3, <1>4 DEF Next

\* On Garage, while nothing but health changes (the bucket leaves Ready and returns, the
\* controller crashes, calls to the API server and to Garage fail or lose their reply),
\* credentials that work keep working at every single step: no reconcile revokes, replaces
\* or overwrites them (the health branch of reconcileNormal, EnsureAccess of the driver).
THEOREM GarageCredentialsSurvive ==
    ASSUME Backend = "Garage", Apart
    PROVE  Spec => CredentialsSurviveOutage
<1> DEFINE I == TypeOK /\ HandedOver /\ PairInv /\ CalmInv
<1>1. Init => I
  <2>1. Init => CalmInv
    <3> SUFFICES ASSUME Init, NEW a \in Access PROVE Kept("pairs") /\ Calm(a)
      BY DEF CalmInv, Init, Kept, Guarantee
    <3>1. /\ obj[a] = NewObject /\ cache[a] = NewObject /\ pc[a] = "idle" /\ snap[a] = NewObject
          /\ env[a] = [claim |-> "bound", bucket |-> "ready", store |-> TRUE, granted |-> TRUE]
          /\ budget.kept = Guarantee
      BY DEF Init
    <3> QED BY <3>1, ObjectFields, RotationWrites
            DEF Calm, Wanted, Replacing, Deleting, Kept, Guarantee
  <2> QED BY <2>1, TypeInit, PairInit
<1>2. I /\ [Next]_vars => I'
  BY TypeStep, HandedOverStep, PairStep, CalmStep
<1>3. I /\ [Next]_vars
         => [Kept("outage")' => \A a \in Access : Working(a) => Working(a)']_vars
  BY CalmStep
<1> QED BY <1>1, <1>2, <1>3, PTL DEF Spec, CredentialsSurviveOutage

=============================================================================
