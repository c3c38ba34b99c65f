------------------------- MODULE KeyTrackingProofs -------------------------
(***************************************************************************)
(* On Garage no key is lost track of, until a disturbance of LosesKeys     *)
(* happens: the inductive invariant behind KeyTracked and its proof, for   *)
(* every number of accesses, keys, workers and disturbances.               *)
(***************************************************************************)
EXTENDS BucketAccessProofs

-----------------------------------------------------------------------------
(* The inductive invariant *)

\* The keys of an access that may exist in the backend at a point of its
\* reconcile, given the recorded key k, the key s the reconcile read, and its
\* locals l.
Reachable(p, k, s, l) ==
    CASE p \in {"dropSecret", "release"} -> {}
      [] p \in {"allow", "deletePrev"} -> {s, l.key}
      [] p = "writeSecret" -> {l.key}
      [] p = "status" -> IF l.revoked THEN {}
                         ELSE IF l.key # NoKey THEN {l.key} ELSE {k}
      [] OTHER -> {k}

\* The object o, its cached copy c, the object s the worker read:
\* a key is issued behind the finalizer only, and while a reconcile runs
\* nobody else changes the recorded key.
ObjectTracked(o, c, ks, p, s) ==
    /\ o.phase = "absent" => ~o.fin
    /\ o.phase = "deleting" => o.fin
    /\ ~o.fin => ks = {} /\ o.key = NoKey
    /\ c.phase = "absent" => o.phase = "absent"
    /\ p = "finalizer"
          => ~o.fin /\ s.phase # "absent" /\ s.key = NoKey /\ c.key = NoKey
    /\ p \notin {"idle", "finalizer"}
          => o.fin /\ o.key = s.key /\ c.key = s.key

\* The claim and the bucket resolve, and no key outlives the data plane.
SurroundingsTracked(ks, e) ==
    /\ e.claim \in {"lost", "bound"}
    /\ e.bucket # "none"
    /\ ~e.store => ks = {}

\* What the worker knows of the keys ks.
WorkerTracked(k, ks, p, s, l) ==
    /\ p # "putIdentity"
    /\ p = "authorize" /\ ~l.store => ks = {}
    /\ p = "mint" => l.mint
    /\ p = "allow" => \/ l.mint /\ l.sk = l.key
                      \/ ~l.mint /\ l.key = s.key
    /\ l.revoked => p = "status"
    /\ ks \subseteq Reachable(p, k, s.key, l)

Tracked(a) ==
    /\ ObjectTracked(obj[a], cache[a], live[a], pc[a], snap[a])
    /\ SurroundingsTracked(live[a], env[a])
    /\ WorkerTracked(obj[a].key, live[a], pc[a], snap[a], loc[a])

KeyInv == Kept("keys") => \A a \in Access : Tracked(a)

-----------------------------------------------------------------------------
(* What the writes do to the fields the invariant reads *)

\* Only updateStatus changes the key; the finalizer comes and goes with its steps.
LEMMA ObjectFields ==
    /\ NewObject.phase = "live" /\ ~NewObject.fin /\ NewObject.key = NoKey
    /\ Gone.phase = "absent" /\ ~Gone.fin /\ Gone.key = NoKey
    /\ \A o \in Object :
          /\ o.fin \in BOOLEAN
          /\ Finalized(o).phase = o.phase /\ Finalized(o).fin
          /\ Finalized(o).key = o.key
          /\ o.fin => /\ Deleted(o).phase = "deleting" /\ Deleted(o).fin
                      /\ Deleted(o).key = o.key
          /\ ~o.fin => Deleted(o) = Gone
          /\ \A r \in Rotation :
                /\ Annotated(o, r).phase = o.phase
                /\ Annotated(o, r).fin = o.fin
                /\ Annotated(o, r).key = o.key
          /\ \A p \in Object, l \in Local :
                /\ NewStatus(o, p, l).phase = o.phase
                /\ NewStatus(o, p, l).fin = o.fin
                /\ NewStatus(o, p, l).key =
                      IF l.revoked THEN NoKey
                      ELSE IF l.key # NoKey THEN l.key ELSE o.key
<1>1. /\ NewObject.phase = "live" /\ ~NewObject.fin /\ NewObject.key = NoKey
      /\ Gone.phase = "absent" /\ ~Gone.fin /\ Gone.key = NoKey
  BY DEF NewObject, Gone
<1>2. ASSUME NEW o \in Object
      PROVE  /\ o.fin \in BOOLEAN
             /\ Finalized(o).phase = o.phase /\ Finalized(o).fin
             /\ Finalized(o).key = o.key
  BY DEF Object, Finalized
<1>3. ASSUME NEW o \in Object
      PROVE  /\ o.fin => /\ Deleted(o).phase = "deleting" /\ Deleted(o).fin
                         /\ Deleted(o).key = o.key
             /\ ~o.fin => Deleted(o) = Gone
  BY DEF Object, Deleted
<1>4. ASSUME NEW o \in Object, NEW r \in Rotation
      PROVE  /\ Annotated(o, r).phase = o.phase
             /\ Annotated(o, r).fin = o.fin
             /\ Annotated(o, r).key = o.key
  BY DEF Object, Annotated
<1>5. ASSUME NEW o \in Object, NEW p \in Object, NEW l \in Local
      PROVE  /\ NewStatus(o, p, l).phase = o.phase
             /\ NewStatus(o, p, l).fin = o.fin
             /\ NewStatus(o, p, l).key =
                   IF l.revoked THEN NoKey
                   ELSE IF l.key # NoKey THEN l.key ELSE o.key
  BY DEF Object, NewStatus
<1> QED BY <1>1, <1>2, <1>3, <1>4, <1>5

\* The locals: only the driver sets a key, only DropSecret says revoked.
LEMMA LocalFields ==
    /\ ~NoLocal.revoked /\ NoLocal.key = NoKey
    /\ \A r \in {"True", "False", "Keep"}, k \in KeyOrNone :
          Outcome(r, k).key = k /\ ~Outcome(r, k).revoked
    /\ \A l \in Local :
          /\ l.revoked \in BOOLEAN /\ l.mint \in BOOLEAN
          /\ MustMint(l).mint /\ MustMint(l).revoked = l.revoked
          /\ Dropped(l).revoked
          /\ Written(l).key = l.key /\ Written(l).revoked = l.revoked
          /\ \A e \in Environment :
                /\ SawClaim(l, e).revoked = l.revoked
                /\ SawBucket(l, e).revoked = l.revoked
                /\ SawBucket(l, e).store = e.store
          /\ \A k \in KeyOrNone :
                /\ Reused(l, k).key = k /\ Reused(l, k).mint = l.mint
                /\ Reused(l, k).revoked = l.revoked
                /\ Issued(l, k).key = k /\ Issued(l, k).sk = k
                /\ Issued(l, k).mint = l.mint
                /\ Issued(l, k).revoked = l.revoked
          /\ \A o \in Object, s \in Secret \cup {NoSecret} :
                SawSecret(l, o, s).revoked = l.revoked
<1>1. ~NoLocal.revoked /\ NoLocal.key = NoKey
  BY DEF NoLocal
<1>2. ASSUME NEW r \in {"True", "False", "Keep"}, NEW k \in KeyOrNone
      PROVE  Outcome(r, k).key = k /\ ~Outcome(r, k).revoked
  BY DEF Outcome, NoLocal
<1>3. ASSUME NEW l \in Local
      PROVE  /\ l.revoked \in BOOLEAN /\ l.mint \in BOOLEAN
             /\ MustMint(l).mint /\ MustMint(l).revoked = l.revoked
             /\ Dropped(l).revoked
             /\ Written(l).key = l.key /\ Written(l).revoked = l.revoked
  BY DEF Local, MustMint, Dropped, Written
<1>4. ASSUME NEW l \in Local, NEW e \in Environment
      PROVE  /\ SawClaim(l, e).revoked = l.revoked
             /\ SawBucket(l, e).revoked = l.revoked
             /\ SawBucket(l, e).store = e.store
  BY DEF Local, Environment, SawClaim, SawBucket
<1>5. ASSUME NEW l \in Local, NEW k \in KeyOrNone
      PROVE  /\ Reused(l, k).key = k /\ Reused(l, k).mint = l.mint
             /\ Reused(l, k).revoked = l.revoked
             /\ Issued(l, k).key = k /\ Issued(l, k).sk = k
             /\ Issued(l, k).mint = l.mint
             /\ Issued(l, k).revoked = l.revoked
  BY DEF Local, Reused, Issued
<1>6. ASSUME NEW l \in Local, NEW o \in Object, NEW s \in Secret \cup {NoSecret}
      PROVE  SawSecret(l, o, s).revoked = l.revoked
  BY DEF Local, SawSecret
<1> QED BY <1>1, <1>2, <1>3, <1>4, <1>5, <1>6

\* The environment changes one field at a time.
LEMMA EnvironmentFields ==
    \A e \in Environment :
        /\ \A c \in {"none", "unbound", "lost", "bound"} :
              /\ WithClaim(e, c).claim = c
              /\ WithClaim(e, c).bucket = e.bucket
              /\ WithClaim(e, c).store = e.store
        /\ \A b \in {"none", "notReady", "ready"} :
              /\ WithBucket(e, b).claim = e.claim
              /\ WithBucket(e, b).bucket = b
              /\ WithBucket(e, b).store = e.store
        /\ WithStore(e, ~e.store).claim = e.claim
        /\ WithStore(e, ~e.store).bucket = e.bucket
        /\ WithGrant(e, ~e.granted).claim = e.claim
        /\ WithGrant(e, ~e.granted).bucket = e.bucket
        /\ WithGrant(e, ~e.granted).store = e.store
  BY DEF Environment, WithClaim, WithBucket, WithStore, WithGrant

-----------------------------------------------------------------------------
(* Disturbances *)

\* As long as the guarantee is kept, no disturbance of LosesKeys happens.
LEMMA KeptStep ==
    ASSUME TypeOK, Kept("keys")', NEW d, Disturbance(d)
    PROVE  Kept("keys") /\ d \notin LosesKeys
<1>1. budget'.kept = budget.kept \ Voids(d)
  BY DEF Disturbance
<1>2. "keys" \in budget.kept /\ "keys" \notin Voids(d)
  BY <1>1 DEF Kept
<1>3. "keys" \in Guarantee
  BY DEF Guarantee
<1> QED BY <1>2, <1>3 DEF Kept, Voids

\* A guarantee that holds after a step held before it.
LEMMA KeptBackwards ==
    ASSUME TypeOK, [Next]_vars, Kept("keys")'
    PROVE  Kept("keys")
<1>1. ASSUME NEW a \in Access, Reconcile(a) \/ CacheSync(a) \/ CollectSecret(a)
      PROVE  UNCHANGED budget \/ \E d : Disturbance(d)
  BY <1>1, Zenon DEF Reconcile, CacheSync, CollectSecret
<1>2. ASSUME NEW a \in Access, Step(a)
      PROVE  UNCHANGED budget \/ \E d : Disturbance(d)
  BY <1>2, Zenon DEF Step, AddFinalizer, ReadClaim, ResolveBound, Authorize,
       RevokeKey, DropSecret, GetSecret, EnsureGarage, CreateKey, Allow,
       DeletePrev, ReadIdentity, WriteIdentity, Unreachable,
       EnsureCredentialsSecret, UpdateStatus, DeleteReadClaim, DeleteResolve,
       DeleteKey, Release
<1>3. ASSUME NEW a \in Access, Surroundings(a)
      PROVE  UNCHANGED budget \/ \E d : Disturbance(d)
  BY <1>3, Zenon DEF Surroundings, ClaimChange, BucketChange, StoreChange,
       PolicyChange, Vanish, UserRotate, UserDelete, UserDeletesSecret
<1>4. Crash \/ UNCHANGED vars => UNCHANGED budget \/ \E d : Disturbance(d)
  BY Zenon DEF Crash, vars
<1>5. UNCHANGED budget \/ \E d : Disturbance(d)
  BY <1>1, <1>2, <1>3, <1>4, Zenon DEF Next
<1> QED BY <1>5, KeptStep DEF Kept

-----------------------------------------------------------------------------
(* The other accesses *)

Same(b) ==
    /\ obj'[b] = obj[b] /\ cache'[b] = cache[b] /\ live'[b] = live[b]
    /\ env'[b] = env[b] /\ pc'[b] = pc[b] /\ snap'[b] = snap[b]
    /\ loc'[b] = loc[b]

\* An access that a step leaves alone stays tracked.
LEMMA Frame ==
    ASSUME NEW b, Tracked(b), Same(b)
    PROVE  Tracked(b)'
  BY DEF Tracked, Same

\* Every step is about one access, up to the Secret it writes.
LEMMA OthersUntouched ==
    ASSUME TypeOK, NEW a \in Access,
           Reconcile(a) \/ Step(a) \/ CacheSync(a) \/ CollectSecret(a) \/ Surroundings(a),
           NEW b \in Access, b # a
    PROVE  Same(b)
<1> USE DEF TypeOK, Same, Goto, Return, Finish
<1>1. CASE Reconcile(a) \/ AddFinalizer(a) \/ CacheSync(a) \/ CollectSecret(a)
  BY <1>1 DEF Reconcile, AddFinalizer, CacheSync, CollectSecret
<1>2. CASE ReadClaim(a)
  BY <1>2 DEF ReadClaim, EnforceRevocation
<1>3. CASE ResolveBound(a)
  BY <1>3 DEF ResolveBound, EnforceRevocation
<1>4. CASE Authorize(a)
  BY <1>4 DEF Authorize, EnforceRevocation
<1>5. CASE RevokeKey(a) \/ DropSecret(a) \/ GetSecret(a)
  BY <1>5 DEF RevokeKey, DropSecret, GetSecret, DriverDeleteAccess
<1>6. CASE EnsureGarage(a) \/ CreateKey(a)
  BY <1>6 DEF EnsureGarage, CreateKey, EnsureFails
<1>7. CASE Allow(a) \/ DeletePrev(a)
  BY <1>7 DEF Allow, DeletePrev, EnsureFails
<1>8. CASE ReadIdentity(a) \/ WriteIdentity(a)
  BY <1>8 DEF ReadIdentity, WriteIdentity, EnsureFails
<1>9. CASE EnsureCredentialsSecret(a) \/ UpdateStatus(a) \/ Release(a)
  BY <1>9 DEF EnsureCredentialsSecret, UpdateStatus, Release
<1>10. CASE DeleteReadClaim(a) \/ DeleteResolve(a) \/ DeleteKey(a)
  BY <1>10 DEF DeleteReadClaim, DeleteResolve, DeleteKey, DriverDeleteAccess
<1>11. CASE ClaimChange(a) \/ BucketChange(a) \/ StoreChange(a) \/ PolicyChange(a)
  BY <1>11 DEF ClaimChange, BucketChange, StoreChange, PolicyChange
<1>12. CASE Vanish(a) \/ UserRotate(a) \/ UserDelete(a) \/ UserDeletesSecret(a)
  BY <1>12 DEF Vanish, UserRotate, UserDelete, UserDeletesSecret
<1> QED BY <1>1, <1>2, <1>3, <1>4, <1>5, <1>6, <1>7, <1>8, <1>9, <1>10, <1>11, <1>12
        DEF Step, Surroundings

-----------------------------------------------------------------------------
(* The access the step is about *)

\* A reconcile that returns forgets its locals.
LEMMA ReturnTracked ==
    ASSUME TypeOK, NEW a \in Access, Tracked(a), Return(a),
           UNCHANGED <<obj, cache, env>>,
           live'[a] \subseteq live[a], live'[a] \subseteq {obj[a].key}
    PROVE  Tracked(a)'
<1>1. pc'[a] = "idle" /\ loc'[a] = NoLocal
  BY DEF TypeOK, Return, Goto
<1> QED BY <1>1, LocalFields
        DEF Tracked, ObjectTracked, SurroundingsTracked, WorkerTracked, Reachable

\* A reconcile that stops with the recorded key, or none, loses no key.
LEMMA FinishTracked ==
    ASSUME TypeOK, NEW a \in Access, Tracked(a),
           pc[a] \notin {"idle", "finalizer"},
           NEW r \in {"True", "False", "Keep"},
           NEW k \in {NoKey, snap[a].key}, Finish(a, r, k),
           UNCHANGED <<obj, cache, env>>,
           live'[a] \subseteq live[a], live'[a] \subseteq {obj[a].key}
    PROVE  Tracked(a)'
<1>1. pc'[a] = "status" /\ loc'[a] = Outcome(r, k) /\ snap'[a] = snap[a]
  BY DEF TypeOK, Finish, Goto
<1>2. k \in KeyOrNone
  BY ObjectTypes DEF TypeOK, KeyOrNone
<1>3. loc'[a].key = k /\ ~loc'[a].revoked
  BY <1>1, <1>2, LocalFields
<1>4. obj[a].key = snap[a].key
  BY DEF Tracked, ObjectTracked
<1>5. ObjectTracked(obj[a], cache[a], live[a], pc[a], snap[a])'
  BY <1>1 DEF Tracked, ObjectTracked
<1>6. SurroundingsTracked(live[a], env[a])'
  BY DEF Tracked, SurroundingsTracked
<1>7. WorkerTracked(obj[a].key, live[a], pc[a], snap[a], loc[a])'
  BY <1>1, <1>3, <1>4 DEF WorkerTracked, Reachable
<1> QED BY <1>5, <1>6, <1>7 DEF Tracked

\* A step inside a reconcile that changes neither the object nor what is around
\* it has to account for the keys only.
LEMMA MoveTracked ==
    ASSUME NEW a \in Access, Tracked(a),
           pc[a] \notin {"idle", "finalizer"}, pc'[a] \notin {"idle", "finalizer"},
           UNCHANGED <<obj, cache, env, snap>>,
           env[a].store \/ live'[a] \subseteq live[a],
           WorkerTracked(obj[a].key, live[a], pc[a], snap[a], loc[a])'
    PROVE  Tracked(a)'
<1>1. ObjectTracked(obj[a], cache[a], live[a], pc[a], snap[a])'
  BY DEF Tracked, ObjectTracked
<1>2. SurroundingsTracked(live[a], env[a])'
  BY DEF Tracked, SurroundingsTracked
<1> QED BY <1>1, <1>2 DEF Tracked

\* What KeptStep excludes on Garage.
LEMMA NoneLost ==
    ASSUME TypeOK, Backend = "Garage", Kept("keys")'
    PROVE  /\ ~Disturbance("resolve") /\ ~Disturbance("noToken")
           /\ ~Disturbance("claimGone") /\ ~Disturbance("bucketGone")
           /\ ~Disturbance("storeRetain") /\ ~Disturbance("crash")
           /\ ~Disturbance("lag") /\ ~Disturbance("statusWrite")
           /\ ~Disturbance("lostReply") /\ ~Disturbance("rollback")
           /\ ~Disturbance("deletePrev")
  BY KeptStep DEF LosesKeys

\* Reading: from the start of a reconcile to the call of the driver.
LEMMA ReadingTracked ==
    ASSUME TypeOK, Backend = "Garage", Kept("keys")', NEW a \in Access, Tracked(a),
           \/ Reconcile(a) \/ AddFinalizer(a) \/ ReadClaim(a) \/ ResolveBound(a)
           \/ Authorize(a) \/ GetSecret(a)
    PROVE  Tracked(a)'
<1> USE NoneLost
<1>1. CASE Reconcile(a)
  <2>1. cache[a] = obj[a] /\ cache[a].phase # "absent" /\ pc[a] = "idle"
    BY <1>1 DEF Reconcile
  <2>2. UNCHANGED <<obj, cache, live, env, loc>> /\ snap'[a] = obj[a]
    BY <1>1, <2>1 DEF Reconcile, TypeOK
  <2>3. \/ pc'[a] \in {"delClaim", "claim"} /\ obj[a].fin
        \/ pc'[a] = "finalizer" /\ ~obj[a].fin
    BY <1>1, <2>1, ObjectFields DEF Reconcile, TypeOK, Goto, Tracked, ObjectTracked
  <2> QED BY <2>1, <2>2, <2>3
          DEF Tracked, ObjectTracked, SurroundingsTracked, WorkerTracked, Reachable
<1>2. CASE AddFinalizer(a)
  <2>1. UNCHANGED <<cache, live, env>> /\ pc[a] = "finalizer"
    BY <1>2 DEF AddFinalizer
  <2>2. CASE Return(a) /\ UNCHANGED obj
    BY <2>1, <2>2, ReturnTracked DEF Tracked, ObjectTracked
  <2>3. CASE /\ obj[a] = snap[a] /\ obj' = [obj EXCEPT ![a] = Finalized(@)]
             /\ snap' = [snap EXCEPT ![a] = Finalized(@)]
             /\ Goto(a, "claim") /\ UNCHANGED loc
    <3>1. /\ obj'[a] = Finalized(obj[a]) /\ snap'[a] = Finalized(obj[a])
          /\ pc'[a] = "claim"
      BY <2>3 DEF TypeOK, Goto
    <3>2. /\ obj'[a].phase = obj[a].phase /\ obj'[a].fin
          /\ obj'[a].key = obj[a].key
      BY <3>1, ObjectFields DEF TypeOK
    <3> QED BY <2>1, <2>3, <3>1, <3>2
            DEF Tracked, ObjectTracked, SurroundingsTracked, WorkerTracked, Reachable
  <2> QED BY <1>2, <2>2, <2>3 DEF AddFinalizer
<1>3. CASE ReadClaim(a)
  <2>1. UNCHANGED <<obj, cache, live, env>> /\ pc[a] = "claim"
    BY <1>3 DEF ReadClaim
  <2>2. live[a] \subseteq {obj[a].key}
    BY <2>1 DEF Tracked, WorkerTracked, Reachable
  <2>3. CASE Finish(a, "Keep", NoKey)
    BY <2>1, <2>2, <2>3, FinishTracked
  <2>4. CASE /\ loc' = [loc EXCEPT ![a] = SawClaim(@, env[a])]
             /\ Goto(a, "resolve") /\ UNCHANGED snap
    <3>1. loc'[a].revoked = loc[a].revoked /\ pc'[a] = "resolve"
      BY <2>4, LocalFields DEF TypeOK, Goto
    <3> QED BY <2>1, <2>4, <3>1, MoveTracked DEF Tracked, WorkerTracked, Reachable
  <2> QED BY <1>3, <2>3, <2>4 DEF ReadClaim, Tracked, SurroundingsTracked
<1>4. CASE ResolveBound(a)
  <2>1. UNCHANGED <<obj, cache, live, env, snap>> /\ pc[a] = "resolve"
    BY <1>4 DEF ResolveBound, Tracked, SurroundingsTracked
  <2>2. pc'[a] = "authorize" /\ loc'[a] = SawBucket(loc[a], env[a])
    BY <1>4 DEF ResolveBound, Tracked, SurroundingsTracked, TypeOK, Goto
  <2>3. loc'[a].revoked = loc[a].revoked /\ loc'[a].store = env[a].store
    BY <2>2, LocalFields DEF TypeOK
  <2> QED BY <2>1, <2>2, <2>3, MoveTracked
          DEF Tracked, SurroundingsTracked, WorkerTracked, Reachable
<1>5. CASE Authorize(a)
  <2>1. UNCHANGED <<obj, cache, live, env>> /\ pc[a] = "authorize"
    BY <1>5 DEF Authorize
  <2>2. live[a] \subseteq {obj[a].key} /\ obj[a].key = snap[a].key
    BY <2>1 DEF Tracked, ObjectTracked, WorkerTracked, Reachable
  <2>3. CASE Finish(a, "False", NoKey)
    BY <2>1, <2>2, <2>3, FinishTracked
  <2>4. CASE EnforceRevocation(a, loc[a].store, "Keep") /\ snap[a].key # NoKey
    <3>1. UNCHANGED snap /\ loc'[a] = Outcome("Keep", NoKey)
      BY <2>4 DEF EnforceRevocation, TypeOK
    <3>2. pc'[a] = IF loc[a].store THEN "revokeKey" ELSE "dropSecret"
      BY <2>4 DEF EnforceRevocation, TypeOK, Goto
    <3>3. ~loc'[a].revoked
      BY <3>1, LocalFields DEF KeyOrNone
    <3> QED BY <2>1, <3>1, <3>2, <3>3, MoveTracked DEF Tracked, WorkerTracked, Reachable
  <2>5. CASE Goto(a, "getSecret") /\ loc' = [loc EXCEPT ![a] = NoLocal] /\ UNCHANGED snap
    <3>1. pc'[a] = "getSecret" /\ ~loc'[a].revoked
      BY <2>5, LocalFields DEF TypeOK, Goto
    <3> QED BY <2>1, <2>5, <3>1, MoveTracked DEF Tracked, WorkerTracked, Reachable
  <2>6. EnforceRevocation(a, loc[a].store, "Keep") /\ snap[a].key = NoKey
           => Finish(a, "False", NoKey)
    BY DEF EnforceRevocation
  <2> QED BY <1>5, <2>3, <2>4, <2>5, <2>6 DEF Authorize
<1>6. CASE GetSecret(a)
  <2>1. UNCHANGED <<obj, cache, live, env>> /\ pc[a] = "getSecret"
    BY <1>6 DEF GetSecret
  <2>2. live[a] \subseteq {obj[a].key}
    BY <2>1 DEF Tracked, WorkerTracked, Reachable
  <2>3. CASE Finish(a, "Keep", NoKey)
    BY <2>1, <2>2, <2>3, FinishTracked
  <2>4. CASE /\ loc' = [loc EXCEPT ![a] = SawSecret(@, snap[a], secrets[SecretOf[a]])]
             /\ Goto(a, "ensure") /\ UNCHANGED snap
    <3>1. secrets[SecretOf[a]] \in Secret \cup {NoSecret}
      BY ConstantsAssumption DEF TypeOK
    <3>2. loc'[a].revoked = loc[a].revoked /\ pc'[a] = "ensure"
      BY <2>4, <3>1, LocalFields DEF TypeOK, Goto
    <3> QED BY <2>1, <2>4, <3>2, MoveTracked DEF Tracked, WorkerTracked, Reachable
  <2> QED BY <1>6, <2>3, <2>4 DEF GetSecret
<1> QED BY <1>1, <1>2, <1>3, <1>4, <1>5, <1>6

\* Issuing: EnsureAccess of the Garage driver.
LEMMA IssuingTracked ==
    ASSUME TypeOK, Backend = "Garage", Kept("keys")', NEW a \in Access, Tracked(a),
           EnsureGarage(a) \/ CreateKey(a) \/ Allow(a) \/ DeletePrev(a)
    PROVE  Tracked(a)'
<1> USE NoneLost, ConstantsAssumption
<1>0. /\ live[a] \subseteq Key /\ snap[a].key \in KeyOrNone
      /\ pc[a] \notin {"idle", "finalizer"} => obj[a].key = snap[a].key
  BY ObjectTypes DEF TypeOK, Tracked, ObjectTracked
<1>1. ASSUME EnsureFails(a), pc[a] \notin {"idle", "finalizer"},
             UNCHANGED <<obj, cache, env>>,
             live'[a] \subseteq live[a], live'[a] \subseteq {snap[a].key}
      PROVE  Tracked(a)'
  BY <1>0, <1>1, FinishTracked DEF EnsureFails
<1>2. CASE EnsureGarage(a)
  <2>1. UNCHANGED <<obj, cache, live, env>> /\ pc[a] = "ensure"
    BY <1>2 DEF EnsureGarage
  <2>2. CASE EnsureFails(a)
    BY <1>0, <1>1, <2>1, <2>2 DEF Tracked, WorkerTracked, Reachable
  <2>3. CASE /\ loc' = [loc EXCEPT ![a] = MustMint(@)]
             /\ Goto(a, "mint") /\ UNCHANGED snap
    <3>1. pc'[a] = "mint" /\ loc'[a].mint /\ loc'[a].revoked = loc[a].revoked
      BY <2>3, LocalFields DEF TypeOK, Goto
    <3> QED BY <2>1, <2>3, <3>1, MoveTracked DEF Tracked, WorkerTracked, Reachable
  <2>4. CASE /\ ~loc[a].mint /\ loc' = [loc EXCEPT ![a] = Reused(@, snap[a].key)]
             /\ Goto(a, "allow") /\ UNCHANGED snap
    <3>1. /\ pc'[a] = "allow" /\ loc'[a].key = snap[a].key
          /\ loc'[a].mint = loc[a].mint /\ loc'[a].revoked = loc[a].revoked
      BY <1>0, <2>4, LocalFields DEF TypeOK, Goto
    <3> QED BY <1>0, <2>1, <2>4, <3>1, MoveTracked DEF Tracked, WorkerTracked, Reachable
  <2> QED BY <1>2, <2>2, <2>3, <2>4 DEF EnsureGarage
<1>3. CASE CreateKey(a)
  <2>1. UNCHANGED <<obj, cache, env>> /\ pc[a] = "mint"
    BY <1>3 DEF CreateKey
  <2>2. CASE EnsureFails(a) /\ UNCHANGED live
    BY <1>0, <1>1, <2>1, <2>2 DEF Tracked, WorkerTracked, Reachable
  <2>3. ASSUME NEW k \in Key, env[a].store,
               live' = [live EXCEPT ![a] = @ \cup {k}],
               loc' = [loc EXCEPT ![a] = Issued(@, k)],
               Goto(a, "allow"), UNCHANGED snap
        PROVE  Tracked(a)'
    <3>1. pc'[a] = "allow" /\ live'[a] = live[a] \cup {k} /\ loc'[a] = Issued(loc[a], k)
      BY <2>3 DEF TypeOK, Goto
    <3>2. /\ loc'[a].key = k /\ loc'[a].sk = k
          /\ loc'[a].mint = loc[a].mint /\ loc'[a].revoked = loc[a].revoked
      BY <3>1, LocalFields DEF TypeOK, KeyOrNone
    <3>3. WorkerTracked(obj[a].key, live[a], pc[a], snap[a], loc[a])'
      BY <1>0, <2>1, <2>3, <3>1, <3>2 DEF Tracked, WorkerTracked, Reachable
    <3> QED BY <2>1, <2>3, <3>1, <3>3, MoveTracked
  <2> QED BY <1>3, <2>2, <2>3 DEF CreateKey
<1>4. CASE Allow(a)
  <2>1. /\ UNCHANGED <<obj, cache, env>> /\ pc[a] = "allow"
        /\ live[a] \subseteq {snap[a].key, loc[a].key}
        /\ \/ loc[a].mint /\ loc[a].sk = loc[a].key
           \/ ~loc[a].mint /\ loc[a].key = snap[a].key
    BY <1>4 DEF Allow, Tracked, WorkerTracked, Reachable
  <2>2. CASE /\ Goto(a, IF loc[a].mint /\ snap[a].key # NoKey
                        THEN "deletePrev" ELSE "writeSecret")
             /\ UNCHANGED <<live, snap, loc>>
    <3>1. pc'[a] = IF loc[a].mint /\ snap[a].key # NoKey
                   THEN "deletePrev" ELSE "writeSecret"
      BY <2>2 DEF TypeOK, Goto
    <3>2. WorkerTracked(obj[a].key, live[a], pc[a], snap[a], loc[a])'
      BY <1>0, <2>1, <2>2, <3>1 DEF Tracked, WorkerTracked, Reachable
    <3> QED BY <2>1, <2>2, <3>1, <3>2, MoveTracked
  <2>3. CASE live' = [live EXCEPT ![a] = @ \ {loc[a].sk}] /\ EnsureFails(a)
    <3>1. live'[a] = live[a] \ {loc[a].sk}
      BY <2>3 DEF TypeOK
    <3> QED BY <1>1, <2>1, <2>3, <3>1
  <2>4. CASE ~env[a].store /\ EnsureFails(a) /\ UNCHANGED live
    BY <1>1, <2>1, <2>4 DEF Tracked, SurroundingsTracked
  <2> QED BY <1>4, <2>2, <2>3, <2>4 DEF Allow
<1>5. CASE DeletePrev(a)
  <2>1. /\ UNCHANGED <<obj, cache, env>> /\ pc[a] = "deletePrev"
        /\ live[a] \subseteq {snap[a].key, loc[a].key}
    BY <1>5 DEF DeletePrev, Tracked, WorkerTracked, Reachable
  <2>2. CASE /\ live' = [live EXCEPT ![a] = @ \ {snap[a].key}]
             /\ Goto(a, "writeSecret") /\ UNCHANGED <<snap, loc>>
    <3>1. pc'[a] = "writeSecret" /\ live'[a] = live[a] \ {snap[a].key}
      BY <2>2 DEF TypeOK, Goto
    <3>2. WorkerTracked(obj[a].key, live[a], pc[a], snap[a], loc[a])'
      BY <2>1, <2>2, <3>1 DEF Tracked, WorkerTracked, Reachable
    <3> QED BY <2>1, <2>2, <3>1, <3>2, MoveTracked
  <2>3. CASE ~env[a].store /\ EnsureFails(a) /\ UNCHANGED live
    BY <1>1, <2>1, <2>3 DEF Tracked, SurroundingsTracked
  <2> QED BY <1>5, <2>2, <2>3 DEF DeletePrev
<1> QED BY <1>2, <1>3, <1>4, <1>5

\* Revoking: DeleteAccess and the end of the Secret.
LEMMA RevokingTracked ==
    ASSUME TypeOK, Backend = "Garage", Kept("keys")', NEW a \in Access, Tracked(a),
           RevokeKey(a) \/ DropSecret(a)
    PROVE  Tracked(a)'
<1> USE NoneLost
<1>1. CASE RevokeKey(a)
  <2>1. UNCHANGED <<obj, cache, env>> /\ pc[a] = "revokeKey"
    BY <1>1 DEF RevokeKey
  <2>2. live[a] \subseteq {snap[a].key} /\ obj[a].key = snap[a].key
    BY <2>1 DEF Tracked, ObjectTracked, WorkerTracked, Reachable
  <2>3. CASE Finish(a, "False", NoKey) /\ UNCHANGED live
    BY <2>1, <2>2, <2>3, FinishTracked
  <2>4. CASE DriverDeleteAccess(a) /\ Goto(a, "dropSecret") /\ UNCHANGED <<snap, loc>>
    <3>1. pc'[a] = "dropSecret" /\ live'[a] = live[a] \ RevokedKeys(a)
      BY <2>4 DEF TypeOK, Goto, DriverDeleteAccess
    <3>2. live'[a] = {}
      BY <2>2, <3>1 DEF RevokedKeys, Tracked, SurroundingsTracked
    <3>3. WorkerTracked(obj[a].key, live[a], pc[a], snap[a], loc[a])'
      BY <2>1, <2>4, <3>1, <3>2 DEF Tracked, WorkerTracked, Reachable
    <3> QED BY <2>1, <2>4, <3>1, <3>2, <3>3, MoveTracked
  <2> QED BY <1>1, <2>3, <2>4 DEF RevokeKey
<1>2. CASE DropSecret(a)
  <2>1. UNCHANGED <<obj, cache, live, env>> /\ pc[a] = "dropSecret"
    BY <1>2 DEF DropSecret
  <2>2. live[a] = {}
    BY <2>1 DEF Tracked, WorkerTracked, Reachable
  <2>3. CASE Finish(a, loc[a].ready, NoKey)
    BY <2>1, <2>2, <2>3, FinishTracked, LocalTypes DEF TypeOK
  <2>4. CASE Goto(a, "status") /\ loc' = [loc EXCEPT ![a] = Dropped(@)] /\ UNCHANGED snap
    <3>1. pc'[a] = "status" /\ loc'[a].revoked
      BY <2>4, LocalFields DEF TypeOK, Goto
    <3> QED BY <2>1, <2>2, <2>4, <3>1, MoveTracked DEF WorkerTracked, Reachable
  <2> QED BY <1>2, <2>3, <2>4 DEF DropSecret
<1> QED BY <1>1, <1>2

\* Recording: the Secret and the status.
LEMMA RecordingTracked ==
    ASSUME TypeOK, Backend = "Garage", Kept("keys")', NEW a \in Access, Tracked(a),
           EnsureCredentialsSecret(a) \/ UpdateStatus(a)
    PROVE  Tracked(a)'
<1> USE NoneLost, ConstantsAssumption
<1>0. live[a] \subseteq Key /\ loc[a] \in Local /\ loc[a].key \in KeyOrNone
  BY LocalTypes DEF TypeOK
<1>1. CASE EnsureCredentialsSecret(a)
  <2>1. /\ UNCHANGED <<obj, cache, live, env, snap>> /\ pc[a] = "writeSecret"
        /\ live[a] \subseteq {loc[a].key} /\ ~loc[a].revoked
    BY <1>1 DEF EnsureCredentialsSecret, Finish, Tracked, WorkerTracked, Reachable
  <2>2. pc'[a] = "status" /\ loc'[a] \in {Written(loc[a]), Outcome("False", loc[a].key)}
    BY <1>1 DEF EnsureCredentialsSecret, Finish, Goto, TypeOK
  <2>3. loc'[a].key = loc[a].key /\ ~loc'[a].revoked
    BY <1>0, <2>1, <2>2, LocalFields
  <2>4. WorkerTracked(obj[a].key, live[a], pc[a], snap[a], loc[a])'
    BY <1>0, <2>1, <2>2, <2>3 DEF WorkerTracked, Reachable
  <2> QED BY <2>1, <2>2, <2>4, MoveTracked
<1>2. CASE UpdateStatus(a)
  <2>1. /\ UNCHANGED <<cache, live, env>> /\ pc[a] = "status"
        /\ pc'[a] = "idle" /\ ~loc'[a].revoked
    BY <1>2, LocalFields DEF UpdateStatus, Return, Goto, TypeOK
  <2>2. /\ obj[a].fin /\ obj[a].phase # "absent" /\ cache[a].phase # "absent"
        /\ cache[a].key = obj[a].key
    BY <2>1 DEF Tracked, ObjectTracked
  <2>3. live[a] \subseteq {IF loc[a].revoked THEN NoKey
                          ELSE IF loc[a].key # NoKey THEN loc[a].key ELSE obj[a].key}
    BY <2>1 DEF Tracked, WorkerTracked, Reachable
  <2>4. /\ obj'[a].phase = obj[a].phase /\ obj'[a].fin
        /\ live[a] \subseteq {obj'[a].key}
    <3>1. CASE obj' = [obj EXCEPT ![a] = NewStatus(@, snap[a], loc[a])]
      <4>1. obj'[a] = NewStatus(obj[a], snap[a], loc[a])
        BY <3>1 DEF TypeOK
      <4>2. obj'[a].phase = obj[a].phase /\ obj'[a].fin = obj[a].fin
        BY <4>1, ObjectFields DEF TypeOK
      <4>3. obj'[a].key = IF loc[a].revoked THEN NoKey
                          ELSE IF loc[a].key # NoKey THEN loc[a].key ELSE obj[a].key
        BY <4>1, ObjectFields DEF TypeOK
      <4> QED BY <2>2, <2>3, <4>2, <4>3
    <3>2. CASE NewStatus(cache[a], snap[a], loc[a]) = cache[a] /\ UNCHANGED obj
      <4>1. cache[a].key = IF loc[a].revoked THEN NoKey
                           ELSE IF loc[a].key # NoKey THEN loc[a].key ELSE cache[a].key
        BY <3>2, ObjectFields DEF TypeOK
      <4> QED BY <2>2, <2>3, <3>2, <4>1
    <3> QED BY <1>2, <2>2, <3>1, <3>2 DEF UpdateStatus
  <2> QED BY <2>1, <2>2, <2>4
          DEF Tracked, ObjectTracked, SurroundingsTracked, WorkerTracked, Reachable
<1> QED BY <1>1, <1>2

\* Deleting: from the finalizer's point of view.
LEMMA DeletingTracked ==
    ASSUME TypeOK, Backend = "Garage", Kept("keys")', NEW a \in Access, Tracked(a),
           DeleteReadClaim(a) \/ DeleteResolve(a) \/ DeleteKey(a) \/ Release(a)
    PROVE  Tracked(a)'
<1> USE NoneLost
<1>1. CASE DeleteReadClaim(a)
  <2>1. UNCHANGED <<obj, cache, live, env>> /\ pc[a] = "delClaim"
    BY <1>1 DEF DeleteReadClaim
  <2>2. CASE Return(a)
    BY <2>1, <2>2, ReturnTracked DEF Tracked, WorkerTracked, Reachable
  <2>3. CASE /\ Goto(a, IF env[a].claim \in {"none", "unbound"}
                        THEN "release" ELSE "delResolve")
             /\ UNCHANGED <<snap, loc>>
    <3>1. pc'[a] = "delResolve"
      BY <2>3 DEF TypeOK, Goto, Tracked, SurroundingsTracked
    <3> QED BY <2>1, <2>3, <3>1, MoveTracked DEF Tracked, WorkerTracked, Reachable
  <2> QED BY <1>1, <2>2, <2>3 DEF DeleteReadClaim
<1>2. CASE DeleteResolve(a)
  <2>1. UNCHANGED <<obj, cache, live, env, snap, loc>> /\ pc[a] = "delResolve"
    BY <1>2 DEF DeleteResolve
  <2>2. pc'[a] = IF env[a].store THEN "delKey" ELSE "release"
    BY <1>2 DEF DeleteResolve, AfterResolve, TypeOK, Goto, Tracked, SurroundingsTracked
  <2> QED BY <2>1, <2>2, MoveTracked
          DEF Tracked, SurroundingsTracked, WorkerTracked, Reachable
<1>3. CASE DeleteKey(a)
  <2>1. UNCHANGED <<obj, cache, env>> /\ pc[a] = "delKey"
    BY <1>3 DEF DeleteKey
  <2>2. live[a] \subseteq {snap[a].key} /\ obj[a].key = snap[a].key
    BY <2>1 DEF Tracked, ObjectTracked, WorkerTracked, Reachable
  <2>3. CASE Return(a) /\ UNCHANGED live
    BY <2>1, <2>2, <2>3, ReturnTracked
  <2>4. CASE DriverDeleteAccess(a) /\ Goto(a, "release") /\ UNCHANGED <<snap, loc>>
    <3>1. pc'[a] = "release" /\ live'[a] = live[a] \ RevokedKeys(a)
      BY <2>4 DEF TypeOK, Goto, DriverDeleteAccess
    <3>2. live'[a] = {}
      BY <2>2, <3>1 DEF RevokedKeys, Tracked, SurroundingsTracked
    <3>3. WorkerTracked(obj[a].key, live[a], pc[a], snap[a], loc[a])'
      BY <2>1, <2>4, <3>1, <3>2 DEF Tracked, WorkerTracked, Reachable
    <3> QED BY <2>1, <2>4, <3>1, <3>2, <3>3, MoveTracked
  <2> QED BY <1>3, <2>3, <2>4 DEF DeleteKey
<1>4. CASE Release(a)
  <2>1. UNCHANGED <<cache, live, env>> /\ pc[a] = "release" /\ Return(a)
    BY <1>4 DEF Release
  <2>2. live[a] = {}
    BY <2>1 DEF Tracked, WorkerTracked, Reachable
  <2>3. CASE UNCHANGED obj
    BY <2>1, <2>2, <2>3, ReturnTracked
  <2>4. CASE obj' = [obj EXCEPT ![a] = Gone]
    <3>1. /\ obj'[a].phase = "absent" /\ ~obj'[a].fin /\ obj'[a].key = NoKey
          /\ pc'[a] = "idle" /\ ~loc'[a].revoked
      BY <2>1, <2>4, ObjectFields, LocalFields DEF TypeOK, Return, Goto
    <3> QED BY <2>1, <2>2, <3>1
            DEF Tracked, ObjectTracked, SurroundingsTracked, WorkerTracked, Reachable
  <2> QED BY <1>4, <2>3, <2>4 DEF Release
<1> QED BY <1>1, <1>2, <1>3, <1>4

\* The cache, the garbage collector, the user and the other controllers.
LEMMA SurroundingsStep ==
    ASSUME TypeOK, Backend = "Garage", Kept("keys")', NEW a \in Access, Tracked(a),
           CacheSync(a) \/ CollectSecret(a) \/ Surroundings(a)
    PROVE  Tracked(a)'
<1> USE NoneLost
<1>1. CASE CacheSync(a)
  <2>1. UNCHANGED <<obj, live, env, pc, snap, loc>> /\ cache'[a] = obj[a]
    BY <1>1 DEF CacheSync, TypeOK
  <2> QED BY <2>1 DEF Tracked, ObjectTracked
<1>2. CASE CollectSecret(a) \/ UserDeletesSecret(a)
  BY <1>2, Frame DEF Same, CollectSecret, UserDeletesSecret
<1>3. CASE ClaimChange(a) \/ BucketChange(a) \/ PolicyChange(a)
  <2>1. UNCHANGED <<obj, cache, live, pc, snap, loc>>
    BY <1>3 DEF ClaimChange, BucketChange, PolicyChange
  <2>2. /\ env'[a].claim \in {"lost", "bound"} /\ env'[a].bucket # "none"
        /\ env'[a].store = env[a].store
    <3>1. CASE ClaimChange(a)
      <4>1. PICK c \in {"lost", "bound"} : env' = [env EXCEPT ![a] = WithClaim(@, c)]
        BY <3>1 DEF ClaimChange
      <4> QED BY <4>1, EnvironmentFields DEF TypeOK, Tracked, SurroundingsTracked
    <3>2. CASE BucketChange(a)
      <4>1. PICK b \in {"notReady", "ready"} : env' = [env EXCEPT ![a] = WithBucket(@, b)]
        BY <3>2 DEF BucketChange
      <4> QED BY <4>1, EnvironmentFields DEF TypeOK, Tracked, SurroundingsTracked
    <3>3. CASE PolicyChange(a)
      BY <3>3, EnvironmentFields DEF PolicyChange, TypeOK, Tracked, SurroundingsTracked
    <3> QED BY <1>3, <3>1, <3>2, <3>3
  <2> QED BY <2>1, <2>2 DEF Tracked, SurroundingsTracked
<1>4. CASE StoreChange(a) \/ Vanish(a)
  <2>1. UNCHANGED <<obj, cache, pc, snap, loc>> /\ live'[a] = {}
    BY <1>4 DEF StoreChange, Vanish, TypeOK
  <2>2. env'[a].claim = env[a].claim /\ env'[a].bucket = env[a].bucket
    BY <1>4, EnvironmentFields DEF StoreChange, Vanish, TypeOK
  <2>3. ObjectTracked(obj[a], cache[a], live[a], pc[a], snap[a])'
    BY <2>1 DEF Tracked, ObjectTracked
  <2>4. SurroundingsTracked(live[a], env[a])'
    BY <2>1, <2>2 DEF Tracked, SurroundingsTracked
  <2>5. WorkerTracked(obj[a].key, live[a], pc[a], snap[a], loc[a])'
    BY <2>1 DEF Tracked, WorkerTracked
  <2> QED BY <2>3, <2>4, <2>5 DEF Tracked
<1>5. CASE UserRotate(a)
  <2>1. UNCHANGED <<cache, live, env, pc, snap, loc>>
    BY <1>5 DEF UserRotate
  <2>2. PICK r \in Rotation : obj' = [obj EXCEPT ![a] = Annotated(@, r)]
    BY <1>5 DEF UserRotate
  <2>3. /\ obj'[a].phase = obj[a].phase /\ obj'[a].fin = obj[a].fin
        /\ obj'[a].key = obj[a].key
    BY <2>2, ObjectFields DEF TypeOK
  <2> QED BY <2>1, <2>3 DEF Tracked, ObjectTracked
<1>6. CASE UserDelete(a)
  <2>1. UNCHANGED <<cache, live, env, pc, snap, loc>> /\ obj[a].phase = "live"
    BY <1>6 DEF UserDelete
  <2>2. obj'[a] = Deleted(obj[a])
    BY <1>6 DEF UserDelete, TypeOK
  <2>3. /\ obj[a].fin => obj'[a].phase = "deleting"
        /\ ~obj[a].fin => obj'[a].phase = "absent"
        /\ obj'[a].fin <=> obj[a].fin
        /\ obj'[a].key = obj[a].key
    BY <2>2, ObjectFields DEF TypeOK, Tracked, ObjectTracked
  <2> QED BY <2>1, <2>3 DEF Tracked, ObjectTracked
<1> QED BY <1>1, <1>2, <1>3, <1>4, <1>5, <1>6 DEF Surroundings

-----------------------------------------------------------------------------
(* The theorem *)

\* Every step keeps the invariant.
LEMMA KeyStep ==
    ASSUME TypeOK, HandedOver, KeyInv, [Next]_vars, Backend = "Garage"
    PROVE  KeyInv'
<1> SUFFICES ASSUME Kept("keys")', NEW b \in Access PROVE Tracked(b)'
  BY DEF KeyInv
<1>1. Tracked(b) /\ \A a \in Access : Tracked(a)
  BY KeptBackwards DEF KeyInv
<1>2. ASSUME NEW a \in Access,
             Reconcile(a) \/ Step(a) \/ CacheSync(a) \/ CollectSecret(a) \/ Surroundings(a)
      PROVE  Tracked(b)'
  <2>1. CASE b # a
    BY <1>1, <1>2, <2>1, OthersUntouched, Frame
  <2>2. CASE b = a
    <3>1. ~ReadIdentity(a) /\ ~WriteIdentity(a)
      BY <1>1 DEF ReadIdentity, WriteIdentity, Tracked, WorkerTracked
    <3> QED BY <1>1, <1>2, <2>2, <3>1, ReadingTracked, IssuingTracked, RevokingTracked,
               RecordingTracked, DeletingTracked, SurroundingsStep DEF Step
  <2> QED BY <2>1, <2>2
<1>3. ~Crash
  BY NoneLost DEF Crash
<1>4. CASE UNCHANGED vars
  BY <1>1, <1>4, Frame DEF vars, Same
<1> QED BY <1>2, <1>3, <1>4 DEF Next

\* The invariant accounts for every key that exists.
LEMMA KeyInvTracks == TypeOK /\ KeyInv => KeyTracked
<1> SUFFICES ASSUME TypeOK, Kept("keys"), NEW a \in Access, Tracked(a)
             PROVE  IF obj[a].phase = "absent" THEN live[a] = {}
                    ELSE live[a] \subseteq {obj[a].key, loc[a].key}
  BY DEF KeyInv, KeyTracked
<1>1. obj[a].phase = "absent" => live[a] = {}
  BY DEF Tracked, ObjectTracked
<1>2. live[a] \subseteq {obj[a].key, loc[a].key}
  BY DEF Tracked, ObjectTracked, WorkerTracked, Reachable
<1> QED BY <1>1, <1>2

\* At the start there is no key and nothing is running.
LEMMA KeyInit == Init => KeyInv
<1> SUFFICES ASSUME Init, NEW a \in Access PROVE Tracked(a)
  BY DEF KeyInv
<1>1. /\ obj[a] = NewObject /\ cache[a] = NewObject /\ live[a] = {}
      /\ pc[a] = "idle" /\ loc[a] = NoLocal
      /\ env[a].claim = "bound" /\ env[a].bucket = "ready"
  BY DEF Init
<1> QED BY <1>1, ObjectFields, LocalFields
        DEF Tracked, ObjectTracked, SurroundingsTracked, WorkerTracked, Reachable

\* On Garage, until a disturbance of LosesKeys happens, every key that exists in
\* the backend is recorded in the status or about to be, and none outlives its
\* BucketAccess: rotations, withdrawn policies, claims that lose their binding,
\* flapping buckets, destroyed stores, failed reads and writes of Secrets and
\* accesses that share a Secret name do not lose a key.
THEOREM GarageKeyTracked ==
    ASSUME Backend = "Garage"
    PROVE  Spec => []KeyTracked
<1>1. Init => TypeOK /\ HandedOver /\ KeyInv
  BY TypeInit, KeyInit
<1>2. TypeOK /\ HandedOver /\ KeyInv /\ [Next]_vars
         => (TypeOK /\ HandedOver /\ KeyInv)'
  BY TypeStep, HandedOverStep, KeyStep
<1>3. TypeOK /\ HandedOver /\ KeyInv => KeyTracked
  BY KeyInvTracks
<1> QED BY <1>1, <1>2, <1>3, PTL DEF Spec
=============================================================================
