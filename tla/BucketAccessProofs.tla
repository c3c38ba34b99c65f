------------------------- MODULE BucketAccessProofs -------------------------
(***************************************************************************)
(* What holds of BucketAccess for every number of accesses, keys, workers  *)
(* and disturbances.                                                       *)
(***************************************************************************)
EXTENDS BucketAccess, TLAPS

-----------------------------------------------------------------------------
(* Type correctness *)

\* The objects that the controller and the user write are well-formed.
LEMMA ObjectTypes ==
    /\ NewObject \in Object /\ Gone \in Object
    /\ \A o \in Object :
          /\ o.key \in KeyOrNone
          /\ Finalized(o) \in Object /\ Deleted(o) \in Object
          /\ \A r \in Rotation : Annotated(o, r) \in Object
          /\ \A p \in Object, l \in Local : NewStatus(o, p, l) \in Object
<1>1. NewObject \in Object /\ Gone \in Object
  BY ConstantsAssumption DEF NewObject, Gone, Object, KeyOrNone
<1>2. ASSUME NEW o \in Object
      PROVE  o.key \in KeyOrNone /\ Finalized(o) \in Object
  BY DEF Object, Finalized
<1>3. ASSUME NEW o \in Object
      PROVE  Deleted(o) \in Object
  BY <1>1 DEF Object, Deleted
<1>4. ASSUME NEW o \in Object, NEW r \in Rotation
      PROVE  Annotated(o, r) \in Object
  BY DEF Object, Annotated
<1>5. ASSUME NEW o \in Object, NEW p \in Object, NEW l \in Local
      PROVE  NewStatus(o, p, l) \in Object
  BY ConstantsAssumption DEF NewStatus, Object, Local, KeyOrNone
<1> QED BY <1>1, <1>2, <1>3, <1>4, <1>5

\* So are the locals of a reconcile.
LEMMA LocalTypes ==
    /\ NoLocal \in Local
    /\ \A r \in {"True", "False", "Keep"}, k \in KeyOrNone :
          Outcome(r, k) \in Local
    /\ \A l \in Local :
          /\ l.key \in KeyOrNone /\ l.sk \in KeyOrNone
          /\ SecretKeyToStore(l) \in KeyOrNone
          /\ l.ready \in {"True", "False", "Keep"}
          /\ l.store \in BOOLEAN
          /\ MustMint(l) \in Local /\ Written(l) \in Local
          /\ Dropped(l) \in Local
          /\ \A e \in Environment :
                SawClaim(l, e) \in Local /\ SawBucket(l, e) \in Local
          /\ \A k \in KeyOrNone : Reused(l, k) \in Local /\ Issued(l, k) \in Local
          /\ \A o \in Object, s \in Secret \cup {NoSecret} :
                SawSecret(l, o, s) \in Local
<1>1. NoLocal \in Local
  BY DEF NoLocal, Local, KeyOrNone
<1>2. ASSUME NEW r \in {"True", "False", "Keep"}, NEW k \in KeyOrNone
      PROVE  Outcome(r, k) \in Local
  BY DEF Outcome, NoLocal, Local, KeyOrNone
<1>3. ASSUME NEW l \in Local
      PROVE  /\ l.key \in KeyOrNone /\ l.sk \in KeyOrNone
             /\ SecretKeyToStore(l) \in KeyOrNone
             /\ l.ready \in {"True", "False", "Keep"}
             /\ l.store \in BOOLEAN
  BY DEF Local, SecretKeyToStore
<1>4. ASSUME NEW l \in Local
      PROVE  MustMint(l) \in Local /\ Written(l) \in Local /\ Dropped(l) \in Local
  BY DEF Local, MustMint, Written, Dropped
<1>5. ASSUME NEW l \in Local, NEW e \in Environment
      PROVE  SawClaim(l, e) \in Local /\ SawBucket(l, e) \in Local
  BY DEF Local, Environment, SawClaim, SawBucket
<1>6. ASSUME NEW l \in Local, NEW k \in KeyOrNone
      PROVE  Reused(l, k) \in Local /\ Issued(l, k) \in Local
  BY DEF Local, Reused, Issued
<1>7. ASSUME NEW l \in Local, NEW o \in Object, NEW s \in Secret \cup {NoSecret}
      PROVE  SawSecret(l, o, s) \in Local
  <2>1. MintFresh(o, s) \in BOOLEAN
    BY DEF MintFresh
  <2>2. s.sk \in KeyOrNone
    BY DEF Secret, NoSecret, KeyOrNone
  <2> QED BY <2>1, <2>2 DEF Local, SawSecret
<1> QED BY <1>1, <1>2, <1>3, <1>4, <1>5, <1>6, <1>7

\* The environment changes one field at a time.
LEMMA EnvironmentTypes ==
    \A e \in Environment :
        /\ \A c \in {"none", "unbound", "lost", "bound"} :
              WithClaim(e, c) \in Environment
        /\ \A b \in {"none", "notReady", "ready"} :
              WithBucket(e, b) \in Environment
        /\ WithStore(e, ~e.store) \in Environment
        /\ WithoutStore(e) \in Environment
        /\ WithGrant(e, ~e.granted) \in Environment
  BY DEF Environment, WithClaim, WithBucket, WithStore, WithoutStore, WithGrant

\* Secrets that the controller writes are well-formed.
LEMMA SecretTypes ==
    /\ NoSecret \in Secret \cup {NoSecret}
    /\ \A a \in Access, ak \in KeyOrNone, sk \in KeyOrNone :
          [owner |-> a, ak |-> ak, sk |-> sk] \in Secret \cup {NoSecret}
  BY DEF Secret

\* The exits of a reconcile leave the worker's variables in their types.
WorkerTypes ==
    /\ pc \in [Access -> PC]
    /\ snap \in [Access -> Object]
    /\ loc \in [Access -> Local]

\* What a reconcile that returns leaves in the worker and in the outcome.
LEMMA ExitTypes ==
    ASSUME TypeOK, NEW a \in Access
    PROVE  /\ Return(a) => WorkerTypes'
           /\ \A r \in {"True", "False", "Keep"}, k \in KeyOrNone :
                 Finish(a, r, k) => WorkerTypes'
           /\ \A r \in {"True", "False", "Keep"}, b \in BOOLEAN :
                 EnforceRevocation(a, b, r) => WorkerTypes'
           /\ EnsureFails(a) => WorkerTypes'
<1> USE ObjectTypes, LocalTypes DEF TypeOK, WorkerTypes, Goto
<1>1. ASSUME Return(a) PROVE WorkerTypes'
  BY <1>1 DEF Return, PC
<1>2. ASSUME NEW r \in {"True", "False", "Keep"}, NEW k \in KeyOrNone,
             Finish(a, r, k)
      PROVE  WorkerTypes'
  BY <1>2 DEF Finish, PC
<1>3. ASSUME NEW r \in {"True", "False", "Keep"}, NEW b \in BOOLEAN,
             EnforceRevocation(a, b, r)
      PROVE  WorkerTypes'
  <2>1. CASE snap[a].key = NoKey
    BY <2>1, <1>2, <1>3 DEF EnforceRevocation, KeyOrNone
  <2>2. CASE snap[a].key # NoKey
    <3>1. Outcome(r, NoKey) \in Local
      BY DEF KeyOrNone
    <3>2. loc' \in [Access -> Local] /\ snap' \in [Access -> Object]
      BY <2>2, <1>3, <3>1 DEF EnforceRevocation
    <3>3. pc' \in [Access -> PC]
      BY <2>2, <1>3 DEF EnforceRevocation, PC
    <3> QED BY <3>2, <3>3
  <2> QED BY <2>1, <2>2
<1>4. EnsureFails(a) => WorkerTypes'
  BY <1>2 DEF EnsureFails
<1> QED BY <1>1, <1>2, <1>3, <1>4

\* A SeaweedFS reconcile that has a key in hand has its secret key as well:
\* readIdentity returns both, and a key it mints is returned with its secret.
\* The Garage steps are never taken.
HandedOver ==
    \A a \in Access :
        /\ pc[a] = "putIdentity"
              => loc[a].key \in Key /\ loc[a].sk = loc[a].key
        /\ Backend = "SeaweedFS" =>
              /\ pc[a] \notin {"mint", "allow", "deletePrev"}
              /\ pc[a] = "writeSecret"
                    => loc[a].key \in Key /\ loc[a].sk = loc[a].key

\* A disturbance takes one from the budget and may void guarantees.
LEMMA BudgetTypes ==
    ASSUME TypeOK
    PROVE  \A d : Disturbance(d) => budget' \in Budget
<1> SUFFICES ASSUME NEW d, Disturbance(d) PROVE budget' \in Budget
  OBVIOUS
<1>1. budget.left \in Nat /\ budget.kept \in SUBSET Guarantee
  BY DEF TypeOK, Budget
<1>2. budget.left - 1 \in Nat
  BY <1>1 DEF Disturbance
<1>3. budget.kept \ Voids(d) \in SUBSET Guarantee
  BY <1>1
<1> QED BY <1>2, <1>3 DEF Disturbance, Budget

\* Every step keeps the variables in their types.
LEMMA TypeStep == TypeOK /\ HandedOver /\ [Next]_vars => TypeOK'
<1> SUFFICES ASSUME TypeOK, HandedOver, [Next]_vars PROVE TypeOK'
  OBVIOUS
<1> USE ConstantsAssumption, BudgetTypes
<1>1. ASSUME NEW a \in Access, Reconcile(a) PROVE TypeOK'
  BY <1>1 DEF TypeOK, Reconcile, WorkerTypes, Goto, PC
<1>2. ASSUME NEW a \in Access, AddFinalizer(a) PROVE TypeOK'
  <2>1. CASE Goto(a, "claim") /\ obj' = [obj EXCEPT ![a] = Finalized(@)]
             /\ snap' = [snap EXCEPT ![a] = Finalized(@)]
             /\ UNCHANGED <<loc, budget, cache, secrets, live, used, env>>
    BY <2>1, ObjectTypes DEF TypeOK, Goto, PC
  <2>2. CASE Return(a) /\ UNCHANGED <<obj, cache, secrets, live, used, env>>
             /\ (UNCHANGED budget \/ Disturbance("apiWrite"))
    BY <2>2, ExitTypes DEF TypeOK, WorkerTypes
  <2> QED BY <1>2, <2>1, <2>2 DEF AddFinalizer
<1>3. ASSUME NEW a \in Access, ReadClaim(a) PROVE TypeOK'
  <2>1. WorkerTypes'
    <3>1. CASE EnforceRevocation(a, FALSE, "False") \/ EnforceRevocation(a, FALSE, "Keep")
      BY <3>1, ExitTypes
    <3>2. CASE Finish(a, "Keep", NoKey)
      BY <3>2, ExitTypes DEF KeyOrNone
    <3>3. CASE /\ loc' = [loc EXCEPT ![a] = SawClaim(@, env[a])]
               /\ Goto(a, "resolve") /\ UNCHANGED snap
      BY <3>3, LocalTypes DEF TypeOK, WorkerTypes, Goto, PC
    <3> QED BY <1>3, <3>1, <3>2, <3>3 DEF ReadClaim
  <2>2. budget' \in Budget
    <3>1. UNCHANGED budget \/ Disturbance("read")
      BY <1>3, Zenon DEF ReadClaim
    <3> QED BY <3>1 DEF TypeOK
  <2>3. UNCHANGED <<obj, cache, secrets, live, used, env>>
    BY <1>3 DEF ReadClaim
  <2> QED BY <2>1, <2>2, <2>3 DEF TypeOK, WorkerTypes
<1>4. ASSUME NEW a \in Access, ResolveBound(a) PROVE TypeOK'
  <2>1. WorkerTypes'
    <3>1. CASE EnforceRevocation(a, FALSE, "Keep")
      BY <3>1, ExitTypes
    <3>2. CASE /\ loc' = [loc EXCEPT ![a] = SawBucket(@, env[a])]
               /\ Goto(a, "authorize") /\ UNCHANGED snap
      BY <3>2, LocalTypes DEF TypeOK, WorkerTypes, Goto, PC
    <3>3. CASE /\ loc' = [loc EXCEPT ![a] = SawBucket(@, WithoutStore(env[a]))]
               /\ Goto(a, "authorize") /\ UNCHANGED snap
      <4>1. WithoutStore(env[a]) \in Environment
        BY EnvironmentTypes DEF TypeOK
      <4>2. SawBucket(loc[a], WithoutStore(env[a])) \in Local
        BY <4>1, LocalTypes DEF TypeOK
      <4> QED BY <3>3, <4>2 DEF TypeOK, WorkerTypes, Goto, PC
    <3> QED BY <1>4, <3>1, <3>2, <3>3 DEF ResolveBound
  <2>2. budget' \in Budget
    <3>1. UNCHANGED budget \/ Disturbance("resolve")
      BY <1>4, Zenon DEF ResolveBound
    <3> QED BY <3>1 DEF TypeOK
  <2>3. UNCHANGED <<obj, cache, secrets, live, used, env>>
    BY <1>4 DEF ResolveBound
  <2> QED BY <2>1, <2>2, <2>3 DEF TypeOK, WorkerTypes
<1>5. ASSUME NEW a \in Access, Authorize(a) PROVE TypeOK'
  BY <1>5, LocalTypes, ExitTypes DEF TypeOK, Authorize, WorkerTypes, Goto, PC, KeyOrNone
<1>6. ASSUME NEW a \in Access, RevokeKey(a) PROVE TypeOK'
  BY <1>6, LocalTypes, ExitTypes DEF TypeOK, RevokeKey, WorkerTypes, Goto, PC, KeyOrNone, DriverDeleteAccess
<1>7. ASSUME NEW a \in Access, DropSecret(a) PROVE TypeOK'
  BY <1>7, LocalTypes, ExitTypes, SecretTypes DEF TypeOK, DropSecret, WorkerTypes, Goto, PC, KeyOrNone
<1>8. ASSUME NEW a \in Access, GetSecret(a) PROVE TypeOK'
  <2>1. WorkerTypes'
    <3>1. CASE Finish(a, "Keep", NoKey)
      BY <3>1, ExitTypes DEF KeyOrNone
    <3>2. CASE /\ loc' = [loc EXCEPT ![a] =
                             SawSecret(@, snap[a], secrets[SecretOf[a]])]
               /\ Goto(a, "ensure") /\ UNCHANGED snap
      BY <3>2, LocalTypes DEF TypeOK, WorkerTypes, Goto, PC
    <3> QED BY <1>8, <3>1, <3>2 DEF GetSecret
  <2> QED BY <1>8, <2>1 DEF TypeOK, WorkerTypes, GetSecret
<1>9. ASSUME NEW a \in Access, EnsureGarage(a) PROVE TypeOK'
  <2>1. WorkerTypes'
    <3>1. CASE EnsureFails(a)
      BY <3>1, ExitTypes
    <3>2. CASE /\ loc' = [loc EXCEPT ![a] = MustMint(@)]
               /\ Goto(a, "mint") /\ UNCHANGED snap
      BY <3>2, LocalTypes DEF TypeOK, WorkerTypes, Goto, PC
    <3>3. CASE /\ loc' = [loc EXCEPT ![a] = Reused(@, snap[a].key)]
               /\ Goto(a, "allow") /\ UNCHANGED snap
      BY <3>3, LocalTypes, ObjectTypes DEF TypeOK, WorkerTypes, Goto, PC
    <3> QED BY <1>9, <3>1, <3>2, <3>3 DEF EnsureGarage
  <2> QED BY <1>9, <2>1
          DEF TypeOK, WorkerTypes, EnsureGarage, Unreachable
<1>10. ASSUME NEW a \in Access, CreateKey(a) PROVE TypeOK'
  <2>1. WorkerTypes'
    <3>1. CASE EnsureFails(a)
      BY <3>1, ExitTypes
    <3>2. CASE \E k \in Key : /\ loc' = [loc EXCEPT ![a] = Issued(@, k)]
                              /\ Goto(a, "allow") /\ UNCHANGED snap
      <4>1. PICK k \in Key : loc' = [loc EXCEPT ![a] = Issued(@, k)]
        BY <3>2
      <4>2. Issued(loc[a], k) \in Local
        BY LocalTypes DEF TypeOK, KeyOrNone
      <4> QED BY <3>2, <4>1, <4>2 DEF TypeOK, WorkerTypes, Goto, PC
    <3> QED BY <1>10, <3>1, <3>2 DEF CreateKey
  <2>2. live' \in [Access -> SUBSET Key] /\ used' \in SUBSET Key
    BY <1>10 DEF TypeOK, CreateKey
  <2> QED BY <1>10, <2>1, <2>2
          DEF TypeOK, WorkerTypes, CreateKey, Unreachable
<1>11. ASSUME NEW a \in Access, Allow(a) PROVE TypeOK'
  BY <1>11, ExitTypes DEF TypeOK, Allow, WorkerTypes, Goto, PC
<1>12. ASSUME NEW a \in Access, DeletePrev(a) PROVE TypeOK'
  BY <1>12, ExitTypes DEF TypeOK, DeletePrev, WorkerTypes, Goto, PC
<1>13. ASSUME NEW a \in Access, ReadIdentity(a) PROVE TypeOK'
  <2>1. WorkerTypes'
    <3>1. CASE EnsureFails(a)
      BY <3>1, ExitTypes
    <3>2. CASE \E k \in Key : /\ loc' = [loc EXCEPT ![a] = Issued(@, k)]
                              /\ Goto(a, "putIdentity") /\ UNCHANGED snap
      <4>1. PICK k \in Key : loc' = [loc EXCEPT ![a] = Issued(@, k)]
        BY <3>2
      <4>2. Issued(loc[a], k) \in Local
        BY LocalTypes DEF TypeOK, KeyOrNone
      <4> QED BY <3>2, <4>1, <4>2 DEF TypeOK, WorkerTypes, Goto, PC
    <3>3. live[a] \subseteq Key
      BY DEF TypeOK
    <3> QED BY <1>13, <3>1, <3>2, <3>3 DEF ReadIdentity
  <2>2. used' \in SUBSET Key
    BY <1>13 DEF TypeOK, ReadIdentity
  <2> QED BY <1>13, <2>1, <2>2
          DEF TypeOK, WorkerTypes, ReadIdentity, Unreachable
<1>14. ASSUME NEW a \in Access, WriteIdentity(a) PROVE TypeOK'
  <2>1. WorkerTypes'
    <3>1. CASE EnsureFails(a)
      BY <3>1, ExitTypes
    <3>2. CASE Goto(a, "writeSecret") /\ UNCHANGED <<snap, loc>>
      BY <3>2 DEF TypeOK, WorkerTypes, Goto, PC
    <3> QED BY <1>14, <3>1, <3>2 DEF WriteIdentity
  <2>2. live' \in [Access -> SUBSET Key]
    <3>1. CASE UNCHANGED live
      BY <3>1 DEF TypeOK
    <3>2. CASE live' = [live EXCEPT ![a] = {loc[a].key}]
      BY <1>14, <3>2 DEF TypeOK, HandedOver, WriteIdentity
    <3> QED BY <1>14, <3>1, <3>2 DEF WriteIdentity
  <2>3. budget' \in Budget
    BY <1>14 DEF TypeOK, WriteIdentity, Unreachable
  <2>4. UNCHANGED <<obj, cache, secrets, used, env>>
    BY <1>14 DEF WriteIdentity
  <2> QED BY <2>1, <2>2, <2>3, <2>4 DEF TypeOK, WorkerTypes
<1>15. ASSUME NEW a \in Access, EnsureCredentialsSecret(a) PROVE TypeOK'
  BY <1>15, LocalTypes, SecretTypes, ExitTypes DEF TypeOK, EnsureCredentialsSecret, WorkerTypes, Goto, PC
<1>16. ASSUME NEW a \in Access, UpdateStatus(a) PROVE TypeOK'
  <2>1. WorkerTypes'
    BY <1>16, ExitTypes DEF UpdateStatus
  <2>2. NewStatus(obj[a], snap[a], loc[a]) \in Object
    BY ObjectTypes DEF TypeOK
  <2>3. obj' \in [Access -> Object]
    BY <1>16, <2>2 DEF TypeOK, UpdateStatus
  <2> QED BY <1>16, <2>1, <2>3 DEF TypeOK, WorkerTypes, UpdateStatus
<1>17. ASSUME NEW a \in Access, DeleteReadClaim(a) PROVE TypeOK'
  BY <1>17, ExitTypes DEF TypeOK, DeleteReadClaim, WorkerTypes, Goto, PC
<1>18. ASSUME NEW a \in Access, DeleteResolve(a) PROVE TypeOK'
  BY <1>18 DEF TypeOK, DeleteResolve, Goto, PC, AfterResolve
<1>19. ASSUME NEW a \in Access, DeleteKey(a) PROVE TypeOK'
  BY <1>19, ExitTypes DEF TypeOK, DeleteKey, WorkerTypes, Goto, PC, DriverDeleteAccess
<1>20. ASSUME NEW a \in Access, Release(a) PROVE TypeOK'
  <2>1. WorkerTypes'
    BY <1>20, ExitTypes DEF Release
  <2>2. obj' \in [Access -> Object]
    BY <1>20, ObjectTypes DEF TypeOK, Release
  <2> QED BY <1>20, <2>1, <2>2 DEF TypeOK, WorkerTypes, Release
<1>21. ASSUME NEW a \in Access, CacheSync(a) PROVE TypeOK'
  BY <1>21 DEF TypeOK, CacheSync
<1>22. ASSUME NEW a \in Access, CollectSecret(a) PROVE TypeOK'
  BY <1>22, SecretTypes DEF TypeOK, CollectSecret
<1>23. ASSUME NEW a \in Access, ClaimChange(a) PROVE TypeOK'
  BY <1>23, EnvironmentTypes DEF TypeOK, ClaimChange
<1>24. ASSUME NEW a \in Access, BucketChange(a) PROVE TypeOK'
  BY <1>24, EnvironmentTypes DEF TypeOK, BucketChange
<1>25. ASSUME NEW a \in Access, StoreChange(a) PROVE TypeOK'
  BY <1>25, EnvironmentTypes DEF TypeOK, StoreChange
<1>26. ASSUME NEW a \in Access, PolicyChange(a) PROVE TypeOK'
  BY <1>26, EnvironmentTypes DEF TypeOK, PolicyChange
<1>27. ASSUME NEW a \in Access, Vanish(a) PROVE TypeOK'
  BY <1>27 DEF TypeOK, Vanish
<1>28. ASSUME NEW a \in Access, UserRotate(a) PROVE TypeOK'
  BY <1>28, ObjectTypes DEF TypeOK, UserRotate
<1>29. ASSUME NEW a \in Access, UserDelete(a) PROVE TypeOK'
  BY <1>29, ObjectTypes DEF TypeOK, UserDelete
<1>30. ASSUME NEW a \in Access, UserDeletesSecret(a) PROVE TypeOK'
  BY <1>30, SecretTypes DEF TypeOK, UserDeletesSecret
<1>31. ASSUME Crash PROVE TypeOK'
  BY <1>31, ObjectTypes, LocalTypes DEF TypeOK, Crash, PC
<1>32. CASE UNCHANGED vars
  BY <1>32 DEF vars, TypeOK
<1> QED
  BY <1>1, <1>2, <1>3, <1>4, <1>5, <1>6, <1>7, <1>8, <1>9, <1>10, <1>11, <1>12, <1>13, <1>14, <1>15, <1>16, <1>17, <1>18, <1>19, <1>20, <1>21, <1>22, <1>23, <1>24, <1>25, <1>26, <1>27, <1>28, <1>29, <1>30, <1>31, <1>32 DEF Next, Step, Surroundings

\* One step keeps HandedOver.
LEMMA HandedOverStep == TypeOK /\ HandedOver /\ [Next]_vars => HandedOver'
<1> SUFFICES ASSUME TypeOK, HandedOver, [Next]_vars PROVE HandedOver'
  OBVIOUS
<1> USE ConstantsAssumption
<1>0. ASSUME NEW a \in Access, \A b \in Access : b # a => pc'[b] = pc[b] /\ loc'[b] = loc[b],
             pc'[a] \notin {"putIdentity", "writeSecret", "mint", "allow", "deletePrev"}
      PROVE  HandedOver'
  BY <1>0 DEF HandedOver
<1>1. ASSUME NEW a \in Access, Reconcile(a) PROVE HandedOver'
  BY <1>1, <1>0 DEF TypeOK, Reconcile, Goto
<1>2. ASSUME NEW a \in Access, AddFinalizer(a) PROVE HandedOver'
  BY <1>2, <1>0 DEF TypeOK, AddFinalizer, Return, Goto
<1>3. ASSUME NEW a \in Access, ReadClaim(a) PROVE HandedOver'
  BY <1>3, <1>0 DEF TypeOK, ReadClaim, EnforceRevocation, Finish, Goto
<1>4. ASSUME NEW a \in Access, ResolveBound(a) PROVE HandedOver'
  BY <1>4, <1>0 DEF TypeOK, ResolveBound, EnforceRevocation, Finish, Goto
<1>5. ASSUME NEW a \in Access, Authorize(a) PROVE HandedOver'
  BY <1>5, <1>0 DEF TypeOK, Authorize, EnforceRevocation, Finish, Goto
<1>6. ASSUME NEW a \in Access, RevokeKey(a) PROVE HandedOver'
  BY <1>6, <1>0 DEF TypeOK, RevokeKey, Finish, Goto
<1>7. ASSUME NEW a \in Access, DropSecret(a) PROVE HandedOver'
  BY <1>7, <1>0 DEF TypeOK, DropSecret, Finish, Goto
<1>8. ASSUME NEW a \in Access, GetSecret(a) PROVE HandedOver'
  BY <1>8, <1>0 DEF TypeOK, GetSecret, Finish, Goto
<1>9. ASSUME NEW a \in Access, EnsureGarage(a) PROVE HandedOver'
  <2>1. \A b \in Access : b # a => pc'[b] = pc[b] /\ loc'[b] = loc[b]
    BY <1>9 DEF TypeOK, EnsureGarage, EnsureFails, Finish, Goto
  <2>2. pc'[a] # "putIdentity" /\ Backend # "SeaweedFS"
    BY <1>9 DEF TypeOK, EnsureGarage, EnsureFails, Finish, Goto
  <2> QED BY <2>1, <2>2 DEF HandedOver
<1>10. ASSUME NEW a \in Access, CreateKey(a) \/ Allow(a) \/ DeletePrev(a)
       PROVE HandedOver'
  <2>1. \A b \in Access : b # a => pc'[b] = pc[b] /\ loc'[b] = loc[b]
    BY <1>10 DEF TypeOK, CreateKey, Allow, DeletePrev, EnsureFails, Finish, Goto
  <2>2. pc'[a] # "putIdentity" /\ Backend # "SeaweedFS"
    BY <1>10 DEF TypeOK, HandedOver, CreateKey, Allow, DeletePrev, EnsureFails,
                 Finish, Goto
  <2> QED BY <2>1, <2>2 DEF HandedOver
<1>13. ASSUME NEW a \in Access, ReadIdentity(a) PROVE HandedOver'
  <2>1. CASE EnsureFails(a)
    BY <2>1, <1>0 DEF TypeOK, EnsureFails, Finish, Goto
  <2>2. CASE \E k \in Key : /\ loc' = [loc EXCEPT ![a] = Issued(@, k)]
                            /\ Goto(a, "putIdentity")
    <3>1. PICK k \in Key : loc' = [loc EXCEPT ![a] = Issued(@, k)]
      BY <2>2
    <3>2. Issued(loc[a], k).key = k /\ Issued(loc[a], k).sk = k
      BY DEF TypeOK, Local, Issued
    <3> QED BY <2>2, <3>1, <3>2 DEF TypeOK, HandedOver, Goto
  <2>3. live[a] \subseteq Key
    BY DEF TypeOK
  <2> QED BY <1>13, <2>1, <2>2, <2>3 DEF ReadIdentity
<1>14. ASSUME NEW a \in Access, WriteIdentity(a) PROVE HandedOver'
  <2>1. CASE EnsureFails(a)
    BY <2>1, <1>0 DEF TypeOK, EnsureFails, Finish, Goto
  <2>2. CASE Goto(a, "writeSecret") /\ UNCHANGED loc
    BY <1>14, <2>2 DEF TypeOK, HandedOver, WriteIdentity, Goto
  <2> QED BY <1>14, <2>1, <2>2 DEF WriteIdentity
<1>15. ASSUME NEW a \in Access, EnsureCredentialsSecret(a) PROVE HandedOver'
  BY <1>15, <1>0 DEF TypeOK, EnsureCredentialsSecret, Finish, Goto
<1>16. ASSUME NEW a \in Access, UpdateStatus(a) \/ Release(a) PROVE HandedOver'
  BY <1>16, <1>0 DEF TypeOK, UpdateStatus, Release, Return, Goto
<1>17. ASSUME NEW a \in Access, DeleteReadClaim(a) PROVE HandedOver'
  BY <1>17, <1>0 DEF TypeOK, DeleteReadClaim, Return, Goto
<1>18. ASSUME NEW a \in Access, DeleteResolve(a) PROVE HandedOver'
  BY <1>18, <1>0 DEF TypeOK, DeleteResolve, AfterResolve, Goto
<1>19. ASSUME NEW a \in Access, DeleteKey(a) PROVE HandedOver'
  BY <1>19, <1>0 DEF TypeOK, DeleteKey, Return, Goto
<1>20. ASSUME NEW a \in Access, CacheSync(a) \/ CollectSecret(a) \/ Surroundings(a)
       PROVE HandedOver'
  BY <1>20 DEF HandedOver, CacheSync, CollectSecret, Surroundings, ClaimChange,
       BucketChange, StoreChange, PolicyChange, Vanish, UserRotate, UserDelete,
       UserDeletesSecret
<1>21. ASSUME Crash PROVE HandedOver'
  BY <1>21 DEF HandedOver, Crash
<1>22. CASE UNCHANGED vars
  BY <1>22 DEF vars, HandedOver
<1> QED
  BY <1>1, <1>2, <1>3, <1>4, <1>5, <1>6, <1>7, <1>8, <1>9, <1>10, <1>13, <1>14,
     <1>15, <1>16, <1>17, <1>18, <1>19, <1>20, <1>21, <1>22 DEF Next, Step

\* The initial state is well-typed.
LEMMA TypeInit == Init => TypeOK /\ HandedOver
<1> SUFFICES ASSUME Init PROVE TypeOK /\ HandedOver
  OBVIOUS
<1>1. [claim |-> "bound", bucket |-> "ready", store |-> TRUE, granted |-> TRUE]
         \in Environment
  BY DEF Environment
<1>2. [left |-> MaxDisturb, kept |-> Guarantee] \in Budget
  BY ConstantsAssumption DEF Budget
<1>3. TypeOK
  BY <1>1, <1>2, ConstantsAssumption, ObjectTypes, LocalTypes
     DEF Init, TypeOK, PC
<1>4. HandedOver
  BY DEF Init, HandedOver
<1> QED BY <1>3, <1>4

\* Every reachable state is well-typed: no reconcile, fault or outside change
\* takes the objects, Secrets, keys and locals out of their types.
THEOREM TypeCorrect == Spec => []TypeOK
<1>2. TypeOK /\ HandedOver /\ [Next]_vars => (TypeOK /\ HandedOver)'
  BY TypeStep, HandedOverStep
<1> QED BY TypeInit, <1>2, PTL DEF Spec

-----------------------------------------------------------------------------
(* Secrets of a SeaweedFS store *)

\* Only ensureCredentialsSecret puts credentials into a Secret.
LEMMA SecretStep ==
    ASSUME TypeOK, [Next]_vars, NEW n \in SecretName
    PROVE  \/ secrets'[n] = secrets[n]
           \/ secrets'[n] = NoSecret
           \/ \E a \in Access : EnsureCredentialsSecret(a)
<1> USE ConstantsAssumption DEF TypeOK
<1>1. ASSUME NEW a \in Access, DropSecret(a)
      PROVE  secrets'[n] = secrets[n] \/ secrets'[n] = NoSecret
  BY <1>1 DEF DropSecret
<1>2. ASSUME NEW a \in Access, CollectSecret(a)
      PROVE  secrets'[n] = secrets[n] \/ secrets'[n] = NoSecret
  BY <1>2 DEF CollectSecret
<1>3. ASSUME NEW a \in Access, UserDeletesSecret(a)
      PROVE  secrets'[n] = secrets[n] \/ secrets'[n] = NoSecret
  BY <1>3 DEF UserDeletesSecret
<1>4. ASSUME NEW a \in Access,
             \/ Reconcile(a) \/ AddFinalizer(a) \/ ReadClaim(a) \/ ResolveBound(a)
             \/ Authorize(a) \/ RevokeKey(a) \/ GetSecret(a) \/ EnsureGarage(a)
             \/ CreateKey(a) \/ Allow(a) \/ DeletePrev(a) \/ ReadIdentity(a)
             \/ WriteIdentity(a) \/ UpdateStatus(a) \/ DeleteReadClaim(a)
             \/ DeleteResolve(a) \/ DeleteKey(a) \/ Release(a) \/ CacheSync(a)
             \/ ClaimChange(a) \/ BucketChange(a) \/ StoreChange(a)
             \/ PolicyChange(a) \/ Vanish(a) \/ UserRotate(a) \/ UserDelete(a)
      PROVE  UNCHANGED secrets
  BY <1>4, Zenon DEF Reconcile, AddFinalizer, ReadClaim, ResolveBound, Authorize,
       RevokeKey, GetSecret, EnsureGarage, CreateKey, Allow, DeletePrev,
       ReadIdentity, WriteIdentity, UpdateStatus, DeleteReadClaim, DeleteResolve,
       DeleteKey, Release, CacheSync, ClaimChange, BucketChange, StoreChange,
       PolicyChange, Vanish, UserRotate, UserDelete
<1>5. Crash \/ UNCHANGED vars => UNCHANGED secrets
  BY DEF Crash, vars
<1> QED BY <1>1, <1>2, <1>3, <1>4, <1>5 DEF Next, Step, Surroundings

\* With the SeaweedFS driver every credentials Secret holds a matching pair,
\* whatever fails and in whatever order: the driver always returns the secret
\* key with the id, so no reconcile depends on what an earlier one stored.
THEOREM SeaweedPairConsistent ==
    ASSUME Backend = "SeaweedFS"
    PROVE  Spec => []PairConsistent
<1>1. Init => TypeOK /\ HandedOver /\ PairConsistent
  <2> SUFFICES ASSUME Init PROVE PairConsistent
    BY TypeInit
  <2> QED BY DEF Init, PairConsistent, NoSecret
<1>2. TypeOK /\ HandedOver /\ PairConsistent /\ [Next]_vars
         => (TypeOK /\ HandedOver /\ PairConsistent)'
  <2> SUFFICES ASSUME TypeOK, HandedOver, PairConsistent, [Next]_vars
               PROVE  PairConsistent'
    BY TypeStep, HandedOverStep
  <2> SUFFICES ASSUME NEW n \in SecretName
               PROVE  secrets'[n].ak = secrets'[n].sk
    BY DEF PairConsistent
  <2>1. CASE secrets'[n] = secrets[n] \/ secrets'[n] = NoSecret
    BY <2>1 DEF PairConsistent, NoSecret
  <2>2. ASSUME NEW a \in Access, EnsureCredentialsSecret(a)
        PROVE  secrets'[n].ak = secrets'[n].sk
    <3>1. pc[a] = "writeSecret"
      BY <2>2 DEF EnsureCredentialsSecret
    <3>2. loc[a].key \in Key /\ loc[a].sk = loc[a].key
      BY <3>1 DEF HandedOver
    <3>3. SecretKeyToStore(loc[a]) = loc[a].key
      BY <3>2, ConstantsAssumption DEF SecretKeyToStore
    <3> QED BY <2>2, <3>3 DEF EnsureCredentialsSecret, PairConsistent, TypeOK
  <2> QED BY <2>1, <2>2, SecretStep
<1> QED BY <1>1, <1>2, PTL DEF Spec
=============================================================================
