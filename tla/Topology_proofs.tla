-------------------------- MODULE Topology_proofs --------------------------
(***************************************************************************)
(* Theorems about the tenants and workers of one daemon process, for any   *)
(* number of tenants, branches and versions, and whatever calls fail:      *)
(* every state is well typed, no database is closed while a worker or an   *)
(* admitted onboarding can use it, a closed tenant takes no more requests, *)
(* the cache holds no service of an earlier tenant, and between            *)
(* reconciliations no worker and no database is lost.                      *)
(*                                                                         *)
(* None of these is inductive: whether a database may be closed depends on *)
(* which goroutines the maps have forgotten.  TInv says of each worker     *)
(* that runs who still knows it: its handle, or the list that the holder   *)
(* of reconcileMu waits for; and which tenantCtx it works for: the         *)
(* database's tenant, or the one that is being removed (RunOK).  Of each   *)
(* tenantCtx it says that it is a tenant until it stops, and that one that *)
(* has stopped and is open is being removed (CtxOK); an onboarding that    *)
(* was admitted has an open database, since a stopping tenantCtx admits    *)
(* none (OnboardOK).  RecOK is what holds at each place of the reconciler. *)
(***************************************************************************)
EXTENDS Topology, TLAPS

(* removeTenant is at work on the tenant of d.                             *)
Removing(d) == rec.pc \in {"cancel", "drain"} /\ rec.db = d

(* The tenantCtx that the workers of d work for.                           *)
CtxOf(d) == IF Removing(d) THEN rec.ctx ELSE tenants[d]

(* The databases that are left to visit are to be added.                   *)
Adding ==
  rec.pc \in {"add", "subscribe", "answer"} \/ (rec.pc \in {"cancel", "drain"} /\ rec.back = "add")

(* Neither responder of c is subscribed.                                   *)
Silent(c) == ~ctx[c].subscribed /\ ~ctx[c].responding

RecOK ==
  /\ rec.pc \in {"subscribe", "answer", "start"} => rec.db \in Db /\ tenants[rec.db] # None
  /\ rec.pc \in {"cancel", "drain"} =>
       /\ rec.db \in Db /\ rec.ctx \in Ctx /\ tenants[rec.db] = None
       /\ ctx[rec.ctx].db = rec.db /\ ctx[rec.ctx].open /\ ctx[rec.ctx].stopping
       /\ rec.pc = "drain" \/ rec.back = "add" => Silent(rec.ctx)
  /\ rec.pc \in {"subscribe", "answer"} => ~ctx[tenants[rec.db]].responding
  /\ \A d \in rec.todo : tenants[d] = None <=> Adding
  /\ rec.pc \notin {"cancel", "drain", "sweepCancel", "sweepWait"} => rec.waiting = {}
  /\ \A v, w \in rec.waiting : v[1] = w[1] => v = w

(* A tenant is open and not stopping.                                      *)
TenantOK(d) ==
  tenants[d] # None =>
    ctx[tenants[d]].db = d /\ ctx[tenants[d]].open /\ ~ctx[tenants[d]].stopping

CtxOK(c) ==
  LET x == ctx[c]
  IN  /\ x.db = None => ~x.open /\ ~x.subscribed /\ x.callback = "none"
      /\ x.db # None /\ ~x.stopping => tenants[x.db] = c
      /\ x.stopping /\ x.open => rec.pc \in {"cancel", "drain"} /\ rec.ctx = c
      /\ x.subscribed \/ x.responding => x.open
      /\ x.callback # "none" => x.branch \in Branch
      /\ x.callback = "admit" => onboarding[<<x.db, x.branch>>] = [pc |-> "begun", ctx |-> c]

(* A worker that runs.                                                     *)
RunOK(w) ==
  Alive(w) =>
    /\ handles[w[1]] = w[2] \/ w \in rec.waiting
    /\ worker[w].ctx = CtxOf(w[1][1])
    /\ worker[w].loaded \in {None, CtxOf(w[1][1])}

HandleOK(k) == handles[k] # None => tenants[k[1]] # None

OnboardOK(k) == onboarding[k].pc \in {"running", "start"} => ctx[onboarding[k].ctx].open

CacheOK(k) == tenants[k[1]] # None => caches[k] \in {None, tenants[k[1]]}

TInv ==
  /\ TypeOK
  /\ RecOK
  /\ \A d \in Db : TenantOK(d)
  /\ \A c \in Ctx : CtxOK(c)
  /\ \A w \in Key \X Slot : RunOK(w)
  /\ \A k \in Key : HandleOK(k) /\ OnboardOK(k) /\ CacheOK(k)

------------------------------------------------------------------------------
(* How a step is shown to keep the invariant.                              *)

(* A worker goroutine is one of a branch of a tenant.                      *)
LEMMA WorkerKey ==
  ASSUME NEW w \in Key \X Slot
  PROVE  w[1] \in Key /\ w[2] \in Slot /\ w[1][1] \in Db /\ w[1][2] \in Branch /\ w = <<w[1], w[2]>>
BY DEF Key

(* The variables that the invariant is about.                              *)
core == <<tenants, ctx, handles, worker, caches, onboarding, rec>>

(* A step that changes none of them.                                       *)
LEMMA CoreUnchanged ==
  ASSUME TInv, UNCHANGED core, TypeOK'
  PROVE  TInv'
<1>1. UNCHANGED <<tenants, ctx, handles, worker, caches, onboarding, rec>>
  BY DEF core
<1>2. RecOK'
  BY <1>1 DEF TInv, RecOK, Silent, Adding
<1>3. \A d \in Db : TenantOK(d)'
  BY <1>1 DEF TInv, TenantOK
<1>4. \A c \in Ctx : CtxOK(c)'
  BY <1>1 DEF TInv, CtxOK
<1>5. \A w \in Key \X Slot : RunOK(w)'
  BY <1>1 DEF TInv, RunOK, Alive, CtxOf, Removing
<1>6. \A k \in Key : HandleOK(k)' /\ OnboardOK(k)' /\ CacheOK(k)'
  BY <1>1 DEF TInv, HandleOK, OnboardOK, CacheOK
<1> QED
  BY <1>2, <1>3, <1>4, <1>5, <1>6 DEF TInv

(* The backend and the signal do not touch the process's maps.             *)
LEMMA OutsideKeeps ==
  ASSUME TInv,
         \/ \E d \in Db, v \in Version \cup {None} : RegistryChange(d, v)
         \/ \E d \in Db, b \in Branch : BranchChange(d, b)
         \/ Shutdown
  PROVE  TInv'
<1>1. TypeOK
  BY DEF TInv
<1>2. ASSUME NEW d \in Db, NEW v \in Version \cup {None}, RegistryChange(d, v) PROVE TInv'
  <2>1. TypeOK' /\ UNCHANGED core
    BY <1>1, <1>2 DEF TypeOK, RegistryChange, core
  <2> QED
    BY <2>1, CoreUnchanged
<1>3. ASSUME NEW d \in Db, NEW b \in Branch, BranchChange(d, b) PROVE TInv'
  <2>1. active' \in [Db -> SUBSET Branch]
    BY <1>1, <1>3 DEF TypeOK, BranchChange
  <2>2. TypeOK' /\ UNCHANGED core
    BY <1>1, <1>3, <2>1 DEF TypeOK, BranchChange, core
  <2> QED
    BY <2>2, CoreUnchanged
<1>4. CASE Shutdown
  <2>1. TypeOK' /\ UNCHANGED core
    BY <1>1, <1>4 DEF TypeOK, Shutdown, core
  <2> QED
    BY <2>1, CoreUnchanged
<1> QED
  BY <1>2, <1>3, <1>4

------------------------------------------------------------------------------
(* The worker goroutines.                                                  *)

(* What a worker's state is where it runs.                                 *)
RunState ==
  [pc : {"starting", "fetch", "handle", "load", "store"}, ctx : Ctx, loaded : Ctx \cup {None},
   cancelled : BOOLEAN]

(* A worker that runs has a tenantCtx, and one that loads a service has    *)
(* looked one up.                                                          *)
LEMMA RunningWorker ==
  ASSUME NEW s \in WorkerState, s.pc # "done"
  PROVE  /\ s \in RunState
         /\ s.pc \in {"load", "store"} => s.loaded \in Ctx
BY DEF WorkerState, Done, RunState

(* It stays one when it goes on at another place.                          *)
LEMMA GoesOn ==
  ASSUME NEW c \in Ctx, NEW pc, NEW l,
         NEW t \in [pc : {pc}, ctx : {c}, loaded : {l}, cancelled : BOOLEAN],
         \/ pc \in {"fetch", "handle"} /\ l = None
         \/ pc \in {"load", "store"} /\ l \in Ctx
  PROVE  t \in WorkerState /\ t.pc = pc /\ t.ctx = c /\ t.loaded = l
BY DEF WorkerState

(* A step of a worker that keeps its tenantCtx, or ends.                   *)
LEMMA WorkerMoves ==
  ASSUME TInv, NEW w \in Key \X Slot, NEW from, NEW to \in WorkerState,
         WorkerStep(w, from, to), from # "done",
         to.pc # "done" => to.ctx = worker[w].ctx /\ to.loaded \in {None, CtxOf(w[1][1])},
         caches' = caches \/ caches' = [caches EXCEPT ![w[1]] = CtxOf(w[1][1])],
         consumer' \in [Key -> Slot \cup {None}]
  PROVE  TInv'
<1>1. TypeOK /\ RecOK /\ CtxOf(w[1][1]) \in Ctx \cup {None} /\ w[1] \in Key /\ w[1][1] \in Db
  BY WorkerKey DEF TInv, TypeOK, RecState, CtxOf
<1>2. /\ UNCHANGED <<registry, active, tenants, ctx, handles, onboarding, rec, unhealthy, cancelled>>
      /\ worker' = [worker EXCEPT ![w] = to] /\ Alive(w) /\ worker \in [Key \X Slot -> WorkerState]
  BY <1>1 DEF WorkerStep, Alive, TypeOK
<1>3. caches' \in [Key -> Ctx \cup {None}]
  BY <1>1 DEF TypeOK
<1>4. TypeOK'
  BY <1>1, <1>2, <1>3 DEF TypeOK
<1>5. RecOK' /\ (\A d \in Db : TenantOK(d)') /\ (\A c \in Ctx : CtxOK(c)')
  BY <1>2 DEF TInv, RecOK, Silent, Adding, TenantOK, CtxOK
<1>6. \A d \in Db : CtxOf(d)' = CtxOf(d)
  BY <1>2 DEF CtxOf, Removing
<1>7. ASSUME NEW v \in Key \X Slot PROVE RunOK(v)'
  <2>1. RunOK(v) /\ v[1][1] \in Db
    BY WorkerKey DEF TInv
  <2>2. CASE v = w
    <3>1. worker'[v] = to
      BY <1>2, <2>2
    <3> QED
      BY <1>2, <1>6, <2>1, <2>2, <3>1 DEF RunOK, Alive
  <2>3. CASE v # w
    <3>1. worker'[v] = worker[v]
      BY <1>2, <2>3
    <3> QED
      BY <1>2, <1>6, <2>1, <3>1 DEF RunOK, Alive
  <2> QED
    BY <2>2, <2>3
<1>8. ASSUME NEW k \in Key PROVE HandleOK(k)' /\ OnboardOK(k)' /\ CacheOK(k)'
  <2>1. HandleOK(k) /\ OnboardOK(k) /\ CacheOK(k)
    BY DEF TInv
  <2>2. HandleOK(k)' /\ OnboardOK(k)'
    BY <1>2, <2>1 DEF HandleOK, OnboardOK
  <2>3. CASE caches'[k] = caches[k]
    BY <1>2, <2>1, <2>2, <2>3 DEF CacheOK
  <2>4. CASE k = w[1] /\ caches'[k] = CtxOf(k[1])
    BY <1>1, <1>2, <2>2, <2>4 DEF CacheOK, CtxOf, Removing, RecOK
  <2>5. caches'[k] = caches[k] \/ (k = w[1] /\ caches'[k] = CtxOf(k[1]))
    BY <1>1 DEF TypeOK
  <2> QED
    BY <2>2, <2>3, <2>4, <2>5
<1> QED
  BY <1>4, <1>5, <1>7, <1>8 DEF TInv

(* Every step of a worker keeps the invariant (runWorkerContext,           *)
(* getService): it looks the tenant up while its own is not yet closed.    *)
LEMMA WorkerKeeps ==
  ASSUME TInv, NEW w \in Key \X Slot, WorkerNext(w)
  PROVE  TInv'
<1> DEFINE s == worker[w]
<1>1. /\ TypeOK /\ RecOK /\ s \in WorkerState /\ w[1] \in Key /\ w[1][1] \in Db /\ w[2] \in Slot
      /\ consumer \in [Key -> Slot \cup {None}] /\ RunOK(w)
  BY WorkerKey DEF TInv, TypeOK
<1>2. Done \in WorkerState /\ Done.pc = "done"
  BY DEF WorkerState, Done
<1>3. ASSUME NEW pc \in {"fetch", "handle"}, s.pc # "done"
      PROVE  /\ MoveTo(w, pc) \in WorkerState /\ MoveTo(w, pc).ctx = s.ctx
             /\ MoveTo(w, pc).loaded = None
  <2>1. s \in RunState
    BY <1>1, <1>3, RunningWorker
  <2>2. /\ MoveTo(w, pc) \in [pc : {pc}, ctx : {s.ctx}, loaded : {None}, cancelled : BOOLEAN]
        /\ s.ctx \in Ctx
    BY <2>1 DEF MoveTo, RunState
  <2> QED
    BY <2>2, GoesOn
<1>4. CASE PullSubscribe(w)
  <2>1. consumer' \in [Key -> Slot \cup {None}] /\ caches' = caches
    BY <1>1, <1>4 DEF PullSubscribe
  <2>2. CASE WorkerStep(w, "starting", MoveTo(w, "fetch"))
    <3>1. s.pc # "done"
      BY <2>2 DEF WorkerStep
    <3> QED
      BY <1>3, <2>1, <2>2, <3>1, WorkerMoves
  <2>3. CASE WorkerStep(w, "starting", Done)
    BY <1>2, <2>1, <2>3, WorkerMoves
  <2> QED
    BY <1>4, <2>2, <2>3 DEF PullSubscribe
<1>5. CASE Fetch(w)
  <2>1. s.pc # "done" /\ WorkerStep(w, "fetch", MoveTo(w, "handle")) /\ UNCHANGED <<caches, consumer>>
    BY <1>5 DEF WorkerStep, Fetch
  <2> QED
    BY <1>1, <1>3, <2>1, WorkerMoves
<1>6. CASE Unsubscribe(w)
  <2>1. consumer' \in [Key -> Slot \cup {None}]
    BY <1>1, <1>6 DEF Unsubscribe
  <2> QED
    BY <1>2, <1>6, <2>1, WorkerMoves DEF Unsubscribe
<1>7. CASE Handle(w)
  <2>1. s.pc # "done" /\ WorkerStep(w, "handle", MoveTo(w, "fetch")) /\ UNCHANGED <<caches, consumer>>
    BY <1>7 DEF WorkerStep, Handle
  <2> QED
    BY <1>1, <1>3, <2>1, WorkerMoves
<1>8. CASE CacheMiss(w)
  <2> DEFINE t == [s EXCEPT !.pc = "load", !.loaded = tenants[w[1][1]]]
  <2>1. /\ WorkerStep(w, "handle", t) /\ UNCHANGED <<caches, consumer>>
        /\ s.pc = "handle" /\ tenants[w[1][1]] # None
    BY <1>8 DEF CacheMiss, WorkerStep
  <2>2. tenants[w[1][1]] \in Ctx /\ CtxOf(w[1][1]) = tenants[w[1][1]]
    BY <1>1, <2>1 DEF TypeOK, RecOK, CtxOf, Removing
  <2>3. t \in WorkerState /\ t.ctx = s.ctx /\ t.loaded = tenants[w[1][1]]
    <3>1. s \in RunState
      BY <1>1, <2>1, RunningWorker
    <3>2. /\ t \in [pc : {"load"}, ctx : {s.ctx}, loaded : {tenants[w[1][1]]}, cancelled : BOOLEAN]
          /\ s.ctx \in Ctx
      BY <3>1 DEF RunState
    <3> HIDE DEF t
    <3> QED
      BY <2>2, <3>2, GoesOn
  <2> HIDE DEF t
  <2> QED
    BY <1>1, <2>1, <2>2, <2>3, WorkerMoves
<1>9. CASE LoadService(w)
  <2> DEFINE t == [s EXCEPT !.pc = "store"]
  <2>1. s.pc = "load" /\ UNCHANGED <<caches, consumer>>
    BY <1>9 DEF LoadService, WorkerStep
  <2>2. s \in RunState /\ s.loaded \in Ctx
    BY <1>1, <2>1, RunningWorker
  <2>3. /\ t \in [pc : {"store"}, ctx : {s.ctx}, loaded : {s.loaded}, cancelled : BOOLEAN]
        /\ s.ctx \in Ctx
    BY <2>2 DEF RunState
  <2>4. t \in WorkerState /\ t.ctx = s.ctx /\ t.loaded = s.loaded
    <3> HIDE DEF t
    <3> QED
      BY <2>2, <2>3, GoesOn
  <2>5. WorkerStep(w, "load", t) \/ WorkerStep(w, "load", MoveTo(w, "fetch"))
    BY <1>9 DEF LoadService
  <2> HIDE DEF t
  <2>6. CASE WorkerStep(w, "load", t)
    <3>1. s.loaded \in {None, CtxOf(w[1][1])}
      BY <1>1, <2>1 DEF RunOK, Alive
    <3> QED
      BY <1>1, <2>1, <2>4, <2>6, <3>1, WorkerMoves
  <2>7. CASE WorkerStep(w, "load", MoveTo(w, "fetch"))
    BY <1>1, <1>3, <2>1, <2>7, WorkerMoves
  <2> QED
    BY <2>5, <2>6, <2>7
<1>10. CASE StoreService(w)
  <2>1. /\ s.pc = "store" /\ consumer' = consumer /\ caches' = [caches EXCEPT ![w[1]] = s.loaded]
        /\ WorkerStep(w, "store", MoveTo(w, "fetch"))
    BY <1>10 DEF StoreService, WorkerStep
  <2>2. s.loaded = CtxOf(w[1][1])
    BY <1>1, <2>1, RunningWorker, TopologyAssumption DEF RunOK, Alive
  <2> QED
    BY <1>1, <1>3, <2>1, <2>2, WorkerMoves
<1> QED
  BY <1>4, <1>5, <1>6, <1>7, <1>8, <1>9, <1>10 DEF WorkerNext

------------------------------------------------------------------------------
(* The onboarding responder.                                               *)

(* A step of the callback of c, which moves it and at most one onboarding. *)
LEMMA CallbackMoves ==
  ASSUME TInv, NEW c \in Ctx,
         UNCHANGED <<registry, active, tenants, handles, worker, caches, consumer, rec, unhealthy,
                     cancelled>>,
         ctx' \in [Ctx -> TenantCtx], onboarding' \in [Key -> Onboarding],
         \A x \in Ctx : /\ ctx'[x].db = ctx[x].db /\ ctx'[x].open = ctx[x].open
                        /\ ctx'[x].stopping = ctx[x].stopping /\ ctx'[x].subscribed = ctx[x].subscribed
                        /\ ctx'[x].responding = ctx[x].responding,
         \A x \in Ctx \ {c} : ctx'[x] = ctx[x],
         ctx'[c].callback # "none" => ctx[c].db # None /\ ctx'[c].branch \in Branch,
         \A x \in Ctx : ctx'[x].callback = "admit" =>
           onboarding'[<<ctx'[x].db, ctx'[x].branch>>] = [pc |-> "begun", ctx |-> x],
         \A k \in Key : onboarding'[k].pc \in {"running", "start"} => ctx[onboarding'[k].ctx].open
  PROVE  TInv'
<1>1. TypeOK'
  BY DEF TInv, TypeOK
<1>2. RecOK'
  <2>1. RecOK /\ rec.pc \in {"subscribe", "answer"} => tenants[rec.db] \in Ctx
    BY DEF TInv, TypeOK, RecOK
  <2> QED
    BY <2>1 DEF TInv, RecOK, Silent, Adding
<1>3. ASSUME NEW d \in Db PROVE TenantOK(d)'
  <2>1. TenantOK(d) /\ tenants[d] \in Ctx \cup {None}
    BY DEF TInv, TypeOK
  <2> QED
    BY <2>1 DEF TenantOK
<1>4. ASSUME NEW x \in Ctx PROVE CtxOK(x)'
  <2>1. CtxOK(x)
    BY DEF TInv
  <2>2. CASE x = c
    BY <2>1, <2>2 DEF CtxOK
  <2>3. CASE x # c
    BY <2>1, <2>3 DEF CtxOK
  <2> QED
    BY <2>2, <2>3
<1>5. \A w \in Key \X Slot : RunOK(w)'
  BY DEF TInv, RunOK, Alive, CtxOf, Removing
<1>6. \A k \in Key : HandleOK(k)' /\ CacheOK(k)'
  BY DEF TInv, HandleOK, CacheOK
<1>7. ASSUME NEW k \in Key, onboarding'[k].pc \in {"running", "start"}
      PROVE  ctx'[onboarding'[k].ctx].open
  <2>1. onboarding'[k].ctx \in Ctx
    BY <1>7 DEF Onboarding, NotOnboarding
  <2> QED
    BY <1>7, <2>1
<1>8. \A k \in Key : OnboardOK(k)'
  BY <1>7 DEF OnboardOK
<1> QED
  BY <1>1, <1>2, <1>3, <1>4, <1>5, <1>6, <1>8 DEF TInv

(* A callback that is at work has a tenant and a branch.                   *)
LEMMA CallbackKey ==
  ASSUME TInv, NEW c \in Ctx, ctx[c].callback # "none"
  PROVE  ctx[c].db \in Db /\ ctx[c].branch \in Branch /\ <<ctx[c].db, ctx[c].branch>> \in Key
<1>1. ctx[c] \in TenantCtx /\ CtxOK(c)
  BY DEF TInv, TypeOK
<1> QED
  BY <1>1 DEF CtxOK, TenantCtx, Key

(* The callback keeps the invariant: a tenantCtx that is stopping admits   *)
(* no onboarding, and one that is not is open (subscribeOnboardResponder). *)
LEMMA CallbackKeeps ==
  ASSUME TInv, NEW c \in Ctx,
         (\E b \in Branch : Receive(c, b)) \/ BeginOnboarding(c) \/ AdmitOnboarding(c)
  PROVE  TInv'
<1>1. /\ TypeOK /\ ctx \in [Ctx -> TenantCtx] /\ ctx[c] \in TenantCtx
      /\ onboarding \in [Key -> Onboarding] /\ \A x \in Ctx : CtxOK(x)
  BY DEF TInv, TypeOK
<1>2. UNCHANGED <<registry, tenants, handles, worker, caches, consumer, rec, unhealthy, cancelled, active>>
  BY DEF Receive, BeginOnboarding, AdmitOnboarding, OnboardStep
<1>3. \A k \in Key : onboarding[k].pc \in {"running", "start"} => ctx[onboarding[k].ctx].open
  BY DEF TInv, OnboardOK
<1> DEFINE k == <<ctx[c].db, ctx[c].branch>>
<1>4. ASSUME NEW t, ctx' = [ctx EXCEPT ![c] = t], t \in TenantCtx,
             t.db = ctx[c].db, t.open = ctx[c].open, t.stopping = ctx[c].stopping,
             t.subscribed = ctx[c].subscribed, t.responding = ctx[c].responding
      PROVE  /\ ctx' \in [Ctx -> TenantCtx] /\ ctx'[c] = t /\ (\A x \in Ctx \ {c} : ctx'[x] = ctx[x])
             /\ \A x \in Ctx : /\ ctx'[x].db = ctx[x].db /\ ctx'[x].open = ctx[x].open
                               /\ ctx'[x].stopping = ctx[x].stopping
                               /\ ctx'[x].subscribed = ctx[x].subscribed
                               /\ ctx'[x].responding = ctx[x].responding
  <2>1. ctx' \in [Ctx -> TenantCtx] /\ ctx'[c] = t /\ (\A x \in Ctx \ {c} : ctx'[x] = ctx[x])
    BY <1>1, <1>4
  <2> QED
    BY <1>4, <2>1
<1>5. \A x \in Ctx : ctx[x].callback = "admit" =>
        /\ onboarding[<<ctx[x].db, ctx[x].branch>>] = [pc |-> "begun", ctx |-> x]
        /\ <<ctx[x].db, ctx[x].branch>> \in Key
  BY <1>1, CallbackKey DEF CtxOK
<1>6. ASSUME NEW b \in Branch, Receive(c, b) PROVE TInv'
  <2> DEFINE t == [ctx[c] EXCEPT !.callback = "begin", !.branch = b]
  <2>1. ctx' = [ctx EXCEPT ![c] = t] /\ onboarding' = onboarding /\ ctx[c].subscribed
    BY <1>6 DEF Receive
  <2>2. /\ t \in TenantCtx /\ t.callback = "begin" /\ t.branch = b
        /\ t.db = ctx[c].db /\ t.open = ctx[c].open /\ t.stopping = ctx[c].stopping
        /\ t.subscribed = ctx[c].subscribed /\ t.responding = ctx[c].responding
    BY <1>1 DEF TenantCtx
  <2>3. ctx[c].db # None
    BY <1>1, <2>1 DEF CtxOK
  <2> HIDE DEF t
  <2>4. \A x \in Ctx : ctx'[x].callback = "admit" =>
          onboarding'[<<ctx'[x].db, ctx'[x].branch>>] = [pc |-> "begun", ctx |-> x]
    BY <1>4, <1>5, <2>1, <2>2
  <2> QED
    BY <1>1, <1>2, <1>3, <1>4, <2>1, <2>2, <2>3, <2>4, CallbackMoves
<1>7. CASE BeginOnboarding(c)
  <2>1. ctx[c].callback = "begin" /\ k \in Key /\ ctx[c].db # None /\ ctx[c].branch \in Branch
    BY <1>7, CallbackKey, TopologyAssumption DEF BeginOnboarding
  <2>2. CASE onboarding[k].pc = "none"
    <3> DEFINE t == [ctx[c] EXCEPT !.callback = "admit"]
               o == [pc |-> "begun", ctx |-> c]
    <3>1. ctx' = [ctx EXCEPT ![c] = t] /\ onboarding' = [onboarding EXCEPT ![k] = o]
      BY <1>7, <2>2 DEF BeginOnboarding
    <3>2. /\ t \in TenantCtx /\ t.callback = "admit" /\ t.branch = ctx[c].branch
          /\ t.db = ctx[c].db /\ t.open = ctx[c].open /\ t.stopping = ctx[c].stopping
          /\ t.subscribed = ctx[c].subscribed /\ t.responding = ctx[c].responding
      BY <1>1 DEF TenantCtx
    <3>3. o \in Onboarding /\ o.pc = "begun" /\ o.ctx = c
      BY DEF Onboarding
    <3> HIDE DEF t
    <3>4. /\ onboarding' \in [Key -> Onboarding] /\ onboarding'[k] = o
          /\ \A j \in Key \ {k} : onboarding'[j] = onboarding[j]
      BY <1>1, <2>1, <3>1, <3>3
    <3>5. ASSUME NEW x \in Ctx, ctx'[x].callback = "admit"
          PROVE  onboarding'[<<ctx'[x].db, ctx'[x].branch>>] = [pc |-> "begun", ctx |-> x]
      <4>1. CASE x = c
        BY <1>4, <3>1, <3>2, <3>4, <4>1
      <4>2. CASE x # c
        <5>1. ctx'[x] = ctx[x]
          BY <1>4, <3>1, <3>2, <4>2
        <5> QED
          BY <1>5, <2>2, <3>4, <3>5, <5>1
      <4> QED
        BY <4>1, <4>2
    <3>6. \A j \in Key : onboarding'[j].pc \in {"running", "start"} => ctx[onboarding'[j].ctx].open
      BY <1>3, <3>3, <3>4
    <3> QED
      BY <1>2, <1>4, <2>1, <3>1, <3>2, <3>4, <3>5, <3>6, CallbackMoves
  <2>3. CASE onboarding[k].pc # "none"
    <3> DEFINE t == [ctx[c] EXCEPT !.callback = "none", !.branch = None]
    <3>1. ctx' = [ctx EXCEPT ![c] = t] /\ onboarding' = onboarding
      BY <1>7, <2>3 DEF BeginOnboarding
    <3>2. /\ t \in TenantCtx /\ t.callback = "none"
          /\ t.db = ctx[c].db /\ t.open = ctx[c].open /\ t.stopping = ctx[c].stopping
          /\ t.subscribed = ctx[c].subscribed /\ t.responding = ctx[c].responding
      BY <1>1 DEF TenantCtx
    <3> HIDE DEF t
    <3>3. \A x \in Ctx : ctx'[x].callback = "admit" =>
            onboarding'[<<ctx'[x].db, ctx'[x].branch>>] = [pc |-> "begun", ctx |-> x]
      BY <1>4, <1>5, <3>1, <3>2
    <3> QED
      BY <1>1, <1>2, <1>3, <1>4, <3>1, <3>2, <3>3, CallbackMoves
  <2> QED
    BY <2>2, <2>3
<1>8. CASE AdmitOnboarding(c)
  <2> DEFINE t == [ctx[c] EXCEPT !.callback = "none", !.branch = None]
             o == IF ctx[c].stopping THEN NotOnboarding ELSE [onboarding[k] EXCEPT !.pc = "running"]
  <2>1. ctx' = [ctx EXCEPT ![c] = t] /\ onboarding' = [onboarding EXCEPT ![k] = o]
    BY <1>8 DEF AdmitOnboarding
  <2>2. ctx[c].callback = "admit" /\ ctx[c].db \in Db /\ ctx[c].db # None
    BY <1>8, CallbackKey, TopologyAssumption DEF AdmitOnboarding
  <2>3. onboarding[k] = [pc |-> "begun", ctx |-> c] /\ k \in Key
    BY <1>5, <2>2
  <2>4. /\ t \in TenantCtx /\ t.callback = "none"
        /\ t.db = ctx[c].db /\ t.open = ctx[c].open /\ t.stopping = ctx[c].stopping
        /\ t.subscribed = ctx[c].subscribed /\ t.responding = ctx[c].responding
    BY <1>1 DEF TenantCtx
  <2>5. ~ctx[c].stopping => ctx[c].open
    <3>1. ~ctx[c].stopping => tenants[ctx[c].db] = c
      BY <1>1, <2>2 DEF CtxOK
    <3> QED
      BY <2>2, <3>1, TopologyAssumption DEF TInv, TenantOK
  <2>6. o = NotOnboarding \/ (o = [pc |-> "running", ctx |-> c] /\ ~ctx[c].stopping)
    BY <2>3
  <2>7. o \in Onboarding /\ (o.pc \in {"running", "start"} => ctx[o.ctx].open)
    BY <2>5, <2>6 DEF Onboarding, NotOnboarding
  <2> HIDE DEF t, o
  <2>8. /\ onboarding' \in [Key -> Onboarding] /\ onboarding'[k] = o
        /\ \A j \in Key \ {k} : onboarding'[j] = onboarding[j]
    BY <1>1, <2>1, <2>3, <2>7
  <2>9. ASSUME NEW x \in Ctx, ctx'[x].callback = "admit"
        PROVE  onboarding'[<<ctx'[x].db, ctx'[x].branch>>] = [pc |-> "begun", ctx |-> x]
    <3>1. x # c /\ ctx'[x] = ctx[x]
      BY <1>4, <2>1, <2>4, <2>9
    <3>2. onboarding[<<ctx[x].db, ctx[x].branch>>] = [pc |-> "begun", ctx |-> x]
      BY <1>5, <2>9, <3>1
    <3>3. <<ctx[x].db, ctx[x].branch>> # k
      BY <2>3, <3>1, <3>2
    <3> QED
      BY <1>5, <2>8, <2>9, <3>1, <3>2, <3>3
  <2>10. \A j \in Key : onboarding'[j].pc \in {"running", "start"} => ctx[onboarding'[j].ctx].open
    BY <1>3, <2>7, <2>8
  <2> QED
    BY <1>2, <1>4, <2>1, <2>4, <2>8, <2>9, <2>10, CallbackMoves
<1> QED
  BY <1>6, <1>7, <1>8

(* The reconcile responder's callback touches nothing but itself.          *)
LEMMA AnswerKeeps ==
  ASSUME TInv, NEW c \in Ctx, ReceiveReconcile(c) \/ AnswerReconcile(c)
  PROVE  TInv'
<1>1. PICK to \in BOOLEAN :
       /\ ctx' = [ctx EXCEPT ![c].reconciling = to]
       /\ OnboardStep /\ UNCHANGED <<active, handles, worker, onboarding>>
  BY DEF ReceiveReconcile, AnswerReconcile
<1> DEFINE t == [ctx[c] EXCEPT !.reconciling = to]
<1>2. /\ ctx' = [ctx EXCEPT ![c] = t]
      /\ UNCHANGED <<registry, active, tenants, handles, worker, caches, consumer, onboarding, rec,
                     unhealthy, cancelled>>
  BY <1>1 DEF OnboardStep
<1>3. ctx \in [Ctx -> TenantCtx] /\ ctx[c] \in TenantCtx /\ \A x \in Ctx : CtxOK(x)
  BY DEF TInv, TypeOK
<1>4. /\ t \in TenantCtx /\ t.db = ctx[c].db /\ t.open = ctx[c].open /\ t.stopping = ctx[c].stopping
      /\ t.callback = ctx[c].callback /\ t.branch = ctx[c].branch
      /\ t.subscribed = ctx[c].subscribed /\ t.responding = ctx[c].responding
  BY <1>3 DEF TenantCtx
<1> HIDE DEF t
<1>5. ctx' \in [Ctx -> TenantCtx] /\ ctx'[c] = t /\ \A x \in Ctx \ {c} : ctx'[x] = ctx[x]
  BY <1>2, <1>3, <1>4
<1>6. \A x \in Ctx : /\ ctx'[x].db = ctx[x].db /\ ctx'[x].open = ctx[x].open
                     /\ ctx'[x].stopping = ctx[x].stopping /\ ctx'[x].subscribed = ctx[x].subscribed
                     /\ ctx'[x].responding = ctx[x].responding
                     /\ ctx'[x].callback = ctx[x].callback /\ ctx'[x].branch = ctx[x].branch
  BY <1>4, <1>5
<1>7. ctx'[c].callback # "none" => ctx[c].db # None /\ ctx'[c].branch \in Branch
  BY <1>3, <1>6 DEF CtxOK
<1>8. \A x \in Ctx : ctx'[x].callback = "admit" =>
        onboarding'[<<ctx'[x].db, ctx'[x].branch>>] = [pc |-> "begun", ctx |-> x]
  BY <1>2, <1>3, <1>6 DEF CtxOK
<1>9. /\ onboarding' \in [Key -> Onboarding]
      /\ \A k \in Key : onboarding'[k].pc \in {"running", "start"} => ctx[onboarding'[k].ctx].open
  BY <1>2 DEF TInv, TypeOK, OnboardOK
<1> QED
  BY <1>2, <1>5, <1>6, <1>7, <1>8, <1>9, CallbackMoves

------------------------------------------------------------------------------
(* startBranch, and the goroutine that onboards a branch.                  *)

(* RunOK in the next state, given the tenants and the reconciler of this.  *)
RunsOn(w) ==
  worker'[w].pc # "done" =>
    /\ handles'[w[1]] = w[2] \/ w \in rec.waiting
    /\ worker'[w].ctx = CtxOf(w[1][1])
    /\ worker'[w].loaded \in {None, CtxOf(w[1][1])}

(* A branch without a handle has a goroutine to take: at most one of its   *)
(* workers still runs, and that one is being waited for.                   *)
LEMMA FreeSlot ==
  ASSUME TInv, NEW k \in Key, handles[k] = None
  PROVE  \E s \in Slot : ~Alive(<<k, s>>)
<1>1. PICK s, t \in Slot : s # t
  BY SlotAssumption
<1>2. \A r \in Slot : Alive(<<k, r>>) => <<k, r>> \in rec.waiting
  <2> SUFFICES ASSUME NEW r \in Slot, Alive(<<k, r>>) PROVE <<k, r>> \in rec.waiting
    OBVIOUS
  <2>1. RunOK(<<k, r>>)
    BY DEF TInv
  <2> QED
    BY <2>1, TopologyAssumption DEF RunOK
<1>3. \A v, w \in rec.waiting : v[1] = w[1] => v = w
  BY DEF TInv, RecOK
<1> QED
  BY <1>1, <1>2, <1>3

(* startBranch starts a worker for the present tenant only.                *)
LEMMA BranchStarts ==
  ASSUME TInv, NEW c \in Ctx, NEW k \in Key, StartBranch(c, k)
  PROVE  /\ handles' \in [Key -> Slot \cup {None}] /\ worker' \in [Key \X Slot -> WorkerState]
         /\ \A w \in Key \X Slot : RunsOn(w)
         /\ \A j \in Key : handles'[j] # None => tenants[j[1]] # None
<1>1. /\ handles \in [Key -> Slot \cup {None}] /\ worker \in [Key \X Slot -> WorkerState]
      /\ (\A w \in Key \X Slot : RunOK(w)) /\ (\A j \in Key : HandleOK(j)) /\ RecOK
  BY DEF TInv, TypeOK
<1>2. CASE UNCHANGED <<handles, worker>>
  BY <1>1, <1>2 DEF RunOK, RunsOn, Alive, HandleOK
<1>3. CASE tenants[k[1]] = c /\ handles[k] = None
  <2> DEFINE s == CHOOSE s \in Slot : ~Alive(<<k, s>>)
             n == [Done EXCEPT !.pc = "starting", !.ctx = c]
  <2>1. s \in Slot /\ ~Alive(<<k, s>>)
    BY <1>3, FreeSlot
  <2>2. /\ handles' = [handles EXCEPT ![k] = s]
        /\ worker' = [worker EXCEPT ![<<k, s>>] = n]
    BY <1>3 DEF StartBranch
  <2>3. n \in WorkerState /\ n.ctx = c /\ n.loaded = None
    BY DEF Done, WorkerState
  <2>4. CtxOf(k[1]) = c
    BY <1>1, <1>3, TopologyAssumption DEF CtxOf, Removing, RecOK
  <2> HIDE DEF s, n
  <2>5. handles' \in [Key -> Slot \cup {None}] /\ worker' \in [Key \X Slot -> WorkerState]
    BY <1>1, <2>1, <2>2, <2>3
  <2>6. ASSUME NEW w \in Key \X Slot PROVE RunsOn(w)
    <3>1. CASE w = <<k, s>>
      <4>1. worker'[w] = n /\ handles'[k] = s /\ w[1] = k /\ w[2] = s
        BY <1>1, <2>1, <2>2, <3>1
      <4> QED
        BY <2>3, <2>4, <4>1 DEF RunsOn
    <3>2. CASE w # <<k, s>>
      <4>1. worker'[w] = worker[w] /\ RunOK(w) /\ w[1] \in Key /\ w = <<w[1], w[2]>>
        BY <1>1, <2>2, <3>2, WorkerKey
      <4>2. CASE w[1] = k
        <5>1. Alive(w) => w \in rec.waiting
          BY <1>3, <4>1, <4>2, WorkerKey, TopologyAssumption DEF RunOK
        <5> QED
          BY <4>1, <5>1 DEF RunsOn, RunOK, Alive
      <4>3. CASE w[1] # k
        <5>1. handles'[w[1]] = handles[w[1]]
          BY <1>1, <2>2, <4>1, <4>3
        <5> QED
          BY <4>1, <5>1 DEF RunsOn, RunOK, Alive
      <4> QED
        BY <4>2, <4>3
    <3> QED
      BY <3>1, <3>2
  <2>7. ASSUME NEW j \in Key, handles'[j] # None PROVE tenants[j[1]] # None
    <3>1. CASE j = k
      BY <1>3, <3>1, TopologyAssumption
    <3>2. CASE j # k
      <4>1. handles'[j] = handles[j]
        BY <1>1, <2>2, <3>2
      <4> QED
        BY <1>1, <2>7, <4>1 DEF HandleOK
    <3> QED
      BY <3>1, <3>2
  <2> QED
    BY <2>5, <2>6, <2>7
<1> QED
  BY <1>2, <1>3 DEF StartBranch

(* Both steps of an onboarding goroutine keep the invariant: its tenant's  *)
(* database stays open until it has ended.                                 *)
LEMMA OnboardingKeeps ==
  ASSUME TInv, NEW k \in Key, OnboardingNext(k)
  PROVE  TInv'
<1>1. /\ TypeOK /\ onboarding \in [Key -> Onboarding] /\ onboarding[k] \in Onboarding
      /\ active \in [Db -> SUBSET Branch] /\ k[1] \in Db /\ k[2] \in Branch
      /\ RecOK /\ (\A x \in Ctx : CtxOK(x))
  BY DEF TInv, TypeOK, Key
<1>2. /\ UNCHANGED <<registry, tenants, caches, consumer, rec, unhealthy, cancelled, ctx>>
      /\ onboarding[k].pc \in {"running", "start"}
  BY DEF OnboardingNext, OnboardBranch, StartOnboarded, OnboardStep
<1>3. onboarding[k].ctx \in Ctx /\ ctx[onboarding[k].ctx].open
  BY <1>1, <1>2 DEF Onboarding, NotOnboarding, TInv, OnboardOK
<1>4. /\ [onboarding[k] EXCEPT !.pc = "start"] = [pc |-> "start", ctx |-> onboarding[k].ctx]
      /\ NotOnboarding \in Onboarding /\ NotOnboarding.pc = "none"
  BY <1>1, <1>2 DEF Onboarding, NotOnboarding
<1>5. ASSUME NEW o, onboarding' = [onboarding EXCEPT ![k] = o],
             o = NotOnboarding \/ o = [pc |-> "start", ctx |-> onboarding[k].ctx],
             active' \in [Db -> SUBSET Branch],
             handles' \in [Key -> Slot \cup {None}], worker' \in [Key \X Slot -> WorkerState],
             \A w \in Key \X Slot : RunsOn(w),
             \A j \in Key : handles'[j] # None => tenants[j[1]] # None
      PROVE  TInv'
  <2>1. /\ o \in Onboarding /\ (o.pc \in {"running", "start"} => o.ctx = onboarding[k].ctx)
    BY <1>3, <1>4, <1>5 DEF Onboarding
  <2>2. /\ onboarding' \in [Key -> Onboarding] /\ onboarding'[k] = o
        /\ \A j \in Key \ {k} : onboarding'[j] = onboarding[j]
    BY <1>1, <1>5, <2>1
  <2>3. TypeOK'
    BY <1>1, <1>2, <1>5, <2>2 DEF TypeOK
  <2>4. RecOK' /\ (\A d \in Db : TenantOK(d)')
    BY <1>2 DEF TInv, RecOK, Silent, Adding, TenantOK
  <2>5. ASSUME NEW x \in Ctx PROVE CtxOK(x)'
    <3>1. CtxOK(x) /\ ctx'[x] = ctx[x]
      BY <1>1, <1>2
    <3>2. ctx[x].callback = "admit" =>
            onboarding'[<<ctx[x].db, ctx[x].branch>>] = onboarding[<<ctx[x].db, ctx[x].branch>>]
      BY <1>2, <2>2, <3>1, CallbackKey DEF CtxOK
    <3> QED
      BY <1>2, <3>1, <3>2 DEF CtxOK
  <2>6. \A w \in Key \X Slot : RunOK(w)'
    BY <1>2, <1>5 DEF RunsOn, RunOK, Alive, CtxOf, Removing
  <2>7. \A j \in Key : HandleOK(j)' /\ CacheOK(j)'
    BY <1>2, <1>5 DEF TInv, HandleOK, CacheOK
  <2>8. \A j \in Key : OnboardOK(j)'
    BY <1>2, <1>3, <2>1, <2>2 DEF TInv, OnboardOK
  <2> QED
    BY <2>3, <2>4, <2>5, <2>6, <2>7, <2>8 DEF TInv
<1>6. CASE OnboardBranch(k)
  <2>1. UNCHANGED <<handles, worker>>
    BY <1>6 DEF OnboardBranch
  <2>2. /\ handles' \in [Key -> Slot \cup {None}] /\ worker' \in [Key \X Slot -> WorkerState]
        /\ (\A w \in Key \X Slot : RunsOn(w))
        /\ \A j \in Key : handles'[j] # None => tenants[j[1]] # None
    BY <1>1, <2>1 DEF TInv, TypeOK, RunOK, RunsOn, Alive, HandleOK
  <2>3. active' \in [Db -> SUBSET Branch]
    BY <1>1, <1>6 DEF OnboardBranch
  <2>4. \/ onboarding' = [onboarding EXCEPT ![k] = [onboarding[k] EXCEPT !.pc = "start"]]
        \/ onboarding' = [onboarding EXCEPT ![k] = NotOnboarding]
    BY <1>6 DEF OnboardBranch
  <2> QED
    BY <1>4, <1>5, <2>2, <2>3, <2>4
<1>7. CASE StartOnboarded(k)
  <2>1. /\ StartBranch(onboarding[k].ctx, k) /\ active' = active
        /\ onboarding' = [onboarding EXCEPT ![k] = NotOnboarding]
    BY <1>7 DEF StartOnboarded
  <2>2. /\ handles' \in [Key -> Slot \cup {None}] /\ worker' \in [Key \X Slot -> WorkerState]
        /\ (\A w \in Key \X Slot : RunsOn(w))
        /\ \A j \in Key : handles'[j] # None => tenants[j[1]] # None
    BY <1>3, <2>1, BranchStarts
  <2> QED
    BY <1>1, <1>5, <2>1, <2>2
<1> QED
  BY <1>6, <1>7 DEF OnboardingNext

------------------------------------------------------------------------------
(* reconcile and stop.                                                     *)

(* A step of the reconciler that changes nothing but its locals and what   *)
(* the probe reads.                                                        *)
LEMMA ReconcilerMoves ==
  ASSUME TInv,
         UNCHANGED <<registry, active, tenants, ctx, handles, worker, caches, consumer, onboarding,
                     cancelled>>,
         unhealthy' \in BOOLEAN, rec' \in RecState, RecOK',
         rec.pc \notin {"cancel", "drain"}, rec'.pc \notin {"cancel", "drain"},
         \A w \in rec.waiting : Alive(w) => w \in rec'.waiting
  PROVE  TInv'
<1>1. TypeOK'
  BY DEF TInv, TypeOK
<1>2. (\A d \in Db : TenantOK(d)') /\ (\A c \in Ctx : CtxOK(c)')
  BY DEF TInv, TenantOK, CtxOK
<1>3. ASSUME NEW w \in Key \X Slot PROVE RunOK(w)'
  <2>1. RunOK(w)
    BY DEF TInv
  <2>2. CtxOf(w[1][1])' = tenants[w[1][1]] /\ CtxOf(w[1][1]) = tenants[w[1][1]]
    BY DEF CtxOf, Removing
  <2> QED
    BY <2>1, <2>2 DEF RunOK, Alive
<1>4. \A k \in Key : HandleOK(k)' /\ OnboardOK(k)' /\ CacheOK(k)'
  BY DEF TInv, HandleOK, OnboardOK, CacheOK
<1> QED
  BY <1>1, <1>2, <1>3, <1>4 DEF TInv

(* Where the reconciler rests, it has nothing to do.                       *)
LEMMA RestingOK ==
  ASSUME NEW pc \in {"idle", "stopped", "exited"}, NEW first \in BOOLEAN
  PROVE  /\ Resting(pc, first) \in RecState /\ Resting(pc, first).pc = pc
         /\ Resting(pc, first).todo = {} /\ Resting(pc, first).waiting = {}
<1>1. NoTarget \in [Db -> Version \cup {None}]
  BY DEF NoTarget
<1> QED
  BY <1>1 DEF Resting, RecState

(* It comes to rest.                                                       *)
LEMMA Rests ==
  ASSUME TInv,
         UNCHANGED <<registry, active, tenants, ctx, handles, worker, caches, consumer, onboarding,
                     cancelled>>,
         unhealthy' \in BOOLEAN, NEW pc \in {"idle", "stopped", "exited"}, NEW first \in BOOLEAN,
         rec' = Resting(pc, first), rec.pc \in {"idle", "query", "stop"}
  PROVE  TInv'
<1>1. rec' \in RecState /\ rec'.pc = pc /\ rec'.todo = {} /\ rec'.waiting = {}
  BY RestingOK
<1>2. RecOK'
  BY <1>1 DEF RecOK
<1>3. rec.waiting = {}
  BY DEF TInv, RecOK
<1> QED
  BY <1>1, <1>2, <1>3, ReconcilerMoves

(* The steps of reconcile and stop between their calls keep the invariant. *)
LEMMA QuietKeeps ==
  ASSUME TInv,
         \/ LoadTenants \/ LoadTenantsFails \/ AddTenants \/ ReconcileTenants \/ SweepWait
         \/ Finish \/ StopTakesOver \/ Stopped
         \/ \E d \in Db : OpenFails(d) \/ QueryActiveBranches(d) \/ QueryFails(d)
  PROVE  TInv'
<1>1. rec \in RecState /\ RecOK /\ TypeOK
  BY DEF TInv, TypeOK
<1>2. ASSUME NEW r, rec' = r, r \in RecState, r.pc \notin {"cancel", "drain", "subscribe", "answer"},
             rec.pc \notin {"cancel", "drain"}, r.waiting = {},
             UNCHANGED <<registry, active, tenants, ctx, handles, worker, caches, consumer, onboarding,
                         unhealthy, cancelled>>,
             \A w \in rec.waiting : ~Alive(w),
             r.pc = "start" => r.db \in Db /\ tenants[r.db] # None,
             \A d \in r.todo : tenants[d] = None <=> r.pc = "add"
      PROVE  TInv'
  <2>1. unhealthy' \in BOOLEAN
    BY <1>1, <1>2 DEF TypeOK
  <2>2. RecOK'
    BY <1>2 DEF RecOK, Adding
  <2> QED
    BY <1>2, <2>1, <2>2, ReconcilerMoves
<1>3. rec.pc \notin {"cancel", "drain", "sweepCancel", "sweepWait"} => rec.waiting = {}
  BY <1>1 DEF RecOK
<1>4. rec.pc \notin {"cancel", "drain"} =>
        \A d \in rec.todo : tenants[d] = None <=> rec.pc \in {"add", "subscribe", "answer"}
  BY <1>1 DEF RecOK, Adding
<1>5. CASE LoadTenants
  <2> DEFINE t == {d \in Db : tenants[d] # None /\ ctx[tenants[d]].version # registry[d]}
             r == [rec EXCEPT !.pc = "remove", !.target = registry, !.todo = t]
  <2>1. rec' = r /\ rec.pc = "idle" /\ t \subseteq Db /\ registry \in [Db -> Version \cup {None}]
    BY <1>1, <1>5 DEF LoadTenants, RecStep, TypeOK
  <2>2. r \in RecState /\ r.pc = "remove" /\ r.waiting = {} /\ r.todo = t
    BY <1>1, <1>3, <2>1 DEF RecState
  <2>3. \A d \in t : tenants[d] # None
    OBVIOUS
  <2> HIDE DEF r, t
  <2> QED
    BY <1>2, <1>3, <1>5, <2>1, <2>2, <2>3 DEF LoadTenants, RecStep
<1>6. CASE LoadTenantsFails
  <2>1. /\ rec.pc = "idle" /\ unhealthy' \in BOOLEAN
        /\ rec' = Resting("idle", FALSE) \/ rec' = Resting("exited", FALSE)
    BY <1>6 DEF LoadTenantsFails
  <2> QED
    BY <1>6, <2>1, Rests DEF LoadTenantsFails
<1>7. CASE AddTenants
  <2> DEFINE t == {d \in Db : rec.target[d] # None /\ tenants[d] = None}
             r == [rec EXCEPT !.pc = "add", !.todo = t]
  <2>1. rec' = r /\ rec.pc = "remove" /\ t \subseteq Db
    BY <1>7 DEF AddTenants, RecStep
  <2>2. r \in RecState /\ r.pc = "add" /\ r.waiting = {} /\ r.todo = t
    BY <1>1, <1>3, <2>1 DEF RecState
  <2>3. \A d \in t : tenants[d] = None
    OBVIOUS
  <2> HIDE DEF r, t
  <2> QED
    BY <1>2, <1>3, <1>7, <2>1, <2>2, <2>3 DEF AddTenants, RecStep
<1>8. CASE ReconcileTenants
  <2> DEFINE t == {d \in Db : tenants[d] # None}
             r == [rec EXCEPT !.pc = "query", !.target = NoTarget, !.todo = t]
  <2>1. rec' = r /\ rec.pc = "add" /\ t \subseteq Db /\ NoTarget \in [Db -> Version \cup {None}]
    BY <1>8 DEF ReconcileTenants, RecStep, NoTarget
  <2>2. r \in RecState /\ r.pc = "query" /\ r.waiting = {} /\ r.todo = t
    BY <1>1, <1>3, <2>1 DEF RecState
  <2>3. \A d \in t : tenants[d] # None
    OBVIOUS
  <2> HIDE DEF r, t
  <2> QED
    BY <1>2, <1>3, <1>8, <2>1, <2>2, <2>3 DEF ReconcileTenants, RecStep
<1>9. CASE SweepWait
  <2> DEFINE r == [rec EXCEPT !.pc = "query", !.waiting = {}]
  <2>1. rec' = r /\ rec.pc = "sweepWait" /\ \A w \in rec.waiting : ~Alive(w)
    BY <1>9 DEF SweepWait, RecStep
  <2>2. r \in RecState /\ r.pc = "query" /\ r.waiting = {} /\ r.todo = rec.todo
    BY <1>1, <2>1 DEF RecState
  <2> HIDE DEF r
  <2> QED
    BY <1>2, <1>4, <1>9, <2>1, <2>2 DEF SweepWait, RecStep
<1>10. CASE Finish
  <2>1. rec.pc = "query" /\ unhealthy' \in BOOLEAN
    BY <1>1, <1>10 DEF Finish, RecState
  <2> QED
    BY <1>10, <2>1, Rests DEF Finish
<1>11. CASE StopTakesOver
  <2> DEFINE t == {d \in Db : tenants[d] # None}
             r == [rec EXCEPT !.pc = "stop", !.todo = t]
  <2>1. rec' = r /\ rec.pc = "idle" /\ t \subseteq Db
    BY <1>11 DEF StopTakesOver, RecStep
  <2>2. r \in RecState /\ r.pc = "stop" /\ r.waiting = {} /\ r.todo = t
    BY <1>1, <1>3, <2>1 DEF RecState
  <2>3. \A d \in t : tenants[d] # None
    OBVIOUS
  <2> HIDE DEF r, t
  <2> QED
    BY <1>2, <1>3, <1>11, <2>1, <2>2, <2>3 DEF StopTakesOver, RecStep
<1>12. CASE Stopped
  <2>1. rec.pc = "stop" /\ unhealthy' \in BOOLEAN
    BY <1>1, <1>12 DEF Stopped, RecStep, TypeOK
  <2> QED
    BY <1>12, <2>1, Rests DEF Stopped, RecStep
<1>13. ASSUME NEW d \in Db, OpenFails(d) PROVE TInv'
  <2> DEFINE r == [rec EXCEPT !.failed = TRUE, !.todo = rec.todo \ {d}]
  <2>1. rec' = r /\ rec.pc = "add"
    BY <1>13 DEF OpenFails, RecStep
  <2>2. r \in RecState /\ r.pc = "add" /\ r.waiting = {} /\ r.todo = rec.todo \ {d}
    BY <1>1, <1>3, <2>1 DEF RecState
  <2> HIDE DEF r
  <2> QED
    BY <1>2, <1>3, <1>4, <1>13, <2>1, <2>2 DEF OpenFails, RecStep
<1>14. ASSUME NEW d \in Db, QueryActiveBranches(d) PROVE TInv'
  <2> DEFINE r == [rec EXCEPT !.pc = "start", !.db = d, !.snapshot = active[d], !.left = active[d],
                              !.todo = rec.todo \ {d}]
  <2>1. rec' = r /\ rec.pc = "query" /\ d \in rec.todo /\ active[d] \in SUBSET Branch
    BY <1>1, <1>14 DEF QueryActiveBranches, RecStep, TypeOK
  <2>2. r \in RecState /\ r.pc = "start" /\ r.db = d /\ r.waiting = {} /\ r.todo = rec.todo \ {d}
    BY <1>1, <1>3, <2>1 DEF RecState
  <2> HIDE DEF r
  <2> QED
    BY <1>2, <1>3, <1>4, <1>14, <2>1, <2>2 DEF QueryActiveBranches, RecStep
<1>15. ASSUME NEW d \in Db, QueryFails(d) PROVE TInv'
  <2> DEFINE r == [rec EXCEPT !.failed = TRUE, !.todo = rec.todo \ {d}]
  <2>1. rec' = r /\ rec.pc = "query"
    BY <1>15 DEF QueryFails, RecStep
  <2>2. r \in RecState /\ r.pc = "query" /\ r.waiting = {} /\ r.todo = rec.todo \ {d}
    BY <1>1, <1>3, <2>1 DEF RecState
  <2> HIDE DEF r
  <2> QED
    BY <1>2, <1>3, <1>4, <1>15, <2>1, <2>2 DEF QueryFails, RecStep
<1> QED
  BY <1>5, <1>6, <1>7, <1>8, <1>9, <1>10, <1>11, <1>12, <1>13, <1>14, <1>15

(* The workers that are waited for are one per branch.                     *)
LEMMA HandledOnce ==
  ASSUME handles \in [Key -> Slot \cup {None}], NEW ks \in SUBSET Key
  PROVE  /\ Handled(ks) \in SUBSET (Key \X Slot)
         /\ \A v, w \in Handled(ks) : v[1] = w[1] => v = w
         /\ \A w \in Key \X Slot : w[1] \in ks /\ handles[w[1]] = w[2] => w \in Handled(ks)
<1>1. Handled(ks) \in SUBSET (Key \X Slot)
  BY DEF Handled
<1>2. \A w \in Handled(ks) : w = <<w[1], handles[w[1]]>>
  BY DEF Handled
<1>3. ASSUME NEW w \in Key \X Slot, w[1] \in ks, handles[w[1]] = w[2] PROVE w \in Handled(ks)
  <2>1. w = <<w[1], handles[w[1]]>> /\ handles[w[1]] # None
    BY <1>3, WorkerKey, TopologyAssumption
  <2> QED
    BY <1>3, <2>1 DEF Handled
<1> QED
  BY <1>1, <1>2, <1>3

(* removeTenant under r.mu: the workers that leave the maps are the ones   *)
(* that it will wait for, and its tenantCtx stops while it is open.        *)
LEMMA DetachKeeps ==
  ASSUME TInv, NEW d \in Db, NEW back \in {"remove", "add", "stop"}, NEW failed \in BOOLEAN,
         tenants[d] # None, rec.pc \notin {"cancel", "drain", "sweepCancel", "sweepWait"},
         \A e \in rec.todo \ {d} : tenants[e] = None <=> back = "add",
         back = "add" => failed /\ ~ctx[tenants[d]].responding,
         Detach(d, back, failed)
  PROVE  TInv'
<1> DEFINE c == tenants[d]
           t == [ctx[c] EXCEPT !.stopping = TRUE, !.subscribed = ctx[c].subscribed /\ ~failed,
                               !.expected = {}]
           ks == WorkersOf(d)
           r == [rec EXCEPT !.pc = "cancel", !.db = d, !.ctx = c, !.back = back,
                            !.failed = rec.failed \/ failed,
                            !.waiting = Handled(ks), !.todo = rec.todo \ {d}]
<1>1. /\ TypeOK /\ rec \in RecState /\ RecOK /\ ctx \in [Ctx -> TenantCtx]
      /\ tenants \in [Db -> Ctx \cup {None}] /\ handles \in [Key -> Slot \cup {None}]
      /\ caches \in [Key -> Ctx \cup {None}]
  BY DEF TInv, TypeOK
<1>2. /\ rec.waiting = {} /\ c \in Ctx /\ TenantOK(d) /\ CtxOK(c) /\ ctx[c] \in TenantCtx
      /\ ctx[c].db = d /\ ctx[c].open
  BY <1>1 DEF RecOK, TInv, TenantOK
<1>3. /\ tenants' = [tenants EXCEPT ![d] = None]
      /\ caches' = [k \in Key |-> IF k[1] = d THEN None ELSE caches[k]]
      /\ handles' = [k \in Key |-> IF k[1] = d THEN None ELSE handles[k]]
      /\ ctx' = [ctx EXCEPT ![c] = t]
      /\ rec' = r
      /\ UNCHANGED <<registry, active, worker, consumer, onboarding, unhealthy, cancelled>>
  BY DEF Detach
<1>4. /\ t \in TenantCtx /\ t.db = d /\ t.open /\ t.stopping
      /\ t.callback = ctx[c].callback /\ t.branch = ctx[c].branch
      /\ back = "add" => ~t.subscribed /\ ~t.responding
  BY <1>2 DEF TenantCtx
<1>5. /\ ks \in SUBSET Key
      /\ Handled(ks) \in SUBSET (Key \X Slot)
      /\ (\A v, w \in Handled(ks) : v[1] = w[1] => v = w)
      /\ \A w \in Key \X Slot : w[1] \in ks /\ handles[w[1]] = w[2] => w \in Handled(ks)
  <2>1. ks \in SUBSET Key
    BY DEF WorkersOf
  <2> QED
    BY <1>1, <2>1, HandledOnce
<1>6. \A w \in Key \X Slot : w[1] \in ks <=> w[1][1] = d
  BY WorkerKey DEF WorkersOf
<1> HIDE DEF ks
<1>7. /\ r \in RecState /\ r.pc = "cancel" /\ r.db = d /\ r.ctx = c /\ r.back = back
      /\ r.waiting = Handled(ks) /\ r.todo = rec.todo \ {d}
  BY <1>1, <1>2, <1>5 DEF RecState
<1> HIDE DEF t, r
<1>8. /\ ctx' \in [Ctx -> TenantCtx] /\ ctx'[c] = t /\ (\A x \in Ctx \ {c} : ctx'[x] = ctx[x])
      /\ tenants' \in [Db -> Ctx \cup {None}] /\ tenants'[d] = None
      /\ \A e \in Db \ {d} : tenants'[e] = tenants[e]
  BY <1>1, <1>2, <1>3, <1>4
<1>9. TypeOK'
  BY <1>1, <1>3, <1>7, <1>8 DEF TypeOK
<1>10. RecOK'
  <2>1. \A e \in rec.todo \ {d} : tenants'[e] = tenants[e]
    BY <1>1, <1>8 DEF RecState
  <2> QED
    BY <1>2, <1>3, <1>4, <1>5, <1>7, <1>8, <2>1 DEF RecOK, Silent, Adding
<1>11. ASSUME NEW e \in Db PROVE TenantOK(e)'
  <2> SUFFICES ASSUME tenants'[e] # None PROVE TenantOK(e)'
    BY DEF TenantOK
  <2>1. e # d /\ tenants'[e] = tenants[e] /\ TenantOK(e) /\ tenants[e] \in Ctx
    BY <1>1, <1>8 DEF TInv
  <2>2. tenants[e] # c
    BY <1>2, <2>1 DEF TenantOK
  <2> QED
    BY <1>8, <2>1, <2>2 DEF TenantOK
<1>12. ASSUME NEW x \in Ctx PROVE CtxOK(x)'
  <2>1. CtxOK(x)
    BY DEF TInv
  <2>2. CASE x = c
    BY <1>2, <1>3, <1>4, <1>7, <1>8, <2>1, <2>2, TopologyAssumption DEF CtxOK
  <2>3. CASE x # c
    <3>1. ctx'[x] = ctx[x] /\ ctx[x].db \in Db \cup {None}
      BY <1>1, <1>8, <2>3 DEF TenantCtx
    <3>2. ctx[x].db # None /\ ~ctx[x].stopping => ctx[x].db # d
      BY <2>1, <2>3 DEF CtxOK
    <3> QED
      BY <1>3, <1>8, <2>1, <3>1, <3>2 DEF CtxOK
  <2> QED
    BY <2>2, <2>3
<1>13. ASSUME NEW w \in Key \X Slot PROVE RunOK(w)'
  <2> SUFFICES ASSUME worker[w].pc # "done" PROVE RunOK(w)'
    BY <1>3 DEF RunOK, Alive
  <2>1. RunOK(w) /\ w[1] \in Key /\ w[1][1] \in Db
    BY WorkerKey DEF TInv
  <2>2. /\ handles[w[1]] = w[2] /\ worker[w].ctx = CtxOf(w[1][1])
        /\ worker[w].loaded \in {None, CtxOf(w[1][1])}
    BY <1>2, <2>1 DEF RunOK, Alive
  <2>3. CtxOf(w[1][1]) = tenants[w[1][1]]
    BY DEF CtxOf, Removing
  <2>4. CASE w[1][1] = d
    <3>1. CtxOf(w[1][1])' = c
      BY <1>3, <1>7, <2>4 DEF CtxOf, Removing
    <3>2. w \in rec'.waiting
      BY <1>3, <1>5, <1>6, <1>7, <2>2, <2>4
    <3> QED
      BY <1>3, <2>2, <2>3, <2>4, <3>1, <3>2 DEF RunOK
  <2>5. CASE w[1][1] # d
    <3>1. CtxOf(w[1][1])' = tenants[w[1][1]]
      BY <1>3, <1>7, <1>8, <2>1, <2>5 DEF CtxOf, Removing
    <3>2. handles'[w[1]] = handles[w[1]]
      BY <1>3, <2>1, <2>5
    <3> QED
      BY <1>3, <2>2, <2>3, <3>1, <3>2 DEF RunOK
  <2> QED
    BY <2>4, <2>5
<1>14. ASSUME NEW k \in Key PROVE HandleOK(k)' /\ OnboardOK(k)' /\ CacheOK(k)'
  <2>1. HandleOK(k) /\ OnboardOK(k) /\ CacheOK(k) /\ k[1] \in Db /\ onboarding[k] \in Onboarding
    BY <1>1 DEF TInv, Key, TypeOK
  <2>2. OnboardOK(k)'
    <3>1. \A x \in Ctx : ctx[x].open => ctx'[x].open
      BY <1>4, <1>8
    <3> QED
      BY <1>3, <2>1, <3>1 DEF OnboardOK, Onboarding, NotOnboarding
  <2>3. CASE k[1] = d
    BY <1>3, <1>8, <2>2, <2>3 DEF HandleOK, CacheOK
  <2>4. CASE k[1] # d
    BY <1>3, <1>8, <2>1, <2>2, <2>4 DEF HandleOK, CacheOK
  <2> QED
    BY <2>3, <2>4
<1> QED
  BY <1>9, <1>10, <1>11, <1>12, <1>13, <1>14 DEF TInv

(* Every call of removeTenant detaches a tenant.                           *)
LEMMA RemovalsKeep ==
  ASSUME TInv, SubscribeFails \/ \E d \in Db : RemoveTenant(d) \/ StopTenant(d)
  PROVE  TInv'
<1>1. rec \in RecState /\ RecOK
  BY DEF TInv, TypeOK
<1>2. ASSUME NEW d \in Db, RemoveTenant(d) \/ StopTenant(d) PROVE TInv'
  <2>1. /\ rec.pc \in {"remove", "stop"} /\ d \in rec.todo
        /\ Detach(d, "remove", FALSE) \/ Detach(d, "stop", FALSE)
    BY <1>2 DEF RemoveTenant, StopTenant
  <2>2. \A e \in rec.todo : tenants[e] # None
    BY <1>1, <2>1 DEF RecOK, Adding
  <2> QED
    BY <2>1, <2>2, DetachKeeps
<1>3. CASE SubscribeFails
  <2>1. rec.pc \in {"subscribe", "answer"} /\ Detach(rec.db, "add", TRUE)
    BY <1>3 DEF SubscribeFails
  <2>2. /\ rec.db \in Db /\ tenants[rec.db] # None /\ ~ctx[tenants[rec.db]].responding
        /\ \A e \in rec.todo : tenants[e] = None
    BY <1>1, <2>1 DEF RecOK, Adding
  <2> QED
    BY <2>1, <2>2, DetachKeeps
<1> QED
  BY <1>2, <1>3

(* A worker that is cancelled goes on for the same tenantCtx.              *)
LEMMA CancelledWorkers ==
  ASSUME TInv, NEW ws, CancelWorkers(ws)
  PROVE  /\ worker' \in [Key \X Slot -> WorkerState]
         /\ \A w \in Key \X Slot : /\ worker'[w].pc = worker[w].pc /\ worker'[w].ctx = worker[w].ctx
                                   /\ worker'[w].loaded = worker[w].loaded
<1>1. worker \in [Key \X Slot -> WorkerState]
  BY DEF TInv, TypeOK
<1>2. ASSUME NEW w \in Key \X Slot
      PROVE  /\ worker'[w] \in WorkerState
             /\ worker'[w].pc = worker[w].pc /\ worker'[w].ctx = worker[w].ctx
             /\ worker'[w].loaded = worker[w].loaded
  <2> DEFINE s == worker[w]
             t == [s EXCEPT !.cancelled = TRUE]
  <2>1. CASE worker'[w] = s
    BY <1>1, <2>1
  <2>2. CASE worker'[w] = t /\ s.pc # "done"
    <3>1. s \in [pc : {s.pc}, ctx : Ctx, loaded : {s.loaded}, cancelled : BOOLEAN] /\ s \in WorkerState
      BY <1>1, <2>2 DEF WorkerState, Done
    <3> HIDE DEF s
    <3>2. t \in [pc : {s.pc}, ctx : {s.ctx}, loaded : {s.loaded}, cancelled : BOOLEAN]
      BY <3>1
    <3>3. t.pc = s.pc /\ t.ctx = s.ctx /\ t.loaded = s.loaded
      BY <3>2
    <3>4. t \in WorkerState
      BY <2>2, <3>1, <3>2 DEF WorkerState, Done
    <3> QED
      BY <2>2, <3>3, <3>4 DEF s
  <2> QED
    BY <2>1, <2>2 DEF CancelWorkers, Alive
<1>3. worker' = [w \in Key \X Slot |-> worker'[w]]
  BY DEF CancelWorkers
<1> QED
  BY <1>2, <1>3

(* A step that moves a tenantCtx with a tenant, but neither who it belongs *)
(* to, nor whether it is open or stopping, nor its callback.               *)
LEMMA CtxMoves ==
  ASSUME TInv, NEW c \in Ctx, NEW t \in TenantCtx, ctx' = [ctx EXCEPT ![c] = t],
         t.db = ctx[c].db, t.db # None, t.open = ctx[c].open, t.stopping = ctx[c].stopping,
         t.callback = ctx[c].callback, t.branch = ctx[c].branch,
         t.subscribed \/ t.responding => t.open,
         UNCHANGED <<tenants, onboarding>>,
         rec.pc \in {"cancel", "drain"} => rec'.pc \in {"cancel", "drain"} /\ rec'.ctx = rec.ctx
  PROVE  /\ ctx' \in [Ctx -> TenantCtx] /\ ctx'[c] = t
         /\ \A x \in Ctx : /\ ctx'[x].db = ctx[x].db /\ ctx'[x].open = ctx[x].open
                           /\ ctx'[x].stopping = ctx[x].stopping
         /\ (\A d \in Db : TenantOK(d)') /\ (\A x \in Ctx : CtxOK(x)') /\ (\A k \in Key : OnboardOK(k)')
<1>1. ctx \in [Ctx -> TenantCtx] /\ tenants \in [Db -> Ctx \cup {None}] /\ onboarding \in [Key -> Onboarding]
  BY DEF TInv, TypeOK
<1>2. ctx' \in [Ctx -> TenantCtx] /\ ctx'[c] = t /\ (\A x \in Ctx \ {c} : ctx'[x] = ctx[x])
  BY <1>1
<1>3. \A x \in Ctx : /\ ctx'[x].db = ctx[x].db /\ ctx'[x].open = ctx[x].open
                     /\ ctx'[x].stopping = ctx[x].stopping
                     /\ ctx'[x].callback = ctx[x].callback /\ ctx'[x].branch = ctx[x].branch
  BY <1>2
<1>4. \A d \in Db : TenantOK(d)'
  BY <1>1, <1>3 DEF TInv, TenantOK
<1>5. ASSUME NEW x \in Ctx PROVE CtxOK(x)'
  <2>1. CtxOK(x)
    BY DEF TInv
  <2>2. CASE x = c
    BY <1>2, <2>1, <2>2 DEF CtxOK
  <2>3. CASE x # c
    BY <1>2, <2>1, <2>3 DEF CtxOK
  <2> QED
    BY <2>2, <2>3
<1>6. ASSUME NEW k \in Key PROVE OnboardOK(k)'
  <2>1. OnboardOK(k) /\ onboarding[k] \in Onboarding
    BY <1>1 DEF TInv
  <2> QED
    BY <1>3, <2>1 DEF OnboardOK, Onboarding, NotOnboarding
<1> QED
  BY <1>2, <1>3, <1>4, <1>5, <1>6

(* The removed tenant's workers are cancelled and its responders           *)
(* unsubscribed.                                                           *)
LEMMA CancelKeeps ==
  ASSUME TInv, CancelAndUnsubscribe
  PROVE  TInv'
<1> DEFINE c == rec.ctx
           t == IF rec.back = "add"
                  THEN ctx[c]
                  ELSE [ctx[c] EXCEPT !.subscribed = FALSE, !.responding = FALSE]
           r == [rec EXCEPT !.pc = "drain"]
<1>1. /\ TypeOK /\ rec \in RecState /\ RecOK /\ rec.pc = "cancel" /\ c \in Ctx /\ ctx[c] \in TenantCtx
      /\ ctx[c].db \in Db /\ ctx[c].db # None /\ (rec.back = "add" => Silent(c))
      /\ ctx \in [Ctx -> TenantCtx]
  BY TopologyAssumption DEF TInv, TypeOK, RecOK, CancelAndUnsubscribe
<1>2. /\ CancelWorkers(rec.waiting) /\ ctx' = [ctx EXCEPT ![c] = t] /\ rec' = r
      /\ UNCHANGED <<registry, active, tenants, handles, caches, consumer, onboarding, unhealthy, cancelled>>
  BY <1>1 DEF CancelAndUnsubscribe
<1>3. /\ t \in TenantCtx /\ t.db = ctx[c].db /\ t.open = ctx[c].open /\ t.stopping = ctx[c].stopping
      /\ t.callback = ctx[c].callback /\ t.branch = ctx[c].branch /\ ~t.subscribed /\ ~t.responding
  BY <1>1 DEF TenantCtx, Silent
<1>4. /\ r \in RecState /\ r.pc = "drain" /\ r.ctx = c /\ r.db = rec.db /\ r.back = rec.back
      /\ r.todo = rec.todo /\ r.waiting = rec.waiting
  BY <1>1 DEF RecState
<1> HIDE DEF t, r
<1>5. /\ ctx' \in [Ctx -> TenantCtx] /\ ctx'[c] = t
      /\ \A x \in Ctx : /\ ctx'[x].db = ctx[x].db /\ ctx'[x].open = ctx[x].open
                        /\ ctx'[x].stopping = ctx[x].stopping
      /\ (\A d \in Db : TenantOK(d)') /\ (\A x \in Ctx : CtxOK(x)') /\ (\A k \in Key : OnboardOK(k)')
  BY <1>1, <1>2, <1>3, <1>4, CtxMoves
<1>6. /\ worker' \in [Key \X Slot -> WorkerState]
      /\ \A w \in Key \X Slot : /\ worker'[w].pc = worker[w].pc /\ worker'[w].ctx = worker[w].ctx
                                /\ worker'[w].loaded = worker[w].loaded
  BY <1>2, CancelledWorkers
<1>7. TypeOK'
  BY <1>1, <1>2, <1>4, <1>5, <1>6 DEF TypeOK
<1>8. RecOK'
  BY <1>1, <1>2, <1>3, <1>4, <1>5 DEF RecOK, Silent, Adding
<1>9. ASSUME NEW w \in Key \X Slot PROVE RunOK(w)'
  <2>1. RunOK(w) /\ CtxOf(w[1][1])' = CtxOf(w[1][1])
    BY <1>1, <1>2, <1>4 DEF TInv, CtxOf, Removing
  <2> QED
    BY <1>2, <1>4, <1>6, <2>1 DEF RunOK, Alive
<1>10. \A k \in Key : HandleOK(k)' /\ CacheOK(k)'
  BY <1>2 DEF TInv, HandleOK, CacheOK
<1> QED
  BY <1>5, <1>7, <1>8, <1>9, <1>10 DEF TInv

(* removeTenant closes the database when the onboardings that were         *)
(* admitted and the workers that left the maps have ended: nobody else     *)
(* works for this tenantCtx.                                               *)
LEMMA CloseKeeps ==
  ASSUME TInv, DrainAndClose
  PROVE  TInv'
<1> DEFINE c == rec.ctx
           t == [ctx[c] EXCEPT !.open = FALSE, !.version = None]
           r == [rec EXCEPT !.pc = rec.back, !.waiting = {}, !.ctx = None, !.db = None]
<1>1. /\ TypeOK /\ rec \in RecState /\ RecOK /\ rec.pc = "drain" /\ c \in Ctx
      /\ ctx \in [Ctx -> TenantCtx] /\ ctx[c] \in TenantCtx
      /\ ctx[c].db = rec.db /\ rec.db \in Db /\ tenants[rec.db] = None /\ ctx[c].stopping
      /\ ~ctx[c].subscribed /\ ~ctx[c].responding
  BY DEF TInv, TypeOK, RecOK, Silent, DrainAndClose
<1>2. /\ ctx' = [ctx EXCEPT ![c] = t] /\ rec' = r
      /\ OnboardingsOf(c) = {} /\ (\A w \in rec.waiting : ~Alive(w))
      /\ UNCHANGED <<registry, active, tenants, handles, worker, caches, consumer, onboarding, unhealthy,
                     cancelled>>
  BY DEF DrainAndClose
<1>3. /\ t \in TenantCtx /\ t.db = ctx[c].db /\ t.open = FALSE /\ t.stopping = ctx[c].stopping
      /\ t.callback = ctx[c].callback /\ t.branch = ctx[c].branch
      /\ ~t.subscribed /\ ~t.responding
  BY <1>1 DEF TenantCtx
<1>4. /\ r \in RecState /\ r.pc = rec.back /\ r.todo = rec.todo /\ r.waiting = {}
      /\ rec.back \in {"remove", "add", "stop"}
  BY <1>1 DEF RecState
<1> HIDE DEF t, r
<1>5. ctx' \in [Ctx -> TenantCtx] /\ ctx'[c] = t /\ (\A x \in Ctx \ {c} : ctx'[x] = ctx[x])
  BY <1>1, <1>2, <1>3
<1>6. TypeOK'
  BY <1>1, <1>2, <1>4, <1>5 DEF TypeOK
<1>7. RecOK'
  <2>1. \A d \in rec.todo : tenants[d] = None <=> rec.back = "add"
    BY <1>1 DEF RecOK, Adding
  <2> QED
    BY <1>2, <1>4, <2>1 DEF RecOK, Adding
<1>8. \A d \in Db : tenants[d] # c
  BY <1>1, TopologyAssumption DEF TInv, TenantOK
<1>9. ASSUME NEW d \in Db PROVE TenantOK(d)'
  <2>1. TenantOK(d) /\ tenants[d] \in Ctx \cup {None} /\ tenants[d] # c
    BY <1>1, <1>8 DEF TInv, TypeOK
  <2> QED
    BY <1>2, <1>5, <2>1 DEF TenantOK
<1>10. ASSUME NEW x \in Ctx PROVE CtxOK(x)'
  <2>1. CtxOK(x)
    BY DEF TInv
  <2>2. CASE x = c
    BY <1>1, <1>2, <1>3, <1>5, <2>1, <2>2, TopologyAssumption DEF CtxOK
  <2>3. CASE x # c
    BY <1>1, <1>2, <1>5, <2>1, <2>3 DEF CtxOK
  <2> QED
    BY <2>2, <2>3
<1>11. ASSUME NEW w \in Key \X Slot PROVE RunOK(w)'
  <2> SUFFICES ASSUME Alive(w) PROVE RunOK(w)'
    BY <1>2 DEF RunOK, Alive
  <2>1. RunOK(w) /\ w[1] \in Key /\ w[2] \in Slot /\ HandleOK(w[1])
    BY WorkerKey DEF TInv
  <2>2. handles[w[1]] = w[2] /\ handles[w[1]] # None
    BY <1>2, <2>1, TopologyAssumption DEF RunOK
  <2>3. w[1][1] # rec.db
    BY <1>1, <2>1, <2>2 DEF HandleOK
  <2>4. CtxOf(w[1][1]) = tenants[w[1][1]] /\ CtxOf(w[1][1])' = tenants[w[1][1]]
    BY <1>2, <1>4, <2>3 DEF CtxOf, Removing
  <2> QED
    BY <1>2, <2>1, <2>2, <2>4 DEF RunOK
<1>12. ASSUME NEW k \in Key PROVE HandleOK(k)' /\ OnboardOK(k)' /\ CacheOK(k)'
  <2>1. HandleOK(k) /\ OnboardOK(k) /\ CacheOK(k) /\ onboarding[k] \in Onboarding
    BY <1>1 DEF TInv, TypeOK
  <2>2. HandleOK(k)' /\ CacheOK(k)'
    BY <1>2, <2>1 DEF HandleOK, CacheOK
  <2>3. onboarding[k].pc \in {"running", "start"} => onboarding[k].ctx \in Ctx \ {c}
    BY <1>2, <2>1 DEF OnboardingsOf, Onboarding, NotOnboarding
  <2>4. OnboardOK(k)'
    BY <1>2, <1>5, <2>1, <2>3 DEF OnboardOK
  <2> QED
    BY <2>2, <2>4
<1> QED
  BY <1>6, <1>7, <1>9, <1>10, <1>11, <1>12 DEF TInv

(* addTenant takes a tenantCtx that nothing refers to, for a database that *)
(* has none.                                                               *)
LEMMA OpenKeeps ==
  ASSUME TInv, NEW d \in Db, OpenTenant(d)
  PROVE  TInv'
<1> DEFINE c == CHOOSE c \in Ctx : Unused(c)
           t == [NoTenant EXCEPT !.db = d, !.version = rec.target[d], !.open = TRUE]
           r == [rec EXCEPT !.pc = "subscribe", !.db = d, !.todo = rec.todo \ {d}]
<1>1. /\ TypeOK /\ rec \in RecState /\ RecOK /\ rec.pc = "add" /\ d \in rec.todo
      /\ ctx \in [Ctx -> TenantCtx] /\ tenants \in [Db -> Ctx \cup {None}]
      /\ caches \in [Key -> Ctx \cup {None}]
  BY DEF TInv, TypeOK, OpenTenant
<1>2. c \in Ctx /\ Unused(c)
  BY DEF OpenTenant
<1>3. /\ tenants' = [tenants EXCEPT ![d] = c] /\ ctx' = [ctx EXCEPT ![c] = t] /\ rec' = r
      /\ caches' = [k \in Key |-> IF k[1] = d THEN None ELSE caches[k]]
      /\ UNCHANGED <<registry, active, handles, worker, consumer, onboarding, unhealthy, cancelled>>
  BY DEF OpenTenant, RecStep
<1>4. t \in TenantCtx /\ t.db = d /\ t.open /\ t.stopping = FALSE /\ t.callback = "none" /\ ~t.responding
  BY <1>1 DEF NoTenant, TenantCtx, RecState
<1>5. /\ r \in RecState /\ r.pc = "subscribe" /\ r.db = d /\ r.todo = rec.todo \ {d}
      /\ r.waiting = {} /\ rec.waiting = {}
  BY <1>1 DEF RecState, RecOK
<1> HIDE DEF c, t, r
<1>6. /\ ctx' \in [Ctx -> TenantCtx] /\ ctx'[c] = t /\ (\A x \in Ctx \ {c} : ctx'[x] = ctx[x])
      /\ tenants' \in [Db -> Ctx \cup {None}] /\ tenants'[d] = c /\ c # None
      /\ \A e \in Db \ {d} : tenants'[e] = tenants[e]
  BY <1>1, <1>2, <1>3, <1>4, TopologyAssumption
<1>7. tenants[d] = None /\ \A e \in rec.todo : e \in Db /\ tenants[e] = None
  BY <1>1 DEF RecOK, Adding, RecState
<1>8. TypeOK'
  BY <1>1, <1>3, <1>5, <1>6 DEF TypeOK
<1>9. RecOK'
  BY <1>3, <1>4, <1>5, <1>6, <1>7 DEF RecOK, Adding
<1>10. ASSUME NEW e \in Db PROVE TenantOK(e)'
  <2>1. CASE e = d
    BY <1>4, <1>6, <2>1 DEF TenantOK
  <2>2. CASE e # d
    <3>1. TenantOK(e) /\ tenants'[e] = tenants[e] /\ tenants[e] \in Ctx \cup {None}
      BY <1>1, <1>6, <2>2 DEF TInv
    <3>2. tenants[e] # c
      BY <1>2, <1>6, <3>1 DEF TenantOK, Unused
    <3> QED
      BY <1>6, <3>1, <3>2 DEF TenantOK
  <2> QED
    BY <2>1, <2>2
<1>11. ASSUME NEW x \in Ctx PROVE CtxOK(x)'
  <2>1. CtxOK(x) /\ ctx[x].db \in Db \cup {None}
    BY <1>1 DEF TInv, TenantCtx
  <2>2. CASE x = c
    BY <1>4, <1>6, <2>2, TopologyAssumption DEF CtxOK
  <2>3. CASE x # c
    <3>1. ctx'[x] = ctx[x]
      BY <1>6, <2>3
    <3>2. ctx[x].db # None /\ ~ctx[x].stopping => ctx[x].db # d
      BY <1>7, <2>1, TopologyAssumption DEF CtxOK
    <3> QED
      BY <1>1, <1>3, <1>6, <2>1, <3>1, <3>2 DEF CtxOK
  <2> QED
    BY <2>2, <2>3
<1>12. ASSUME NEW w \in Key \X Slot PROVE RunOK(w)'
  <2> SUFFICES ASSUME Alive(w) PROVE RunOK(w)'
    BY <1>3 DEF RunOK, Alive
  <2>1. RunOK(w) /\ w[1] \in Key /\ w[1][1] \in Db /\ w[2] \in Slot /\ HandleOK(w[1])
    BY WorkerKey DEF TInv
  <2>2. handles[w[1]] = w[2] /\ w[1][1] # d
    BY <1>5, <1>7, <2>1, TopologyAssumption DEF RunOK, HandleOK
  <2>3. CtxOf(w[1][1]) = tenants[w[1][1]] /\ CtxOf(w[1][1])' = tenants[w[1][1]]
    BY <1>1, <1>3, <1>5, <1>6, <2>1, <2>2 DEF CtxOf, Removing
  <2> QED
    BY <1>3, <2>1, <2>2, <2>3 DEF RunOK
<1>13. ASSUME NEW k \in Key PROVE HandleOK(k)' /\ OnboardOK(k)' /\ CacheOK(k)'
  <2>1. HandleOK(k) /\ OnboardOK(k) /\ CacheOK(k) /\ k[1] \in Db /\ onboarding[k] \in Onboarding
    BY <1>1 DEF TInv, Key, TypeOK
  <2>2. HandleOK(k)' /\ CacheOK(k)'
    BY <1>3, <1>6, <1>7, <2>1 DEF HandleOK, CacheOK
  <2>3. onboarding[k].ctx # c
    BY <1>2 DEF Unused
  <2>4. OnboardOK(k)'
    BY <1>3, <1>6, <2>1, <2>3 DEF OnboardOK, Onboarding, NotOnboarding
  <2> QED
    BY <2>2, <2>4
<1> QED
  BY <1>8, <1>9, <1>10, <1>11, <1>12, <1>13 DEF TInv

(* The new tenant's responders are subscribed, the one after the other.    *)
LEMMA SubscribeKeeps ==
  ASSUME TInv, SubscribeOnboard \/ SubscribeReconcile
  PROVE  TInv'
<1> DEFINE c == tenants[rec.db]
<1>1. /\ TypeOK /\ rec \in RecState /\ RecOK /\ rec.pc \in {"subscribe", "answer"}
      /\ rec.db \in Db /\ c # None /\ ~ctx[c].responding /\ rec.waiting = {}
  BY DEF TInv, TypeOK, RecOK, SubscribeOnboard, SubscribeReconcile
<1>2. c \in Ctx /\ ctx[c] \in TenantCtx /\ ctx[c].db = rec.db /\ rec.db # None /\ ctx[c].open
  BY <1>1, TopologyAssumption DEF TInv, TypeOK, TenantOK
<1>3. ASSUME NEW t \in TenantCtx, NEW r \in RecState, ctx' = [ctx EXCEPT ![c] = t], rec' = r,
             UNCHANGED <<registry, active, tenants, handles, worker, caches, consumer, onboarding,
                         unhealthy, cancelled>>,
             t.db = ctx[c].db, t.open = ctx[c].open, t.stopping = ctx[c].stopping,
             t.callback = ctx[c].callback, t.branch = ctx[c].branch,
             r.pc = "add" \/ (r.pc = "answer" /\ r.db = rec.db /\ ~t.responding),
             r.todo = rec.todo, r.waiting = {}
      PROVE  TInv'
  <2>1. /\ ctx' \in [Ctx -> TenantCtx] /\ ctx'[c] = t
        /\ (\A d \in Db : TenantOK(d)') /\ (\A x \in Ctx : CtxOK(x)') /\ (\A k \in Key : OnboardOK(k)')
    BY <1>1, <1>2, <1>3, CtxMoves
  <2>2. TypeOK'
    BY <1>1, <1>3, <2>1 DEF TypeOK
  <2>3. RecOK'
    BY <1>1, <1>3, <2>1 DEF RecOK, Adding
  <2>4. \A w \in Key \X Slot : RunOK(w)'
    BY <1>1, <1>3 DEF TInv, RunOK, Alive, CtxOf, Removing
  <2>5. \A k \in Key : HandleOK(k)' /\ CacheOK(k)'
    BY <1>3 DEF TInv, HandleOK, CacheOK
  <2> QED
    BY <2>1, <2>2, <2>3, <2>4, <2>5 DEF TInv
<1>4. CASE SubscribeOnboard
  <2> DEFINE t == [ctx[c] EXCEPT !.subscribed = TRUE]
             r == [rec EXCEPT !.pc = "answer"]
  <2>1. ctx' = [ctx EXCEPT ![c] = t] /\ rec' = r
    BY <1>4 DEF SubscribeOnboard, RecStep
  <2>2. /\ t \in TenantCtx /\ t.db = ctx[c].db /\ t.open = ctx[c].open /\ t.stopping = ctx[c].stopping
        /\ t.callback = ctx[c].callback /\ t.branch = ctx[c].branch /\ ~t.responding
    BY <1>1, <1>2 DEF TenantCtx
  <2>3. r \in RecState /\ r.pc = "answer" /\ r.db = rec.db /\ r.todo = rec.todo /\ r.waiting = {}
    BY <1>1 DEF RecState
  <2> HIDE DEF t, r
  <2> QED
    BY <1>3, <1>4, <2>1, <2>2, <2>3 DEF SubscribeOnboard, RecStep
<1>5. CASE SubscribeReconcile
  <2> DEFINE t == [ctx[c] EXCEPT !.responding = TRUE]
             r == [rec EXCEPT !.pc = "add", !.db = None]
  <2>1. ctx' = [ctx EXCEPT ![c] = t] /\ rec' = r
    BY <1>5 DEF SubscribeReconcile, RecStep
  <2>2. /\ t \in TenantCtx /\ t.db = ctx[c].db /\ t.open = ctx[c].open /\ t.stopping = ctx[c].stopping
        /\ t.callback = ctx[c].callback /\ t.branch = ctx[c].branch
    BY <1>1, <1>2 DEF TenantCtx
  <2>3. r \in RecState /\ r.pc = "add" /\ r.todo = rec.todo /\ r.waiting = {}
    BY <1>1 DEF RecState
  <2> HIDE DEF t, r
  <2> QED
    BY <1>3, <1>5, <2>1, <2>2, <2>3 DEF SubscribeReconcile, RecStep
<1> QED
  BY <1>4, <1>5

(* A branch of the snapshot is started for the tenant that is reconciled.  *)
LEMMA StartKeeps ==
  ASSUME TInv, NEW b \in Branch, StartActive(b)
  PROVE  TInv'
<1> DEFINE k == <<rec.db, b>>
           r == [rec EXCEPT !.left = rec.left \ {b}]
<1>1. /\ TypeOK /\ rec \in RecState /\ RecOK /\ rec.pc = "start" /\ k \in Key /\ tenants[rec.db] \in Ctx
  BY DEF TInv, TypeOK, RecOK, StartActive, Key
<1>2. /\ StartBranch(tenants[rec.db], k) /\ rec' = r
      /\ UNCHANGED <<registry, active, tenants, ctx, caches, consumer, onboarding, unhealthy, cancelled>>
  BY DEF StartActive, RecStep
<1>3. /\ handles' \in [Key -> Slot \cup {None}] /\ worker' \in [Key \X Slot -> WorkerState]
      /\ (\A w \in Key \X Slot : RunsOn(w))
      /\ \A j \in Key : handles'[j] # None => tenants[j[1]] # None
  BY <1>1, <1>2, BranchStarts
<1>4. /\ r \in RecState /\ r.pc = "start" /\ r.db = rec.db /\ r.todo = rec.todo
      /\ r.waiting = rec.waiting
  BY <1>1 DEF RecState
<1> HIDE DEF r
<1>5. TypeOK'
  BY <1>1, <1>2, <1>3, <1>4 DEF TypeOK
<1>6. RecOK'
  BY <1>1, <1>2, <1>4 DEF RecOK, Adding
<1>7. (\A d \in Db : TenantOK(d)') /\ (\A x \in Ctx : CtxOK(x)')
  BY <1>1, <1>2, <1>4 DEF TInv, TenantOK, CtxOK
<1>8. \A w \in Key \X Slot : RunOK(w)'
  BY <1>1, <1>2, <1>3, <1>4 DEF RunsOn, RunOK, Alive, CtxOf, Removing
<1>9. \A j \in Key : HandleOK(j)' /\ OnboardOK(j)' /\ CacheOK(j)'
  BY <1>2, <1>3 DEF TInv, HandleOK, OnboardOK, CacheOK
<1> QED
  BY <1>5, <1>6, <1>7, <1>8, <1>9 DEF TInv

(* The workers that reconcileBranches takes out of the map are the ones    *)
(* that it will wait for.                                                  *)
LEMMA SweepKeeps ==
  ASSUME TInv, Sweep
  PROVE  TInv'
<1> DEFINE d == rec.db
           c == tenants[d]
           gone == {k \in WorkersOf(d) : k[2] \notin rec.snapshot}
           t == [ctx[c] EXCEPT !.expected = rec.snapshot]
           r == [rec EXCEPT !.pc = "sweepCancel", !.waiting = Handled(gone), !.db = None, !.snapshot = {}]
<1>1. /\ TypeOK /\ rec \in RecState /\ RecOK /\ rec.pc = "start" /\ d \in Db /\ c # None
      /\ handles \in [Key -> Slot \cup {None}] /\ caches \in [Key -> Ctx \cup {None}]
  BY DEF TInv, TypeOK, RecOK, Sweep
<1>2. c \in Ctx /\ ctx[c] \in TenantCtx /\ ctx[c].db = d /\ d # None /\ rec.waiting = {} /\ ctx[c].open
  BY <1>1, TopologyAssumption DEF TInv, TypeOK, TenantOK, RecOK
<1>3. /\ caches' = [k \in Key |-> IF k[1] = d THEN None ELSE caches[k]]
      /\ handles' = [k \in Key |-> IF k \in gone THEN None ELSE handles[k]]
      /\ ctx' = [ctx EXCEPT ![c] = t] /\ rec' = r
      /\ UNCHANGED <<registry, active, tenants, worker, consumer, onboarding, unhealthy, cancelled>>
  BY DEF Sweep, RecStep
<1>4. /\ t \in TenantCtx /\ t.db = ctx[c].db /\ t.open = ctx[c].open /\ t.stopping = ctx[c].stopping
      /\ t.callback = ctx[c].callback /\ t.branch = ctx[c].branch
      /\ t.open
  BY <1>1, <1>2 DEF TenantCtx, RecState
<1>5. /\ Handled(gone) \in SUBSET (Key \X Slot)
      /\ (\A v, w \in Handled(gone) : v[1] = w[1] => v = w)
      /\ \A w \in Key \X Slot : w[1] \in gone /\ handles[w[1]] = w[2] => w \in Handled(gone)
  <2>1. gone \in SUBSET Key
    BY DEF WorkersOf
  <2> HIDE DEF gone
  <2> QED
    BY <1>1, <2>1, HandledOnce
<1> HIDE DEF gone
<1>6. /\ r \in RecState /\ r.pc = "sweepCancel" /\ r.todo = rec.todo /\ r.waiting = Handled(gone)
  BY <1>1, <1>5 DEF RecState
<1> HIDE DEF t, r
<1>7. /\ ctx' \in [Ctx -> TenantCtx]
      /\ (\A e \in Db : TenantOK(e)') /\ (\A x \in Ctx : CtxOK(x)') /\ (\A k \in Key : OnboardOK(k)')
  BY <1>1, <1>2, <1>3, <1>4, CtxMoves
<1>8. handles' \in [Key -> Slot \cup {None}] /\ caches' \in [Key -> Ctx \cup {None}]
  BY <1>1, <1>3
<1>9. TypeOK'
  BY <1>1, <1>3, <1>6, <1>7, <1>8 DEF TypeOK
<1>10. RecOK'
  BY <1>1, <1>3, <1>5, <1>6 DEF RecOK, Adding
<1>11. ASSUME NEW w \in Key \X Slot PROVE RunOK(w)'
  <2> SUFFICES ASSUME Alive(w) PROVE RunOK(w)'
    BY <1>3 DEF RunOK, Alive
  <2>1. RunOK(w) /\ w[1] \in Key
    BY WorkerKey DEF TInv
  <2>2. CtxOf(w[1][1])' = CtxOf(w[1][1])
    BY <1>1, <1>3, <1>6 DEF CtxOf, Removing
  <2>3. handles[w[1]] = w[2]
    BY <1>2, <2>1 DEF RunOK
  <2>4. handles'[w[1]] = w[2] \/ w \in rec'.waiting
    BY <1>3, <1>5, <1>6, <2>1, <2>3
  <2> QED
    BY <1>3, <2>1, <2>2, <2>4 DEF RunOK
<1>12. ASSUME NEW k \in Key PROVE HandleOK(k)' /\ CacheOK(k)'
  <2>1. HandleOK(k) /\ CacheOK(k)
    BY DEF TInv
  <2> QED
    BY <1>3, <2>1 DEF HandleOK, CacheOK
<1> QED
  BY <1>7, <1>9, <1>10, <1>11, <1>12 DEF TInv

(* The swept workers are cancelled.                                        *)
LEMMA SweepCancelKeeps ==
  ASSUME TInv, SweepCancel
  PROVE  TInv'
<1> DEFINE r == [rec EXCEPT !.pc = "sweepWait"]
<1>1. TypeOK /\ rec \in RecState /\ RecOK /\ rec.pc = "sweepCancel"
  BY DEF TInv, TypeOK, SweepCancel
<1>2. /\ CancelWorkers(rec.waiting) /\ rec' = r
      /\ UNCHANGED <<registry, active, tenants, ctx, handles, caches, consumer, onboarding, unhealthy,
                     cancelled>>
  BY DEF SweepCancel, RecStep
<1>3. r \in RecState /\ r.pc = "sweepWait" /\ r.todo = rec.todo /\ r.waiting = rec.waiting
  BY <1>1 DEF RecState
<1> HIDE DEF r
<1>4. /\ worker' \in [Key \X Slot -> WorkerState]
      /\ \A w \in Key \X Slot : /\ worker'[w].pc = worker[w].pc /\ worker'[w].ctx = worker[w].ctx
                                /\ worker'[w].loaded = worker[w].loaded
  BY <1>2, CancelledWorkers
<1>5. TypeOK'
  BY <1>1, <1>2, <1>3, <1>4 DEF TypeOK
<1>6. RecOK'
  BY <1>1, <1>2, <1>3 DEF RecOK, Adding
<1>7. (\A d \in Db : TenantOK(d)') /\ (\A x \in Ctx : CtxOK(x)')
  BY <1>1, <1>2, <1>3 DEF TInv, TenantOK, CtxOK
<1>8. ASSUME NEW w \in Key \X Slot PROVE RunOK(w)'
  <2>1. RunOK(w) /\ CtxOf(w[1][1])' = CtxOf(w[1][1])
    BY <1>1, <1>2, <1>3 DEF TInv, CtxOf, Removing
  <2> QED
    BY <1>2, <1>3, <1>4, <2>1 DEF RunOK, Alive
<1>9. \A j \in Key : HandleOK(j)' /\ OnboardOK(j)' /\ CacheOK(j)'
  BY <1>2 DEF TInv, HandleOK, OnboardOK, CacheOK
<1> QED
  BY <1>5, <1>6, <1>7, <1>8, <1>9 DEF TInv

(* A process without tenants, as it starts and as main leaves it when the  *)
(* first reconciliation fails.                                             *)
Fresh ==
  /\ registry \in [Db -> Version \cup {None}] /\ active \in [Db -> SUBSET Branch]
  /\ tenants = [d \in Db |-> None] /\ ctx = [c \in Ctx |-> NoTenant]
  /\ handles = [k \in Key |-> None] /\ worker = [w \in Key \X Slot |-> Done]
  /\ caches = [k \in Key |-> None] /\ consumer \in [Key -> Slot \cup {None}]
  /\ onboarding = [k \in Key |-> NotOnboarding]
  /\ rec = Resting("idle", TRUE) \/ rec = Resting("exited", FALSE)
  /\ unhealthy \in BOOLEAN /\ cancelled \in BOOLEAN

(* Nothing runs in it, so the invariant holds.                             *)
LEMMA FreshOK == Fresh => TInv
<1> SUFFICES ASSUME Fresh PROVE TInv
  OBVIOUS
<1> USE DEF Fresh
<1>1. /\ NoTenant \in TenantCtx /\ NoTenant.db = None /\ ~NoTenant.open /\ ~NoTenant.subscribed
      /\ ~NoTenant.responding
      /\ NoTenant.callback = "none" /\ ~NoTenant.stopping
  BY DEF NoTenant, TenantCtx
<1>2. Done \in WorkerState /\ NotOnboarding \in Onboarding /\ NotOnboarding.pc = "none" /\ Done.pc = "done"
  BY DEF WorkerState, Done, Onboarding, NotOnboarding
<1>3. rec \in RecState /\ rec.pc \in {"idle", "exited"} /\ rec.todo = {} /\ rec.waiting = {}
  BY RestingOK
<1>4. TypeOK
  BY <1>1, <1>2, <1>3 DEF TypeOK
<1>5. RecOK
  BY <1>3 DEF RecOK
<1>6. (\A d \in Db : TenantOK(d)) /\ (\A c \in Ctx : CtxOK(c))
  BY <1>1 DEF TenantOK, CtxOK
<1>7. \A w \in Key \X Slot : RunOK(w)
  BY <1>2 DEF RunOK, Alive
<1>8. ASSUME NEW k \in Key PROVE HandleOK(k) /\ OnboardOK(k) /\ CacheOK(k)
  <2>1. k[1] \in Db
    BY DEF Key
  <2> QED
    BY <1>2, <2>1 DEF HandleOK, OnboardOK, CacheOK
<1> QED
  BY <1>4, <1>5, <1>6, <1>7, <1>8 DEF TInv

(* main ends the process, and with it everything that ran.                 *)
LEMMA FirstFailsKeeps ==
  ASSUME TInv, FirstFails
  PROVE  TInv'
<1>1. Fresh'
  BY DEF TInv, TypeOK, FirstFails, Fresh
<1>2. Fresh' => TInv'
  BY FreshOK, PTL
<1> QED
  BY <1>1, <1>2

(* The invariant holds in the initial states.                              *)
LEMMA TInvInit == Init => TInv
<1>1. Init => Fresh
  BY DEF Init, Fresh
<1> QED
  BY <1>1, FreshOK

(* Every step keeps the invariant.                                         *)
LEMMA TInvStep == TInv /\ [Next]_vars => TInv'
<1> SUFFICES ASSUME TInv, [Next]_vars PROVE TInv'
  OBVIOUS
<1>1. CASE UNCHANGED vars
  <2>1. TypeOK' /\ UNCHANGED core
    BY <1>1 DEF TInv, TypeOK, vars, core
  <2> QED
    BY <2>1, CoreUnchanged
<1>2. ASSUME NEW w \in Key \X Slot, WorkerNext(w) PROVE TInv'
  BY <1>2, WorkerKeeps
<1>3. ASSUME NEW c \in Ctx,
             \/ (\E b \in Branch : Receive(c, b)) \/ CallbackNext(c)
             \/ ReceiveReconcile(c) \/ AnswerReconcile(c)
      PROVE  TInv'
  BY <1>3, CallbackKeeps, AnswerKeeps DEF CallbackNext
<1>4. ASSUME NEW k \in Key, OnboardingNext(k) PROVE TInv'
  BY <1>4, OnboardingKeeps
<1>5. CASE ReconcilerNext
  <2>1. ASSUME NEW d \in Db,
               \/ RemoveTenant(d) \/ OpenTenant(d) \/ OpenFails(d)
               \/ QueryActiveBranches(d) \/ QueryFails(d) \/ StopTenant(d)
        PROVE  TInv'
    BY <2>1, RemovalsKeep, OpenKeeps, QuietKeeps
  <2>2. ASSUME NEW b \in Branch, StartActive(b) PROVE TInv'
    BY <2>2, StartKeeps
  <2> QED
    BY <1>5, <2>1, <2>2, QuietKeeps, RemovalsKeep, CancelKeeps, CloseKeeps, SubscribeKeeps, SweepKeeps,
       SweepCancelKeeps, FirstFailsKeeps DEF ReconcilerNext
<1>6. CASE \/ \E d \in Db, v \in Version \cup {None} : RegistryChange(d, v)
           \/ \E d \in Db, b \in Branch : BranchChange(d, b)
           \/ Shutdown
  BY <1>6, OutsideKeeps
<1> QED
  BY <1>1, <1>2, <1>3, <1>4, <1>5, <1>6 DEF Next

------------------------------------------------------------------------------
(* TInv is an invariant of the specification.                              *)
THEOREM TopologyInvariance == Spec => []TInv
BY TInvInit, TInvStep, PTL DEF Spec

(* Every reachable state of the maps, the goroutines and the reconciler is *)
(* well typed: above all, no worker is started for a tenant that is not    *)
(* there, and there is always a goroutine to start one in.                 *)
THEOREM TopologyTypeCorrect == Spec => []TypeOK
<1>1. TInv => TypeOK
  BY DEF TInv
<1> QED
  BY <1>1, TopologyInvariance, PTL

(* However tenants are added, changed and removed while workers, callbacks *)
(* and onboardings go on, no database is closed under a worker or an       *)
(* onboarding that can still use it (removeTenant).                        *)
THEOREM ClosedIsUnused == Spec => []NoUseAfterClose
<1>1. TInv => NoUseAfterClose
  <2> SUFFICES ASSUME TInv PROVE NoUseAfterClose
    OBVIOUS
  <2>1. ASSUME NEW d \in Db, CtxOf(d) # None PROVE ctx[CtxOf(d)].open
    BY <2>1 DEF TInv, RecOK, TenantOK, CtxOf, Removing
  <2>2. ASSUME NEW w \in Key \X Slot, Alive(w)
        PROVE  ctx[worker[w].ctx].open /\ (worker[w].loaded # None => ctx[worker[w].loaded].open)
    <3>1. RunOK(w) /\ w[1][1] \in Db /\ worker[w].ctx \in Ctx
      BY <2>2, WorkerKey, RunningWorker DEF TInv, TypeOK, Alive, RunState
    <3> QED
      BY <2>1, <2>2, <3>1, TopologyAssumption DEF RunOK
  <2>3. ASSUME NEW c \in Ctx, OnboardingsOf(c) # {} PROVE ctx[c].open
    BY <2>3 DEF TInv, OnboardOK, OnboardingsOf
  <2> QED
    BY <2>2, <2>3 DEF NoUseAfterClose
<1> QED
  BY <1>1, TopologyInvariance, PTL

(* However subscriptions fail while a tenant is added, and whenever it is  *)
(* removed, its responders take no request once its database is closed     *)
(* (addTenant, removeTenant).                                              *)
THEOREM ClosedIsSilent == Spec => []ClosedTakesNoRequest
<1>1. TInv => ClosedTakesNoRequest
  BY DEF TInv, CtxOK, ClosedTakesNoRequest
<1> QED
  BY <1>1, TopologyInvariance, PTL

(* A service that getService finds in the cache was loaded for the tenant  *)
(* that now has the database, even if a worker of a removed tenant was     *)
(* slow to store it (getService, addTenant).                               *)
THEOREM CacheIsFresh == Spec => []CacheIsOfTenant
<1>1. TInv => CacheIsOfTenant
  BY DEF TInv, CacheOK, CacheIsOfTenant
<1> QED
  BY <1>1, TopologyInvariance, PTL

(* Between reconciliations every worker can be reached by its handle and   *)
(* works for the present tenant, and every open database is a tenant's     *)
(* (startBranch, reconcileBranches, removeTenant).                         *)
THEOREM MapsKnowEverything == Spec => []NothingLost
<1>1. TInv => NothingLost
  <2> SUFFICES ASSUME TInv, rec.pc \in {"idle", "stopped"} PROVE NothingLost
    BY DEF NothingLost
  <2>1. ASSUME NEW w \in Key \X Slot, Alive(w)
        PROVE  handles[w[1]] = w[2] /\ worker[w].ctx = tenants[w[1][1]]
    BY <2>1 DEF TInv, RecOK, RunOK, CtxOf, Removing
  <2>2. ASSUME NEW c \in Ctx, ctx[c].open PROVE ctx[c].db # None /\ tenants[ctx[c].db] = c
    BY <2>2 DEF TInv, CtxOK
  <2> QED
    BY <2>1, <2>2 DEF NothingLost
<1> QED
  BY <1>1, TopologyInvariance, PTL
==============================================================================
