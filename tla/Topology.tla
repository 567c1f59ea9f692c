------------------------------ MODULE Topology ------------------------------
(***************************************************************************)
(* daemonReconciler (cmd/daemon/reconcile.go): which tenants and branch    *)
(* workers one daemon process runs.  Every tick it compares the master     *)
(* registry with its tenants, removes, adds and changes them, and starts   *)
(* and stops the workers of their branches, while workers, onboarding      *)
(* requests and the shutdown go on beside it.                              *)
(*                                                                         *)
(* A section under r.mu is one step.  reconcileMu is held by whoever moves *)
(* rec.pc away from "idle".  A tenantCtx is an element of Ctx and a worker *)
(* goroutine one of Slot; both are taken again once nothing refers to      *)
(* them.                                                                   *)
(*                                                                         *)
(* The durable consumer of a branch is created by the worker that finds    *)
(* none, and deleted when that worker unsubscribes, whoever else uses it.  *)
(* checkReadiness is the state predicate Ready: it reads the maps in one   *)
(* section under r.mu, and changes nothing.                                *)
(***************************************************************************)
EXTENDS Naturals, FiniteSets

CONSTANTS
  Db,       \* tenant database names
  Branch,   \* branch ids
  Version,  \* the contents a tenant's row in the registry may have
  Ctx,      \* tenantCtx objects
  Slot,     \* worker goroutines of one branch
  None,
  Asked,    \* the responders that are sent requests
  Fault     \* the calls that may fail

VARIABLES
  registry,   \* [Db -> Version or None], the enabled tenants in the master database
  active,     \* [Db -> set of branches], what QueryActiveBranches would return
  tenants,    \* [Db -> Ctx or None], r.tenants
  ctx,        \* [Ctx -> tenantCtx]
  handles,    \* [Key -> Slot or None], r.workers
  worker,     \* [Key \X Slot -> worker goroutine]
  caches,     \* [Key -> Ctx or None], r.caches: the tenantCtx an entry was loaded with
  consumer,   \* [Key -> Slot or None], the durable consumer by the worker that created it
  onboarding, \* [Key -> onboarding goroutine]
  rec,        \* the holder of reconcileMu
  unhealthy,  \* r.lastReconcileErr is not nil
  cancelled   \* r.ctx is done

Key == Db \X Branch

FaultKind == {"registry", "open", "subscribe", "query", "pull", "load", "onboard"}

ASSUME TopologyAssumption ==
  /\ None \notin Version /\ None \notin Ctx /\ None \notin Slot /\ None \notin Db
  /\ Fault \subseteq FaultKind
  /\ Asked \subseteq {"onboard", "reconcile"}

(* A worker that was swept may still run when its branch is started again. *)
ASSUME SlotAssumption == \E s, t \in Slot : s # t

vars == <<registry, active, tenants, ctx, handles, worker, caches, consumer, onboarding, rec, unhealthy,
          cancelled>>

(* Of each of its two responders a tenantCtx has the subscription and the  *)
(* callback, of which a subscription runs one at a time: subscribed,       *)
(* callback and branch are the onboarding responder's, responding and      *)
(* reconciling the reconcile responder's.                                  *)
TenantCtx ==
  [db : Db \cup {None}, version : Version \cup {None}, open : BOOLEAN, stopping : BOOLEAN,
   subscribed : BOOLEAN, callback : {"none", "begin", "admit"}, branch : Branch \cup {None},
   responding : BOOLEAN, reconciling : BOOLEAN,
   expected : SUBSET Branch]

NoTenant ==
  [db |-> None, version |-> None, open |-> FALSE, stopping |-> FALSE, subscribed |-> FALSE,
   callback |-> "none", branch |-> None, responding |-> FALSE, reconciling |-> FALSE,
   expected |-> {}]

(* A worker between deliveries or in one, or inside getService with the    *)
(* tenantCtx it looked up.                                                 *)
Done == [pc |-> "done", ctx |-> None, loaded |-> None, cancelled |-> FALSE]

WorkerState ==
  {Done}
    \cup [pc : {"starting", "fetch", "handle"}, ctx : Ctx, loaded : {None}, cancelled : BOOLEAN]
    \cup [pc : {"load", "store"}, ctx : Ctx, loaded : Ctx, cancelled : BOOLEAN]

NotOnboarding == [pc |-> "none", ctx |-> None]

Onboarding == {NotOnboarding} \cup [pc : {"begun", "running", "start"}, ctx : Ctx]

(* todo: the databases (or, in "start", the branches) still to be visited; *)
(* waiting: the workers whose end is waited for; back: where removeTenant  *)
(* returns to.                                                             *)
RecState ==
  [pc : {"idle", "remove", "add", "subscribe", "answer", "query", "start", "sweep",
         "sweepCancel", "sweepWait", "cancel", "drain", "stop", "stopped", "exited"},
   first : BOOLEAN, failed : BOOLEAN, target : [Db -> Version \cup {None}],
   db : Db \cup {None}, ctx : Ctx \cup {None}, todo : SUBSET Db,
   snapshot : SUBSET Branch, left : SUBSET Branch,
   waiting : SUBSET (Key \X Slot), back : {"remove", "add", "stop"}]

TypeOK ==
  /\ registry \in [Db -> Version \cup {None}]
  /\ active \in [Db -> SUBSET Branch]
  /\ tenants \in [Db -> Ctx \cup {None}]
  /\ ctx \in [Ctx -> TenantCtx]
  /\ handles \in [Key -> Slot \cup {None}]
  /\ worker \in [Key \X Slot -> WorkerState]
  /\ caches \in [Key -> Ctx \cup {None}]
  /\ consumer \in [Key -> Slot \cup {None}]
  /\ onboarding \in [Key -> Onboarding]
  /\ rec \in RecState
  /\ unhealthy \in BOOLEAN
  /\ cancelled \in BOOLEAN

NoTarget == [d \in Db |-> None]

Resting(pc, first) ==
  [pc |-> pc, first |-> first, failed |-> FALSE, target |-> NoTarget,
   db |-> None, ctx |-> None, todo |-> {}, snapshot |-> {}, left |-> {}, waiting |-> {},
   back |-> "remove"]

Init ==
  /\ registry \in [Db -> Version \cup {None}]
  /\ active \in [Db -> SUBSET Branch]
  /\ tenants = [d \in Db |-> None]
  /\ ctx = [c \in Ctx |-> NoTenant]
  /\ handles = [k \in Key |-> None]
  /\ worker = [w \in Key \X Slot |-> Done]
  /\ caches = [k \in Key |-> None]
  /\ consumer = [k \in Key |-> None]
  /\ onboarding = [k \in Key |-> NotOnboarding]
  /\ rec = Resting("idle", TRUE)
  /\ unhealthy = FALSE
  /\ cancelled = FALSE

------------------------------------------------------------------------------
(* The outside: the backend edits the registry and the branches.           *)

RegistryChange(d, v) ==
  /\ registry' = [registry EXCEPT ![d] = v]
  /\ UNCHANGED <<active, tenants, ctx, handles, worker, caches, consumer, onboarding, rec, unhealthy,
                 cancelled>>

BranchChange(d, b) ==
  /\ active' = [active EXCEPT ![d] = IF b \in @ THEN @ \ {b} ELSE @ \cup {b}]
  /\ UNCHANGED <<registry, tenants, ctx, handles, worker, caches, consumer, onboarding, rec, unhealthy,
                 cancelled>>

------------------------------------------------------------------------------
(* startBranch, and the worker goroutine (runWorkerContext).               *)

Alive(w) == worker[w].pc # "done"

(* Mutant: a tenant that was removed can still start a worker.             *)
StartBranchUnchecked(c, k) ==
  IF handles[k] # None
    THEN UNCHANGED <<handles, worker>>
    ELSE LET s == CHOOSE s \in Slot : ~Alive(<<k, s>>)
         IN  /\ handles' = [handles EXCEPT ![k] = s]
             /\ worker' = [worker EXCEPT ![<<k, s>>] = [Done EXCEPT !.pc = "starting", !.ctx = c]]

StartBranch(c, k) ==
  IF tenants[k[1]] # c \/ handles[k] # None
    THEN UNCHANGED <<handles, worker>>
    ELSE LET s == CHOOSE s \in Slot : ~Alive(<<k, s>>)
         IN  /\ handles' = [handles EXCEPT ![k] = s]
             /\ worker' = [worker EXCEPT ![<<k, s>>] = [Done EXCEPT !.pc = "starting", !.ctx = c]]

WorkerStep(w, from, to) ==
  /\ worker[w].pc = from
  /\ worker' = [worker EXCEPT ![w] = to]
  /\ UNCHANGED <<registry, active, tenants, ctx, handles, onboarding, rec, unhealthy, cancelled>>

MoveTo(w, pc) == [worker[w] EXCEPT !.pc = pc, !.loaded = None]

Cancelled(w) == worker[w].cancelled \/ cancelled

(* PullSubscribe uses the consumer of the branch or creates it.  When it   *)
(* fails the goroutine ends, and its handle stays.                         *)
PullSubscribe(w) ==
  LET k == w[1]
  IN  /\ \/ /\ WorkerStep(w, "starting", MoveTo(w, "fetch"))
            /\ consumer' = [consumer EXCEPT ![k] = IF @ = None THEN w[2] ELSE @]
         \/ "pull" \in Fault /\ WorkerStep(w, "starting", Done) /\ UNCHANGED consumer
      /\ UNCHANGED caches

(* The next delivery.  Without a consumer every Fetch fails, and the       *)
(* worker sleeps and tries again.                                          *)
Fetch(w) ==
  /\ ~Cancelled(w) /\ consumer[w[1]] # None
  /\ WorkerStep(w, "fetch", MoveTo(w, "handle"))
  /\ UNCHANGED <<caches, consumer>>

(* Unsubscribe deletes the consumer if this subscription created it.       *)
Unsubscribe(w) ==
  /\ Cancelled(w)
  /\ WorkerStep(w, "fetch", Done)
  /\ consumer' = [consumer EXCEPT ![w[1]] = IF @ = w[2] THEN None ELSE @]
  /\ UNCHANGED caches

(* A delivery that needs no service, or for which getService finds one in  *)
(* the cache or no tenant.                                                 *)
Handle(w) == WorkerStep(w, "handle", MoveTo(w, "fetch")) /\ UNCHANGED <<caches, consumer>>

(* Mutant: the tenant is not looked up again.                              *)
CacheMissUnchecked(w) ==
  /\ caches[w[1]] = None
  /\ WorkerStep(w, "handle", [worker[w] EXCEPT !.pc = "load", !.loaded = tenants[w[1][1]]])
  /\ UNCHANGED <<caches, consumer>>

(* getService misses the cache: the tenant is looked up under r.mu, the    *)
(* branch is loaded without it, and the entry is stored under it again.    *)
CacheMiss(w) ==
  /\ tenants[w[1][1]] # None /\ caches[w[1]] = None
  /\ WorkerStep(w, "handle", [worker[w] EXCEPT !.pc = "load", !.loaded = tenants[w[1][1]]])
  /\ UNCHANGED <<caches, consumer>>

LoadService(w) ==
  /\ \/ WorkerStep(w, "load", [worker[w] EXCEPT !.pc = "store"])
     \/ "load" \in Fault /\ WorkerStep(w, "load", MoveTo(w, "fetch"))
  /\ UNCHANGED <<caches, consumer>>

StoreService(w) ==
  /\ WorkerStep(w, "store", MoveTo(w, "fetch"))
  /\ caches' = [caches EXCEPT ![w[1]] = worker[w].loaded]
  /\ UNCHANGED consumer

WorkerNext(w) ==
  PullSubscribe(w) \/ Fetch(w) \/ Unsubscribe(w) \/ Handle(w) \/ CacheMiss(w) \/ LoadService(w) \/ StoreService(w)

------------------------------------------------------------------------------
(* The onboarding responder (subscribeOnboardResponder): its callback, and *)
(* the goroutine that onboards the branch.                                 *)

OnboardStep == UNCHANGED <<registry, tenants, caches, consumer, rec, unhealthy, cancelled>>

Receive(c, b) ==
  /\ ctx[c].subscribed /\ ctx[c].callback = "none" /\ "onboard" \in Asked
  /\ ctx' = [ctx EXCEPT ![c].callback = "begin", ![c].branch = b]
  /\ OnboardStep /\ UNCHANGED <<active, handles, worker, onboarding>>

(* beginOnboarding: one onboarding of a branch at a time.                  *)
BeginOnboarding(c) ==
  LET k == <<ctx[c].db, ctx[c].branch>>
  IN  /\ ctx[c].callback = "begin"
      /\ IF onboarding[k].pc = "none"
           THEN /\ onboarding' = [onboarding EXCEPT ![k] = [pc |-> "begun", ctx |-> c]]
                /\ ctx' = [ctx EXCEPT ![c].callback = "admit"]
           ELSE /\ ctx' = [ctx EXCEPT ![c].callback = "none", ![c].branch = None]
                /\ UNCHANGED onboarding
      /\ OnboardStep /\ UNCHANGED <<active, handles, worker>>

(* Mutant: a tenant that is being removed admits an onboarding.            *)
AdmitWhileStopping(c) ==
  LET k == <<ctx[c].db, ctx[c].branch>>
  IN  /\ ctx[c].callback = "admit"
      /\ onboarding' = [onboarding EXCEPT ![k].pc = "running"]
      /\ ctx' = [ctx EXCEPT ![c].callback = "none", ![c].branch = None]
      /\ OnboardStep /\ UNCHANGED <<active, handles, worker>>

(* Under onboardingStateMu: a tenant that is being removed refuses, any    *)
(* other one adds the goroutine to onboardingWG before it is started.      *)
AdmitOnboarding(c) ==
  LET k == <<ctx[c].db, ctx[c].branch>>
  IN  /\ ctx[c].callback = "admit"
      /\ onboarding' = [onboarding EXCEPT ![k] = IF ctx[c].stopping
                                                   THEN NotOnboarding
                                                   ELSE [@ EXCEPT !.pc = "running"]]
      /\ ctx' = [ctx EXCEPT ![c].callback = "none", ![c].branch = None]
      /\ OnboardStep /\ UNCHANGED <<active, handles, worker>>

(* OnboardBranch succeeds, and the branch becomes active, or it fails: a   *)
(* branch that has its certificates is refused.                            *)
OnboardBranch(k) ==
  /\ onboarding[k].pc = "running"
  /\ \/ /\ k[2] \notin active[k[1]]
        /\ active' = [active EXCEPT ![k[1]] = @ \cup {k[2]}]
        /\ onboarding' = [onboarding EXCEPT ![k].pc = "start"]
     \/ /\ "onboard" \in Fault \/ k[2] \in active[k[1]]
        /\ onboarding' = [onboarding EXCEPT ![k] = NotOnboarding]
        /\ UNCHANGED active
  /\ OnboardStep /\ UNCHANGED <<ctx, handles, worker>>

StartOnboarded(k) ==
  /\ onboarding[k].pc = "start"
  /\ StartBranch(onboarding[k].ctx, k)
  /\ onboarding' = [onboarding EXCEPT ![k] = NotOnboarding]
  /\ OnboardStep /\ UNCHANGED <<active, ctx>>

OnboardingNext(k) == OnboardBranch(k) \/ StartOnboarded(k)

------------------------------------------------------------------------------
(* The reconcile responder (subscribeReconcileResponder): its callback     *)
(* reads the invoice and records the answer (handleReconcileRequest) with  *)
(* a context of its own, and nothing waits for it.  What it does with the  *)
(* invoice is in Reconciliation.                                           *)

ReceiveReconcile(c) ==
  /\ ctx[c].responding /\ ~ctx[c].reconciling /\ "reconcile" \in Asked
  /\ ctx' = [ctx EXCEPT ![c].reconciling = TRUE]
  /\ OnboardStep /\ UNCHANGED <<active, handles, worker, onboarding>>

(* The callback replies.  When the database was closed under it, Stored or *)
(* Record has failed and the reply is that error.                          *)
AnswerReconcile(c) ==
  /\ ctx[c].reconciling
  /\ ctx' = [ctx EXCEPT ![c].reconciling = FALSE]
  /\ OnboardStep /\ UNCHANGED <<active, handles, worker, onboarding>>

CallbackNext(c) == BeginOnboarding(c) \/ AdmitOnboarding(c)

------------------------------------------------------------------------------
(* removeTenant, called by reconcile, addTenant and stop.                  *)

WorkersOf(d) == {k \in Key : k[1] = d}

Handled(ks) == {<<k, handles[k]>> : k \in {k \in ks : handles[k] # None}}

(* Mutant: the first subscription is left when the second one fails.       *)
DetachSubscribed(d, back, failed) ==
  LET c == tenants[d]
  IN  /\ tenants' = [tenants EXCEPT ![d] = None]
      /\ caches' = [k \in Key |-> IF k[1] = d THEN None ELSE caches[k]]
      /\ handles' = [k \in Key |-> IF k[1] = d THEN None ELSE handles[k]]
      /\ ctx' = [ctx EXCEPT ![c].stopping = TRUE, ![c].expected = {}]
      /\ rec' = [rec EXCEPT !.pc = "cancel", !.db = d, !.ctx = c, !.back = back,
                            !.failed = @ \/ failed,
                            !.waiting = Handled(WorkersOf(d)), !.todo = @ \ {d}]
      /\ UNCHANGED <<registry, active, worker, consumer, onboarding, unhealthy, cancelled>>

(* Under r.mu: no onboarding is admitted any more, and the tenant, its     *)
(* cache, its workers and its entries of r.subs leave the maps.  addTenant *)
(* that failed has unsubscribed the first responder itself.                *)
Detach(d, back, failed) ==
  LET c == tenants[d]
  IN  /\ tenants' = [tenants EXCEPT ![d] = None]
      /\ caches' = [k \in Key |-> IF k[1] = d THEN None ELSE caches[k]]
      /\ handles' = [k \in Key |-> IF k[1] = d THEN None ELSE handles[k]]
      /\ ctx' = [ctx EXCEPT ![c].stopping = TRUE, ![c].subscribed = @ /\ ~failed, ![c].expected = {}]
      /\ rec' = [rec EXCEPT !.pc = "cancel", !.db = d, !.ctx = c, !.back = back,
                            !.failed = @ \/ failed,
                            !.waiting = Handled(WorkersOf(d)), !.todo = @ \ {d}]
      /\ UNCHANGED <<registry, active, worker, consumer, onboarding, unhealthy, cancelled>>

CancelWorkers(ws) ==
  worker' = [w \in Key \X Slot |->
               IF w \in ws /\ Alive(w) THEN [worker[w] EXCEPT !.cancelled = TRUE] ELSE worker[w]]

(* The subscriptions that were in r.subs: none when addTenant failed.      *)
CancelAndUnsubscribe ==
  /\ rec.pc = "cancel"
  /\ CancelWorkers(rec.waiting)
  /\ ctx' = IF rec.back = "add"
               THEN ctx
               ELSE [ctx EXCEPT ![rec.ctx].subscribed = FALSE, ![rec.ctx].responding = FALSE]
  /\ rec' = [rec EXCEPT !.pc = "drain"]
  /\ UNCHANGED <<registry, active, tenants, handles, caches, consumer, onboarding, unhealthy, cancelled>>

(* onboardingWG: the goroutines of c that were admitted and not finished.  *)
OnboardingsOf(c) == {k \in Key : onboarding[k].ctx = c /\ onboarding[k].pc \in {"running", "start"}}

(* onboardingWG.Wait, then the workers' done channels, then Close, whether *)
(* or not the reconcile responder's callback has returned.                 *)
DrainAndClose ==
  /\ rec.pc = "drain"
  /\ OnboardingsOf(rec.ctx) = {}
  /\ \A w \in rec.waiting : ~Alive(w)
  /\ ctx' = [ctx EXCEPT ![rec.ctx].open = FALSE, ![rec.ctx].version = None]
  /\ rec' = [rec EXCEPT !.pc = rec.back, !.waiting = {}, !.ctx = None, !.db = None]
  /\ UNCHANGED <<registry, active, tenants, handles, worker, caches, consumer, onboarding, unhealthy,
                 cancelled>>

------------------------------------------------------------------------------
(* reconcile, with addTenant and reconcileBranches.                        *)

RecStep(to) ==
  /\ rec' = to
  /\ UNCHANGED <<registry, active, consumer, onboarding, unhealthy, cancelled>>

(* A tick, or the first reconciliation: the registry is loaded.            *)
LoadTenants ==
  /\ rec.pc = "idle" /\ ~cancelled
  /\ RecStep([rec EXCEPT !.pc = "remove", !.target = registry,
                         !.todo = {d \in Db : tenants[d] # None /\ ctx[tenants[d]].version # registry[d]}])
  /\ UNCHANGED <<tenants, ctx, handles, worker, caches>>

(* The registry cannot be loaded or is refused: nothing is changed but     *)
(* lastReconcileErr, and main ends when it was the first reconciliation.   *)
LoadTenantsFails ==
  /\ rec.pc = "idle" /\ ~cancelled /\ "registry" \in Fault
  /\ rec' = Resting(IF rec.first THEN "exited" ELSE "idle", FALSE)
  /\ unhealthy' = TRUE
  /\ UNCHANGED <<registry, active, tenants, ctx, handles, worker, caches, consumer, onboarding, cancelled>>

RemoveTenant(d) ==
  rec.pc = "remove" /\ d \in rec.todo /\ Detach(d, "remove", FALSE)

AddTenants ==
  /\ rec.pc = "remove" /\ rec.todo = {}
  /\ RecStep([rec EXCEPT !.pc = "add",
                         !.todo = {d \in Db : rec.target[d] # None /\ tenants[d] = None}])
  /\ UNCHANGED <<tenants, ctx, handles, worker, caches>>

(* A tenantCtx that nothing refers to.  Bound: OpenTenant waits for one,   *)
(* which matters only while callbacks of Cardinality(Ctx) removed tenants  *)
(* have not returned.                                                      *)
Unused(c) ==
  /\ ~ctx[c].open /\ ctx[c].callback = "none" /\ ~ctx[c].reconciling
  /\ \A w \in Key \X Slot : worker[w].ctx # c /\ worker[w].loaded # c
  /\ \A k \in Key : onboarding[k].ctx # c /\ caches[k] # c

(* Mutant: the cache that is left of an earlier tenant is kept.            *)
OpenTenantKeepsCache(d) ==
  /\ rec.pc = "add" /\ d \in rec.todo /\ ~cancelled
  /\ \E c \in Ctx : Unused(c)
  /\ LET c == CHOOSE c \in Ctx : Unused(c)
     IN  /\ tenants' = [tenants EXCEPT ![d] = c]
         /\ ctx' = [ctx EXCEPT ![c] = [NoTenant EXCEPT !.db = d, !.version = rec.target[d], !.open = TRUE]]
  /\ RecStep([rec EXCEPT !.pc = "subscribe", !.db = d, !.todo = @ \ {d}])
  /\ UNCHANGED <<handles, worker, caches>>

(* The database opens and passes Preflight: the tenant enters the maps,    *)
(* with an empty cache.  Preflight fails once r.ctx is done.               *)
OpenTenant(d) ==
  /\ rec.pc = "add" /\ d \in rec.todo /\ ~cancelled
  /\ \E c \in Ctx : Unused(c)
  /\ LET c == CHOOSE c \in Ctx : Unused(c)
     IN  /\ tenants' = [tenants EXCEPT ![d] = c]
         /\ ctx' = [ctx EXCEPT ![c] = [NoTenant EXCEPT !.db = d, !.version = rec.target[d], !.open = TRUE]]
  /\ caches' = [k \in Key |-> IF k[1] = d THEN None ELSE caches[k]]
  /\ RecStep([rec EXCEPT !.pc = "subscribe", !.db = d, !.todo = @ \ {d}])
  /\ UNCHANGED <<handles, worker>>

OpenFails(d) ==
  /\ rec.pc = "add" /\ d \in rec.todo
  /\ "open" \in Fault \/ cancelled
  /\ RecStep([rec EXCEPT !.failed = TRUE, !.todo = @ \ {d}])
  /\ UNCHANGED <<tenants, ctx, handles, worker, caches>>

(* The onboarding responder is subscribed first: it may receive requests   *)
(* while the second subscription is still to fail.                         *)
SubscribeOnboard ==
  /\ rec.pc = "subscribe"
  /\ ctx' = [ctx EXCEPT ![tenants[rec.db]].subscribed = TRUE]
  /\ RecStep([rec EXCEPT !.pc = "answer"])
  /\ UNCHANGED <<tenants, handles, worker, caches>>

SubscribeReconcile ==
  /\ rec.pc = "answer"
  /\ ctx' = [ctx EXCEPT ![tenants[rec.db]].responding = TRUE]
  /\ RecStep([rec EXCEPT !.pc = "add", !.db = None])
  /\ UNCHANGED <<tenants, handles, worker, caches>>

(* Either subscription fails: the onboarding responder is unsubscribed     *)
(* again, and the tenant removed.                                          *)
SubscribeFails ==
  /\ rec.pc \in {"subscribe", "answer"} /\ "subscribe" \in Fault
  /\ Detach(rec.db, "add", TRUE)

ReconcileTenants ==
  /\ rec.pc = "add" /\ rec.todo = {}
  /\ RecStep([rec EXCEPT !.pc = "query", !.target = NoTarget, !.todo = {d \in Db : tenants[d] # None}])
  /\ UNCHANGED <<tenants, ctx, handles, worker, caches>>

(* reconcileBranches: the query is a snapshot, and a branch that is        *)
(* onboarded after it is not in it.                                        *)
QueryActiveBranches(d) ==
  /\ rec.pc = "query" /\ d \in rec.todo
  /\ RecStep([rec EXCEPT !.pc = "start", !.db = d, !.snapshot = active[d], !.left = active[d],
                         !.todo = @ \ {d}])
  /\ UNCHANGED <<tenants, ctx, handles, worker, caches>>

QueryFails(d) ==
  /\ rec.pc = "query" /\ d \in rec.todo /\ "query" \in Fault
  /\ RecStep([rec EXCEPT !.failed = TRUE, !.todo = @ \ {d}])
  /\ UNCHANGED <<tenants, ctx, handles, worker, caches>>

StartActive(b) ==
  /\ rec.pc = "start" /\ b \in rec.left
  /\ StartBranch(tenants[rec.db], <<rec.db, b>>)
  /\ RecStep([rec EXCEPT !.left = @ \ {b}])
  /\ UNCHANGED <<tenants, ctx, caches>>

(* The branches of the snapshot become the expected ones.  Then, under     *)
(* r.mu, the cache is dropped, and the workers of all other branches leave *)
(* the map.                                                                *)
Sweep ==
  LET d == rec.db
      gone == {k \in WorkersOf(d) : k[2] \notin rec.snapshot}
  IN  /\ rec.pc = "start" /\ rec.left = {}
      /\ caches' = [k \in Key |-> IF k[1] = d THEN None ELSE caches[k]]
      /\ handles' = [k \in Key |-> IF k \in gone THEN None ELSE handles[k]]
      /\ ctx' = [ctx EXCEPT ![tenants[d]].expected = rec.snapshot]
      /\ RecStep([rec EXCEPT !.pc = "sweepCancel", !.waiting = Handled(gone), !.db = None, !.snapshot = {}])
      /\ UNCHANGED <<tenants, worker>>

SweepCancel ==
  /\ rec.pc = "sweepCancel"
  /\ CancelWorkers(rec.waiting)
  /\ RecStep([rec EXCEPT !.pc = "sweepWait"])
  /\ UNCHANGED <<tenants, ctx, handles, caches>>

SweepWait ==
  /\ rec.pc = "sweepWait"
  /\ \A w \in rec.waiting : ~Alive(w)
  /\ RecStep([rec EXCEPT !.pc = "query", !.waiting = {}])
  /\ UNCHANGED <<tenants, ctx, handles, worker, caches>>

(* The deferred function of reconcile keeps the error for the probe.       *)
Finish ==
  /\ rec.pc = "query" /\ rec.todo = {} /\ ~(rec.first /\ rec.failed)
  /\ rec' = Resting("idle", FALSE)
  /\ unhealthy' = rec.failed
  /\ UNCHANGED <<registry, active, tenants, ctx, handles, worker, caches, consumer, onboarding, cancelled>>

(* main ends the process when the first reconciliation fails; the          *)
(* consumers stay.                                                         *)
FirstFails ==
  /\ rec.pc = "query" /\ rec.todo = {} /\ rec.first /\ rec.failed
  /\ rec' = Resting("exited", FALSE)
  /\ tenants' = [d \in Db |-> None]
  /\ ctx' = [c \in Ctx |-> NoTenant]
  /\ handles' = [k \in Key |-> None]
  /\ worker' = [w \in Key \X Slot |-> Done]
  /\ caches' = [k \in Key |-> None]
  /\ onboarding' = [k \in Key |-> NotOnboarding]
  /\ unhealthy' = TRUE
  /\ UNCHANGED <<registry, active, consumer, cancelled>>

------------------------------------------------------------------------------
(* stop: cancel r.ctx, take reconcileMu, remove every tenant, wait for all *)
(* goroutines.                                                             *)

Shutdown ==
  /\ ~rec.first /\ ~cancelled /\ rec.pc # "exited"
  /\ cancelled' = TRUE
  /\ UNCHANGED <<registry, active, tenants, ctx, handles, worker, caches, consumer, onboarding, rec,
                 unhealthy>>

(* Mutant: stop cancels, and leaves the tenants as they are.               *)
StopKeepsTenants ==
  /\ rec.pc = "idle" /\ cancelled
  /\ RecStep([rec EXCEPT !.pc = "stop"])
  /\ UNCHANGED <<tenants, ctx, handles, worker, caches>>

StopTakesOver ==
  /\ rec.pc = "idle" /\ cancelled
  /\ RecStep([rec EXCEPT !.pc = "stop", !.todo = {d \in Db : tenants[d] # None}])
  /\ UNCHANGED <<tenants, ctx, handles, worker, caches>>

StopTenant(d) ==
  rec.pc = "stop" /\ d \in rec.todo /\ Detach(d, "stop", FALSE)

Stopped ==
  /\ rec.pc = "stop" /\ rec.todo = {}
  /\ \A w \in Key \X Slot : ~Alive(w)
  /\ \A k \in Key : onboarding[k].pc \notin {"running", "start"}
  /\ RecStep(Resting("stopped", FALSE))
  /\ UNCHANGED <<tenants, ctx, handles, worker, caches>>

ReconcilerNext ==
  \/ LoadTenants \/ LoadTenantsFails
  \/ \E d \in Db : RemoveTenant(d) \/ OpenTenant(d) \/ OpenFails(d)
                     \/ QueryActiveBranches(d) \/ QueryFails(d) \/ StopTenant(d)
  \/ CancelAndUnsubscribe \/ DrainAndClose
  \/ AddTenants \/ SubscribeOnboard \/ SubscribeReconcile \/ SubscribeFails \/ ReconcileTenants
  \/ \E b \in Branch : StartActive(b)
  \/ Sweep \/ SweepCancel \/ SweepWait \/ Finish \/ FirstFails
  \/ StopTakesOver \/ Stopped

------------------------------------------------------------------------------
(* checkReadiness.                                                         *)

(* Both responders of the tenant are in r.subs: they are entered after the *)
(* second subscription.                                                    *)
Responding(d) == ~(rec.pc \in {"subscribe", "answer"} /\ rec.db = d)

(* Mutant: the consumer of a running worker is not looked up.              *)
WorkerRuns(k) == handles[k] # None /\ Alive(<<k, handles[k]>>)

(* The branch has a handle whose goroutine runs (workerStopped), and a     *)
(* consumer (ConsumerInfo).                                                *)
WorkerReady(k) == handles[k] # None /\ Alive(<<k, handles[k]>>) /\ consumer[k] # None

Ready ==
  /\ ~rec.first /\ ~unhealthy
  /\ \A d \in Db : tenants[d] # None =>
       /\ Responding(d)
       /\ \A b \in ctx[tenants[d]].expected : WorkerReady(<<d, b>>)

------------------------------------------------------------------------------
Next ==
  \/ \E d \in Db, v \in Version \cup {None} : RegistryChange(d, v)
  \/ \E d \in Db, b \in Branch : BranchChange(d, b)
  \/ \E w \in Key \X Slot : WorkerNext(w)
  \/ \E c \in Ctx, b \in Branch : Receive(c, b)
  \/ \E c \in Ctx : CallbackNext(c) \/ ReceiveReconcile(c) \/ AnswerReconcile(c)
  \/ \E k \in Key : OnboardingNext(k)
  \/ ReconcilerNext
  \/ Shutdown

Spec == Init /\ [][Next]_vars

(* Every goroutine that can run does: the calls a worker, an onboarding or *)
(* the reconciler makes return in the end.  Requests and the signal need   *)
(* not come.                                                               *)
FairSpec ==
  /\ Spec
  /\ WF_vars(ReconcilerNext)
  /\ \A w \in Key \X Slot : WF_vars(WorkerNext(w))
  /\ \A c \in Ctx : WF_vars(CallbackNext(c)) /\ WF_vars(AnswerReconcile(c))
  /\ \A k \in Key : WF_vars(OnboardingNext(k))

------------------------------------------------------------------------------
(* A tenant's database is closed only when no worker and no admitted       *)
(* onboarding can use it any more, whatever was received, started or swept *)
(* while the tenant was being removed (removeTenant).  The reconcile       *)
(* responder's callback is the one user that removeTenant does not wait    *)
(* for: it may meet a closed database, and answers with the error.         *)
NoUseAfterClose ==
  /\ \A w \in Key \X Slot : Alive(w) =>
       ctx[worker[w].ctx].open /\ (worker[w].loaded # None => ctx[worker[w].loaded].open)
  /\ \A c \in Ctx : OnboardingsOf(c) # {} => ctx[c].open

(* A tenant whose database is closed takes no more requests: neither       *)
(* responder outlives it, also when the second subscription of addTenant   *)
(* fails after the first has begun to receive (addTenant, removeTenant).   *)
ClosedTakesNoRequest ==
  \A c \in Ctx : ctx[c].subscribed \/ ctx[c].responding => ctx[c].open

(* A service in the cache was loaded for the tenant that now has the       *)
(* database, so a changed environment is never served with the old one,    *)
(* even if a late getService of a removed worker stored it (getService,    *)
(* removeTenant, addTenant).                                               *)
CacheIsOfTenant ==
  \A k \in Key : tenants[k[1]] # None => caches[k] \in {None, tenants[k[1]]}

(* Between reconciliations nothing runs that the maps do not know: every   *)
(* worker has a handle by which it can be stopped and works for the        *)
(* present tenant, and every open database belongs to a tenant             *)
(* (startBranch, reconcileBranches, removeTenant).                         *)
NothingLost ==
  rec.pc \in {"idle", "stopped"} =>
    /\ \A w \in Key \X Slot : Alive(w) =>
         handles[w[1]] = w[2] /\ worker[w].ctx = tenants[w[1][1]]
    /\ \A c \in Ctx : ctx[c].open => ctx[c].db # None /\ tenants[ctx[c].db] = c

(* A shutdown that was asked for ends, with every goroutine finished and   *)
(* every database closed (stop).                                           *)
ShutdownEnds ==
  cancelled ~> /\ rec.pc = "stopped"
               /\ \A w \in Key \X Slot : ~Alive(w)
               /\ \A c \in Ctx : ~ctx[c].open

(* The worker of key k runs for the tenant's present version, on a         *)
(* consumer.                                                               *)
Serving(k, v) ==
  /\ handles[k] # None /\ consumer[k] # None
  /\ LET w == worker[<<k, handles[k]>>]
     IN  w.pc # "done" /\ ~w.cancelled /\ ctx[w.ctx].version = v

(* A branch that stays active, of a tenant that stays as it is, is served  *)
(* in the end, or the probe says that it is not: whatever was swept,       *)
(* onboarded, changed or failed before, and even if a worker's             *)
(* subscription failed or its consumer was deleted under it, no branch is  *)
(* silently without a worker (reconcile, startBranch, checkReadiness).     *)
ServedOrUnready ==
  \A k \in Key, v \in Version :
    <>[](registry[k[1]] = v /\ k[2] \in active[k[1]] /\ ~cancelled) => <>[](Serving(k, v) \/ ~Ready)
==============================================================================
