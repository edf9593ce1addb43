------------------------- MODULE KongFileReconciler -------------------------
(***************************************************************************)
(* The reconciliation loop of KongFile objects                             *)
(* (internal/controllers/developer/kongfile_controller.go) composed with  *)
(* the proxy (CachedProxyResolver), the API server's copy of the objects, *)
(* the watch predicates and the controller work queue.                     *)
(*                                                                         *)
(* One worker: the controller never sets MaxConcurrentReconciles, so       *)
(* controller-runtime runs one Reconcile at a time; leader election is     *)
(* always on (manager/setup.go), so one controller process is active.     *)
(* What interleaves with a pass is the environment: users creating,        *)
(* editing and deleting KongFiles (through the admission webhook), other  *)
(* controllers' finalizers, crashes and starts of the controller process  *)
(* (manager.Run), and the installation of the KongFile CRD.               *)
(* Reconcile runs as one step up to its Status().Update, and the status    *)
(* write is a step of its own, so user edits fall between the two.        *)
(***************************************************************************)
EXTENDS KongFile, Naturals

CONSTANTS Keys, NoObject, FilePaths, NoFile, ServiceFaults, dbmode,
          ClassName,          \* --controller-class
          SpecsOf,            \* SpecsOf[k]: the specs users may give object k
          Annotations,        \* controller.class values users may set
          ForeignFinalizers,  \* objects may carry another controller's finalizer
          StatusFaults,       \* a status write may fail transiently
          MaxEdits,           \* bound on user creates, edits and deletes
          MaxRestarts,        \* bound on crashes of the controller process
          MaxResyncs,         \* bound on periodic resyncs
          CRDInitially,       \* whether the KongFile CRD exists at the start
          ClockSkew,          \* the controller's clock may lag the API server's
          InformerLag         \* the informer may deliver a write after a later step

VARIABLES cache, backend, configApplied,
          store,     \* API server: key -> KongFile, or NoObject when not found
          view,      \* the manager's informer cache, which r.Get reads
          queue,     \* work queue: the keys waiting for a Reconcile
          pending,   \* the pass that pushed and has yet to write its status
          clock,     \* last resourceVersion the API server issued
          edits,     \* user steps so far
          restarts,  \* controller restarts so far
          resyncs,   \* periodic resyncs so far
          acked,     \* specs of k the backend accepted in k's lifetime (history)
          up,        \* the process runs, holds the lease and its manager started
          registered,\* the KongFile controller was set up with the manager
          crd,       \* the KongFile CRD is installed in the API server
          applied    \* an UpdateObject of this process succeeded (history)

proxyVars == <<cache, backend, configApplied>>
procVars == <<up, registered, crd, applied>>
envVars == <<clock, edits, restarts, resyncs, up, registered, crd, applied>>
vars == <<cache, backend, configApplied, store, view, queue, pending, clock, edits,
          restarts, resyncs, acked, up, registered, crd, applied>>

Proxy == INSTANCE CachedProxyResolver

AllSpecs == UNION {SpecsOf[k] : k \in Keys}

\* A stored KongFile: spec, class annotation, resourceVersion,
\* status.validated, deletionTimestamp set, whether that timestamp is in
\* the past by the controller's clock, and (history) the spec the object
\* carried when its status was set to validated.
KongFiles == [spec: AllSpecs, annot: Annotations, rv: Nat, validated: BOOLEAN,
              marked: BOOLEAN, passed: BOOLEAN,
              validatedFor: AllSpecs \cup {NoObject}]

Live(k) == store[k] # NoObject

\* The informer has caught up with the API server on key k.
Synced(k) == view[k] = store[k]

\* The admission webhook (RequestHandler.handleValidation) runs
\* ValidateKongFile on every create and update; metadata.name of a stored
\* object is never empty.
Admitted(spec) == ValidateKongFile("kongfile", spec)[1]

\* Watch predicates, built with specCheckEnabled = false and
\* annotationCheckEnabled = true (SetupWithManager).
CreateOrDeletePasses(annot) == PredicateForObject(annot, ClassName, FALSE, TRUE)
UpdatePasses(old, new) == PredicateForUpdate(old, new, ClassName, FALSE, TRUE)

\* An event reaches the work queue only through the running controller's
\* informer; while the process is down or the controller was never set
\* up, events are lost.
Enqueue(k, passes) ==
    queue' = IF passes /\ up /\ registered THEN queue \cup {k} ELSE queue

\* The watch event for a change of the informer's copy from old to new,
\* through the predicates: Create, Delete, or Update.
EventPasses(old, new) ==
    CASE old = NoObject -> CreateOrDeletePasses(new.annot)
      [] new = NoObject -> CreateOrDeletePasses(old.annot)
      [] OTHER          -> UpdatePasses(old.annot, new.annot)

\* The informer applies version new of k to its cache and raises the event.
\* An object that leaves the cache ends the history of what the backend
\* accepted for it.
Deliver(k, new) ==
    /\ view' = [view EXCEPT ![k] = new]
    /\ acked' = IF new = NoObject THEN [acked EXCEPT ![k] = {}] ELSE acked
    /\ Enqueue(k, EventPasses(view[k], new))

\* A write to the API server reaches the informer in the same step, or,
\* with InformerLag, later by InformerSync.
Observe(k) ==
    IF InformerLag THEN UNCHANGED <<view, queue, acked>>
    ELSE Deliver(k, store'[k])

Init ==
    /\ Proxy!Init
    /\ store = [k \in Keys |-> NoObject]
    /\ view = store
    /\ queue = {}
    /\ pending = NoObject
    /\ clock = 0 /\ edits = 0 /\ restarts = 0 /\ resyncs = 0
    /\ acked = [k \in Keys |-> {}]
    /\ up = FALSE /\ registered = FALSE
    /\ crd \in CRDInitially
    /\ applied = FALSE

-----------------------------------------------------------------------------
(* Environment: users, other controllers, the process supervisor.  With  *)
(* InformerLag a user write waits until the informer has delivered the    *)
(* previous write of that key: the informer lags by at most one write.    *)

CreateKongFile(k, spec, annot) ==
    /\ edits < MaxEdits
    /\ crd
    /\ ~Live(k) /\ Synced(k)
    /\ Admitted(spec)
    /\ store' = [store EXCEPT ![k] = [spec |-> spec, annot |-> annot,
                    rv |-> clock + 1, validated |-> FALSE, marked |-> FALSE,
                    passed |-> FALSE, validatedFor |-> NoObject]]
    /\ clock' = clock + 1
    /\ edits' = edits + 1
    /\ Observe(k)
    /\ UNCHANGED <<proxyVars, pending, restarts, resyncs, procVars>>

\* An edit of the spec and/or the class annotation; status is untouched.
EditKongFile(k, spec, annot) ==
    /\ edits < MaxEdits
    /\ Live(k) /\ Synced(k)
    /\ ~store[k].marked
    /\ Admitted(spec)
    /\ <<spec, annot>> # <<store[k].spec, store[k].annot>>
    /\ store' = [store EXCEPT ![k].spec = spec, ![k].annot = annot,
                              ![k].rv = clock + 1]
    /\ clock' = clock + 1
    /\ edits' = edits + 1
    /\ Observe(k)
    /\ UNCHANGED <<proxyVars, pending, restarts, resyncs, procVars>>

\* The object leaves the API server.
Remove(k) ==
    /\ store' = [store EXCEPT ![k] = NoObject]
    /\ Observe(k)

\* A delete request: with another controller's finalizer the object only
\* gets a deletionTimestamp (an Update event); otherwise it is removed.
DeleteKongFile(k) ==
    /\ edits < MaxEdits
    /\ Live(k) /\ Synced(k)
    /\ ~store[k].marked
    /\ edits' = edits + 1
    /\ \/ /\ ForeignFinalizers
          /\ store' = [store EXCEPT ![k].marked = TRUE, ![k].passed = ~ClockSkew,
                                    ![k].rv = clock + 1]
          /\ clock' = clock + 1
          /\ Observe(k)
       \/ /\ Remove(k)
          /\ UNCHANGED clock
    /\ UNCHANGED <<proxyVars, pending, restarts, resyncs, procVars>>

\* The other controller drops its finalizer: the object is removed.
RemoveFinalizer(k) ==
    /\ Live(k) /\ Synced(k)
    /\ store[k].marked
    /\ Remove(k)
    /\ UNCHANGED <<proxyVars, pending, envVars>>

\* The controller's clock, behind the API server's, reaches the
\* deletionTimestamp the API server set, for the object in both copies.
\* This is no API write and raises no event.
ClockPasses(k) ==
    /\ Live(k)
    /\ store[k].marked /\ ~store[k].passed
    /\ store' = [store EXCEPT ![k].passed = TRUE]
    /\ view' = IF view[k] # NoObject /\ view[k].marked
               THEN [view EXCEPT ![k].passed = TRUE] ELSE view
    /\ UNCHANGED <<proxyVars, queue, pending, envVars, acked>>

\* The informer's watch delivers the API server's current version of k
\* (while the process is down: the next process's list reads it).
InformerSync(k) ==
    /\ InformerLag
    /\ ~Synced(k)
    /\ Deliver(k, store[k])
    /\ UNCHANGED <<proxyVars, store, pending, envVars>>

\* An administrator installs the KongFile CRD.
InstallCRD ==
    /\ ~crd
    /\ crd' = TRUE
    /\ UNCHANGED <<proxyVars, store, view, queue, pending, clock, edits, restarts, resyncs,
                   acked, up, registered, applied>>

\* The process dies or loses its lease: the work queue and an unfinished
\* pass are gone with it; the in-memory cache is unreachable until the next
\* start rebuilds it.
Crash ==
    /\ up
    /\ restarts < MaxRestarts
    /\ restarts' = restarts + 1
    /\ up' = FALSE
    /\ registered' = FALSE
    /\ queue' = {}
    /\ pending' = NoObject
    /\ UNCHANGED <<proxyVars, store, view, clock, edits, resyncs, acked, crd, applied>>

\* MaybeSetupWithManager: an enabled controller is set up only if its
\* AutoHandler (crdExistsChecker.CRDExists) finds the CRD at that moment.
CRDExists(installed) == installed

MaybeSetupWithManager(enabled, crdInstalled) ==
    enabled /\ CRDExists(crdInstalled)

\* manager.Run reaching mgr.Start: setupProxyServer builds a new, empty
\* cache store and a proxy with configApplied false; setupControllers
\* registers the KongFile controller (Enabled: true) if the CRD exists,
\* and the informer's initial list fills its cache and raises a Create
\* event for every stored object.  The list is taken key by key: while
\* the process is down InformerSync brings the cache up to date, and
\* Start then finds it equal to the API server's objects.  A run that fails earlier (Kong root unreachable, an
\* unsupported database mode) exits and changes nothing here.
Start ==
    /\ ~up
    /\ up' = TRUE
    /\ registered' = MaybeSetupWithManager(TRUE, crd)
    /\ cache' = [k \in Keys |-> NoObject]
    /\ configApplied' = FALSE
    /\ view = store
    /\ queue' = IF registered'
                THEN {k \in Keys : Live(k) /\ CreateOrDeletePasses(store[k].annot)}
                ELSE {}
    /\ applied' = FALSE
    /\ UNCHANGED <<backend, store, view, pending, clock, edits, restarts, resyncs, acked, crd>>

\* The informer's periodic resync (SyncPeriod): an Update event with the
\* same old and new object for every object in its cache.  The period
\* never ends in the code; MaxResyncs bounds it so that a liveness
\* property sees the engine's own requeues rather than the timer's.
Resync ==
    /\ up /\ registered
    /\ resyncs < MaxResyncs
    /\ resyncs' = resyncs + 1
    /\ queue' = queue \cup {k \in Keys : view[k] # NoObject
                                         /\ UpdatePasses(view[k].annot, view[k].annot)}
    /\ UNCHANGED <<proxyVars, store, view, pending, clock, edits, restarts, acked,
                   procVars>>

-----------------------------------------------------------------------------
(* Controller: one Reconcile pass per action, one action per branch of    *)
(* Reconcile.  A pass takes a key off the queue; returning an error or     *)
(* Requeue: true puts it back.  r.Get reads the informer's cache (view),  *)
(* which may lag the API server.                                           *)

\* r.Get finds the object in the informer's cache.
Found(k) == view[k] # NoObject

\* !obj.DeletionTimestamp.IsZero() && time.Now().After(obj.DeletionTimestamp.Time)
Terminating(k) == view[k].marked /\ view[k].passed

Dequeue(k) == up /\ registered /\ pending = NoObject /\ k \in queue
Done(k) == queue' = queue \ {k}
Requeue(k) == queue' = queue

\* Mutant: NotFound returns without calling EnsureProxyDeleteObject.
ReconcileNotFoundSkipsDelete(k) ==
    /\ Dequeue(k)
    /\ ~Found(k)
    /\ Done(k)
    /\ UNCHANGED <<proxyVars, store, view, pending, envVars, acked>>

\* EnsureProxyDeleteObject: a cached object is deleted through the proxy
\* and the caller requeues (Requeue: true, or the error); no cached object
\* ends the pass.
EnsureProxyDeleteObject(k) ==
    LET cached == Proxy!ObjectExistsInCache(k) IN
    \/ /\ cached = NoObject
       /\ Done(k)
       /\ UNCHANGED proxyVars
    \/ /\ cached # NoObject
       /\ \E r \in {"ok", "lost", "failed", "invalid"} :
             Proxy!DeleteObject(k, cached, r)
       /\ Requeue(k)

\* Get returns NotFound: EnsureProxyDeleteObject on the object's key.
ReconcileNotFound(k) ==
    /\ Dequeue(k)
    /\ ~Found(k)
    /\ EnsureProxyDeleteObject(k)
    /\ UNCHANGED <<store, view, pending, envVars, acked>>

\* deletionTimestamp set and passed by the controller's clock: ObjectExists on the backend; an error
\* is returned, a file found is deleted and the key requeued, and only
\* "no such file" ends the pass.
ReconcileDeleting(k) ==
    /\ Dequeue(k)
    /\ Found(k)
    /\ Terminating(k)
    /\ \E e \in Proxy!ObjectExistsResults(view[k].spec) :
          /\ IF e = "true"
             THEN \E r \in {"ok", "lost", "failed", "invalid"} :
                     Proxy!DeleteObject(k, view[k].spec, r)
             ELSE UNCHANGED proxyVars
          /\ IF e = "false" THEN Done(k) ELSE Requeue(k)
    /\ UNCHANGED <<store, view, pending, envVars, acked>>

\* Not of this controller class: nothing is done.
ReconcileOutOfClass(k) ==
    /\ Dequeue(k)
    /\ Found(k)
    /\ ~Terminating(k)
    /\ ~MatchesControllerClassName(view[k].annot, ClassName)
    /\ Done(k)
    /\ UNCHANGED <<proxyVars, store, view, pending, envVars, acked>>

\* In class and status.validated: nothing is done.
ReconcileValidated(k) ==
    /\ Dequeue(k)
    /\ Found(k)
    /\ ~Terminating(k)
    /\ MatchesControllerClassName(view[k].annot, ClassName)
    /\ view[k].validated
    /\ Done(k)
    /\ UNCHANGED <<proxyVars, store, view, pending, envVars, acked>>

\* Mutant: an UpdateObject error is logged but not returned.
ReconcileUpdateObjectDropsError(k, r) ==
    /\ Dequeue(k)
    /\ Found(k)
    /\ ~Terminating(k)
    /\ MatchesControllerClassName(view[k].annot, ClassName)
    /\ ~view[k].validated
    /\ Proxy!UpdateObject(k, view[k].spec, r)
    /\ IF r = "ok"
       THEN /\ pending' = [key |-> k, obj |-> view[k]]
            /\ acked' = [acked EXCEPT ![k] = @ \cup {view[k].spec}]
       ELSE UNCHANGED <<pending, acked>>
    /\ applied' = (applied \/ r = "ok")
    /\ Done(k)
    /\ UNCHANGED <<store, view, clock, edits, restarts, resyncs, up, registered, crd>>

\* In class and not validated: UpdateObject; on error return it, on
\* success go on to write the status with the object as read.
ReconcileUpdateObject(k, r) ==
    /\ Dequeue(k)
    /\ Found(k)
    /\ ~Terminating(k)
    /\ MatchesControllerClassName(view[k].annot, ClassName)
    /\ ~view[k].validated
    /\ Proxy!UpdateObject(k, view[k].spec, r)
    /\ IF r = "ok"
       THEN /\ pending' = [key |-> k, obj |-> view[k]]
            /\ acked' = [acked EXCEPT ![k] = @ \cup {view[k].spec}]
            /\ Done(k)
       ELSE /\ Requeue(k)
            /\ UNCHANGED <<pending, acked>>
    /\ applied' = (applied \/ r = "ok")
    /\ UNCHANGED <<store, view, clock, edits, restarts, resyncs, up, registered, crd>>

StatusOutcomes == {"ok"} \cup (IF StatusFaults THEN {"failed"} ELSE {})

\* Mutant: the status write ignores the resourceVersion read.
UpdateStatusWithoutConflictCheck(r) ==
    /\ pending # NoObject
    /\ r \in StatusOutcomes
    /\ LET k == pending.key IN
       IF r = "ok" /\ Live(k)
       THEN /\ store' = [store EXCEPT ![k].validated = TRUE,
                                      ![k].validatedFor = store[k].spec,
                                      ![k].rv = clock + 1]
            /\ clock' = clock + 1
            /\ Observe(k)
       ELSE /\ queue' = queue \cup {k}
            /\ UNCHANGED <<store, view, clock, acked>>
    /\ pending' = NoObject
    /\ UNCHANGED <<proxyVars, edits, restarts, resyncs, procVars>>

\* Status().Update(obj) with validated = true: the API server accepts it
\* only if the object still has the resourceVersion that was read; the
\* write raises an Update event.  The check is against the API server's
\* object, whatever the informer holds.  A conflict, a NotFound or a transient
\* failure is returned as an error and the key is requeued.
UpdateStatus(r) ==
    /\ pending # NoObject
    /\ r \in StatusOutcomes
    /\ LET k == pending.key IN
       IF r = "ok" /\ Live(k) /\ store[k].rv = pending.obj.rv
       THEN /\ store' = [store EXCEPT ![k].validated = TRUE,
                                      ![k].validatedFor = store[k].spec,
                                      ![k].rv = clock + 1]
            /\ clock' = clock + 1
            /\ Observe(k)
       ELSE /\ queue' = queue \cup {k}
            /\ UNCHANGED <<store, view, clock, acked>>
    /\ pending' = NoObject
    /\ UNCHANGED <<proxyVars, edits, restarts, resyncs, procVars>>

-----------------------------------------------------------------------------

Reconcile(k) ==
    \/ ReconcileNotFound(k)
    \/ ReconcileDeleting(k)
    \/ ReconcileOutOfClass(k)
    \/ ReconcileValidated(k)
    \/ \E r \in {"ok", "lost", "failed", "invalid"} : ReconcileUpdateObject(k, r)

Environment ==
    \/ \E k \in Keys, s \in AllSpecs, a \in Annotations :
          /\ s \in SpecsOf[k]
          /\ \/ CreateKongFile(k, s, a)
             \/ EditKongFile(k, s, a)
    \/ \E k \in Keys : DeleteKongFile(k) \/ RemoveFinalizer(k)
    \/ \E k \in Keys : ClockPasses(k) \/ InformerSync(k)
    \/ InstallCRD
    \/ Crash
    \/ Start
    \/ Resync

Next ==
    \/ Environment
    \/ \E k \in Keys : Reconcile(k)
    \/ \E r \in StatusOutcomes : UpdateStatus(r)

\* The work queue hands every queued key to the worker; a backend or API
\* server failure is transient, so a call that keeps being retried
\* eventually succeeds; a process that is down is started again (the pod
\* is restarted); the controller's clock keeps moving; the watch delivers
\* every write.  Users, crashes
\* and the CRD installation are not fair.
Fairness ==
    /\ \A k \in Keys :
          /\ SF_vars(Reconcile(k))
          /\ SF_vars(ReconcileUpdateObject(k, "ok"))
          /\ WF_vars(ClockPasses(k))
          /\ WF_vars(InformerSync(k))
    /\ WF_vars(\E r \in StatusOutcomes : UpdateStatus(r))
    /\ SF_vars(UpdateStatus("ok"))
    /\ WF_vars(Start)

Spec == Init /\ [][Next]_vars /\ Fairness

-----------------------------------------------------------------------------
(* Properties *)

TypeOK ==
    /\ cache \in [Keys -> AllSpecs \cup {NoObject}]
    /\ backend \in [FilePaths -> {BuildContents(s) : s \in AllSpecs} \cup {NoFile}]
    /\ configApplied \in BOOLEAN
    /\ store \in [Keys -> KongFiles \cup {NoObject}]
    /\ view \in [Keys -> KongFiles \cup {NoObject}]
    /\ queue \subseteq Keys
    /\ pending \in [key: Keys, obj: KongFiles] \cup {NoObject}
    /\ acked \in [Keys -> SUBSET AllSpecs]
    /\ {up, registered, crd, applied} \subseteq BOOLEAN

InClass(k) == MatchesControllerClassName(store[k].annot, ClassName)

\* The controller runs, its informer has caught up, its worker is idle and
\* no key waits: it changes nothing until the next event.
Quiescent == up /\ registered /\ view = store /\ queue = {} /\ pending = NoObject

\* The refinement mapping: the objects as the controller observes them (the
\* informer's cache) without their resourceVersion and history fields, and
\* the specs the backend accepted.  An API write is an abstract step when
\* the watch delivers it.
SyncObjects ==
    [k \in Keys |->
        IF view[k] = NoObject THEN NoObject
        ELSE [spec |-> view[k].spec, annot |-> view[k].annot,
              validated |-> view[k].validated, marked |-> view[k].marked]]

Sync == INSTANCE KongFileSync WITH objects <- SyncObjects, published <- acked

\* The engine implements KongFileSync: every step of the reconciler, the
\* proxy and the process is a user step, a publication, a validation or
\* no change to the objects and what was published.  In particular the
\* Status().Update that follows UpdateObject only marks validated an
\* in-class object not being deleted whose current spec the backend
\* accepted; a user edit between the push and the status write must make
\* the write fail (UpdateStatus, resourceVersion conflict check).
ImplementsKongFileSync == Sync!Spec

\* While an object is live, not being deleted and validated, the backend
\* holds the file it was validated for, with that content: no delete,
\* retry or restart path of the engine removes or overwrites it
\* (ReconcileNotFound, ReconcileDeleting, ReconcileUpdateObject, Crash, Start).
ValidatedFileIntact ==
    \A k \in Keys :
        Live(k) /\ ~store[k].marked /\ store[k].validated =>
            backend[BuildPath(store[k].validatedFor)]
                = BuildContents(store[k].validatedFor)

\* Once users stop, every live in-class object that is not being deleted
\* and that Build can map ends up with status.validated (the
\* requeue-on-error contract of Reconcile, spec section 4.6).
Converged ==
    \A k \in Keys :
        Live(k) /\ ~store[k].marked /\ InClass(k)
        /\ BuildPath(store[k].spec) # "" => store[k].validated

EventuallyConverged == <>[]Converged

\* Spec glossary, "convergence": when the controller is idle, the backend
\* holds every live, in-class object's current spec (Reconcile skips
\* objects whose status is already validated).
BackendMatchesDesired ==
    Quiescent =>
        \A k \in Keys :
            Live(k) /\ ~store[k].marked /\ InClass(k)
            /\ BuildPath(store[k].spec) # "" =>
                backend[BuildPath(store[k].spec)] = BuildContents(store[k].spec)

\* The proxy keeps "trying to remove it until its gone so that it gets
\* removed from backend data-plane" (EnsureProxyDeleteObject): when the
\* controller is idle, every backend file belongs to a live object that
\* pushed it.
NoOrphanFiles ==
    Quiescent =>
        \A p \in FilePaths :
            backend[p] # NoFile =>
                \E k \in Keys : Live(k) /\ \E s \in acked[k] : BuildPath(s) = p

\* Spec section 4.5, IsReady: in in-memory mode (dbmode "off" or "") the
\* proxy is ready only once an UpdateObject of this process has succeeded,
\* and in durable mode at once.  readyz answers with IsReady (manager.Run),
\* so a running process is ready exactly when the spec says.
ReadyIffApplied ==
    up => (Proxy!IsReady <=> (dbmode = "postgres" \/ applied))

\* Spec section 4.6, MarkedForDeletion: once the backend file is gone the
\* pass terminates; so an object being deleted stops being requeued
\* (ReconcileDeleting, ObjectExists).  Resync is bounded by MaxResyncs, so
\* only the engine's own requeues can keep the key queued forever: with an
\* ObjectExists that can report a missing file, the property holds.
DeletingSettles ==
    \A k \in Keys :
        <>[](Live(k) /\ store[k].marked => k \notin queue)

=============================================================================
