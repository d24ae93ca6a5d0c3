# Verification of the NoPlane control plane provider

TLA+ modules, TLC models and TLAPS proofs for the Cluster API control plane
provider in this repository.

## 1. Inventory

The program is a controller-runtime manager. It watches
`NoPlaneControlPlane` resources in a management cluster and keeps one hosted
control plane ("tenant", "plane") per resource at noplane.io.

| part | state it keeps | operations | talks to |
|---|---|---|---|
| reconciler (`internal/controller/noplanecontrolplane_controller.go`) | nothing of its own; the copy of the resource a reconcile works on | `Reconcile`, `reconcileNormal`, `resolvePlaneID`, `reconcileDelete`, `reconcileKubeconfig`, `reconcileCASecret`, `getAPIKey` | API server through the manager's cached client, noplane.io through `ClientInterface` |
| `noplane.Client` (`internal/api/noplane`) | none | `CreatePlane`, `GetPlane`, `GetPlaneByName`, `UpdatePlane`, `DeletePlane`, `GetKubeconfig`, `IsConflict`, `IsNotFound` | the service, through the generated client `hack/v1/api.gen.go` |
| fake client (`internal/api/noplane/fake`) | its planes | the same interface | the unit tests |
| resource types (`api/v1alpha1`) | finalizer, deletionTimestamp, ownerReference, pause annotation, spec, status | - | stored by the API server |
| manager (`cmd/main.go`) | informer cache, workqueue, requeue timers | start, watch, requeue, restart | API server |
| API server, garbage collector, Cluster API (external) | resource, Secrets, Cluster | optimistic locking, finalizers, ownerReference, foreground deletion | reconciler |
| noplane.io (external; only its generated handlers are in the repository) | tenants | create, list, delete, kubeconfig, provisioning | client |
| template reconciler | none | returns at once | - |

What is hard about it. A reconcile is a sequence of up to a dozen remote calls
on two systems without a transaction. The resource it decides on comes from a
cache; users, the garbage collector and Cluster API write the same resource
meanwhile; a call may fail, succeed with its answer lost, or take effect after
its caller has died; the process may restart between any two calls. What has to
survive all that is one fact, the ID of the plane in `status.planeID`: lose it
and a plane is left running, use a stale one and the wrong plane is deleted or
published. And since only the `NoPlaneControlPlane` is watched, every path that
waits for something else depends on a requeue.

What makes each part correct:

* reconciler: never forgets a plane it has recorded; creates only under its
  finalizer and never twice; never undoes newer status; signals `initialized`
  only when everything is published; converges; finishes deletions;
* client: a call is carried out at most once, and success is reported only
  with the answer of the instant it was carried out; refusals have the form the
  reconciler tests for; no answer makes it panic;
* managers: two of them do not undo each other's work or keep each other from
  converging; two resources of one name do not get one plane between them;
* API server (relied upon): a write with an old resourceVersion is refused.

`PROJECT.json` lists each hazard at its line, with the properties aimed at it.

## 2. Modules

* `NoPlaneClient` has the data of the service and one operator for what each
  operation of `ClientInterface` answers. `Client = "http"` is `noplane.Client`,
  `Client = "fake"` the test double: they answer alike on success and not on
  refusal, where only the fake returns the typed errors that `IsConflict` and
  `IsNotFound` recognise. UpdatePlane always fails with `"http"`.
* `ControlPlane` EXTENDS it with the state machine of one resource.
* `PlaneLifecycle` is what `ControlPlane` promises, without caches, conflicts,
  retries or crashes: when a plane may be started, go on record, be published,
  be stopped, be forgotten. `ControlPlane` implements it (`Lifecycle`).
* `NoPlaneTransport` is one call of `noplane.Client` as it travels through the
  generated code of `hack/v1/api.gen.go`, in both directions.
* `NoPlaneCall` is what such a call promises its caller. `NoPlaneTransport`
  implements it (`Abstract`).
* `Managers` composes two copies of `ControlPlane` that share the API server and
  the service: two processes, one resource.
* `SharedName` composes two copies that share the service only: two resources
  of one name, in two namespaces.
* `MCControlPlane`, `MCManagers` and `MCSharedName` have the constant values TLC
  needs. `NoPlaneTransport` needs none.
* The proofs about `ControlPlane` are in `ControlPlane_proofs` (types, the
  optimistic lock, the release of planes), `Record_proofs` (finalizer and
  record), and on top of that `Lifecycle_proofs` (the refinement),
  `Publish_proofs` (publication) and `Neighbour_proofs` (what other users of the
  service can and cannot disturb). `SharedName_proofs` puts two resources
  together from `Neighbour_proofs`. `Transport_proofs` is about
  `NoPlaneTransport`.

### How ControlPlane corresponds to the code

`pc` is the next remote call of the reconcile in flight. Everything between two
remote calls is one action, since nothing else can see it.

| action | code |
|---|---|
| `Reconcile` | `Reconcile` up to its first remote write: cached read, owner, pause, finalizer test, credentials, choice of branch |
| `AddFinalizer` | the `Update` that adds the finalizer |
| `CreatePlane`, `LookupPlane`, `PersistPlaneID` | path 3 of `resolvePlaneID` (1 and 2 are `KnownPlaneID`) |
| `GetThePlane`, `UpdateThePlane`, `UpdateEndpoint`, `UpdateStatus` | `reconcileNormal` |
| `FetchKubeconfig`, `WriteKubeconfig` | `reconcileKubeconfig` |
| `CheckCA`, `WriteCA`, `RecreateCA` | `reconcileCASecret` |
| `DeleteThePlane`, `RemoveFinalizer` | `reconcileDelete` |
| `CallFails` | every error return after a remote call |
| `Restart` | the process dies and `main` starts it again |
| `Deliver`, `TimerFires`, `Resync` | informer and workqueue |
| the others | users, Cluster API, garbage collector, noplane.io |

`Return(requeue)` is the end of a reconcile: an error and a `RequeueAfter` leave
a timer, `Result{}, nil` leaves nothing. `Fresh` is the resourceVersion test of
`Update` and `Status().Update`. A successful write refreshes the copy in memory
(`obj' = ncp'`), as the Go client does.

`CallFails` at a call means either that this call was not carried out or that
the call before it was and its answer was lost: the reconcile ends with an
error in both cases, with the effect of the earlier call in place. A create
request may also stay under way (`late`) and reach the service later. A late
delete is harmless, since IDs are never reused, and is left out.

### How NoPlaneTransport corresponds to the code

Every definition on the way has the name of the function it stands for:

| step | definitions | code |
|---|---|---|
| the call becomes a request | `CreateTenantBody`, `NewRequest`, `New...Request`, `NewClient`, `applyEditors`, action `Send` | `client.go`, request builders and methods of `v1.Client` |
| the request is routed and its parameter bound | `Routed`, `Bound`, `ServeHTTP` | `HandlerWithOptions`, `ServerInterfaceWrapper` |
| the service acts | `Authorized`, `Permits`, `TenantsAfter`, `Results` (external) | implementation of `StrictServerInterface`, not in this repository |
| its result becomes a response | `strict...`, `Visit...Response`, `ResponseErrorHandlerFunc` | `strictHandler` and the response objects |
| the response is parsed | `Parse...Response` | the same |
| the answer is classified | `CreatePlaneAnswer`, `DeletePlaneAnswer`, `GetKubeconfigAnswer`, `listTenants`, `Listed`, action `Receive` | the `switch resp.StatusCode()` of `client.go` |

What the code tells answers apart by is kept: the status code, whether the
content type is JSON and whether the body decodes. So an empty `tenantId` is a
404 of the router at the end of a path and a 400 of the wrapper in the middle; a
nil response object is an empty 200; a 200 without JSON is an empty list of
tenants for `listTenants` and an error for `GetKubeconfig`; a 409 is "unexpected
status". `ServeBadly`, `Intercept`, `LoseRequest` and `GiveUp` are what can go
wrong: the service fails before or after the work is done, a body is cut or is
not JSON, a response with a code of `UntypedCodes` loses its content type, a
proxy answers a code of `ProxyCodes` while the request goes on or is dropped, a
request is lost, the caller leaves. A request that outlives its caller stays in
`wire` and may be served during a later call. What a proxy answers is a text; one
that makes up JSON of the service's own schema is left out.

Two codes are taken for success without a look at the body, and the two constants
say what that depends on. With 201 in either of them, `NoNilDereference` is
false: `CreatePlane` (`client.go:63`) dereferences a `JSON201` that is nil. With
204 in `ProxyCodes`, `ImplementsCall` is false: `DeletePlane` (`client.go:115`)
reports a deletion that was not carried out. The run has every other code in both
sets, and the theorems name these as their hypotheses. No comment or test of the
repository speaks of such a proxy, so that is a limit, not a finding.

`NoPlaneCall` is also what makes `ControlPlane` right to take a call of the
service as one step. There the instant of the effect and the answer are one,
except for what `CallFails` and `LateCreate` do; in `NoPlaneCall` they are
`CarryOut` and `Return`, and nothing of the reconcile happens in between.
Go's HTTP client repeats a request by itself only when it is idempotent and
has not been answered, which for this client means a GET.

### How the compositions correspond to the code

In `Managers`, `ReconcileA` and `ReconcileB` are the steps of the two
reconciles; each is followed by what the informers of the *other* manager are
sent (`InformedA`, `InformedB`). `--leader-elect` is off by default in
`cmd/main.go`, and a leader that stalls and wakes up after another took over
behaves like manager A here. Faults of the network and crashes are left to
`ControlPlane`: here everything that fails is made to fail by the other manager.

In `SharedName` the two resources have an API server, Secrets and a manager
each, which share nothing: two namespaces of one cluster or two clusters. That
one worker would serialise two namespaces of one manager only removes
behaviours.

### Abstractions

* Plane IDs are numbers in the order of issue, 0 is the empty string. The fake
  gives every plane one ID, and its planes are ready at once.
* A kubeconfig is the plane it belongs to and whether a CA certificate can be
  extracted from it; PEM encoding and RSA keys are left out.
* A host is the tenant's hostname or the name built from its subdomain.
* The resource and its Secrets are read through lagging caches, the resource
  without bound, the Secrets by at most `MaxLag` events. `MaxLag = 0` makes the
  Secret cache follow at once. The Cluster and the credentials are read as they
  are now.
* In `ControlPlane`, one resource, one manager and one worker, and (a bound) at
  most one abandoned create request under way at a time.
* The service reports the version of a tenant as the string it was created with.
* `replicas`, `selector` and `conditions` are never touched by the code.

## 3. Runs

| run | shows |
|---|---|
| `http_safety` | the action properties and the invariant `PublishInv` with the deployed client, two faults, deletion in both modes, re-creation, foreign writes |
| `adoption` | the inductive invariants `SafetyInv`, `GuardInv` and `RecordInv` and the properties derived from them, with `spec.planeID` changing, version drift, pauses and planes that vanish |
| both of these | `ControlPlane` implements `PlaneLifecycle` |
| `fake_live` | convergence and deletion with typed errors, under a fault and an edit |
| `http_live` | convergence with the deployed client through changes of Cluster, credentials and Secrets, the Secrets read from a cache that lags by two events; no deadlock |
| `transport` | three calls of every kind, with a right and a wrong API key, under two faults and with any code but 201 and 204 from a proxy: no panic, and `NoPlaneCall` is implemented |
| `managers` | two managers on one resource, from creation through deletion |
| `shared_name` | two resources of one name, each created and deleted, under a fault: the invariant `SharedInv` and what follows from it |

The properties:

* `ReleasedBeforeForgotten`: the finalizer goes only after the recorded plane.
* `CreateOnlyUnderFinalizer`, `NeverASecondPlane`: what holds in the *stored*
  resource when a create decided on a *cached* copy succeeds.
* `StatusNeverRegresses`: the optimistic lock protects every status write.
* `InitializedImpliesPublished`: what CABPK may rely on. (Stated of what the
  controller wrote: users who delete a Secret are not in that run.) `PublishInv`
  is why; its part `KeysKept` is immediate in that run, where the Secret cache
  does not lag, and has its weight in the proof, for any lag.
* `Converges`: a resource that stays wanted is in the end converged and stays so:
  the plane on record, created or adopted, is ready, and its host, its kubeconfig
  and a CA with a key are published.
* `EventuallyGone`: no resource stays in deletion forever.
* `ImplementsLifecycle`: seen from the resource and the planes alone, all that
  stale copies, conflicts, retries and crashes produce is the lifecycle of
  `PlaneLifecycle`. In particular no plane is stopped but the one on record, and
  none goes on record that does not run or that the user did not name. It allows
  what the code really does: a late create starts a plane nobody asks for any
  more (`Ask`, then `Start`), and a plane that was started but never recorded is
  not released (see `leak`).
* `NoNilDereference`: `CreatePlane` reads `JSON201` without a test. It is set
  because every 201 comes from a handler that sets the content type first (for
  other networks see above).
* `ImplementsCall`: an answer without error is the one for the tenants at the
  instant of the effect, also when an older request is still on its way; and a
  call that the service would grant fails only if something failed.
* `ReleasedByEither`, `StatusNeverRegressesByEither`, `PublishedByEither`,
  `ConvergesTogether`: what is left of the single manager's properties when
  there are two. `CreateOnlyUnderFinalizer` and `NeverASecondPlane` are not
  among them: manager B may carry out a create it decided on before manager A
  completed the deletion. Nor would `PublishedByEither` hold with a CA secret of
  another type in place, which one manager deletes and re-creates while the
  other publishes. Those depend on leader election.
* `NoSharedPlane`, `OwnPlaneOnly`: the second resource of a name never records,
  and never deletes, the plane of the first. The price is that it waits for as
  long as the first exists. The isolation rests on the untyped 409:
  adding the type that `resolvePlaneID` tests for, which would repair
  `create_retry`, makes the second resource adopt the plane of the first and
  delete it in the end (the seeded fault `CreatePlaneErr_Typed`). A repair has
  to make the tenant name unique as well.

Five runs end in a violation and show where the code does not do what its
comments say. All are in `PROJECT.json` under "findings":

* `leak`: deletion during creation leaves the plane running;
* `create_retry`: after a crash between create and persist, adoption by name is
  unreachable, because `noplane.Client` has no typed conflict;
* `delete_retry`: a retried deletion is stuck on an untyped 404;
* `brownfield`: adoption through `spec.planeID` never initializes, because the
  kubeconfig is fetched with the still empty `status.planeID`
  (`FetchKubeconfig`, and `CheckCA` after it; with `pid` in the place of
  `obj.status.planeID` in both, the run passes);
* `stale_ca`: the CA certificate of an earlier plane is kept.

`create_retry` and `delete_retry` are the same two properties that `fake_live`
shows to hold: the difference is only which errors are typed. That is why the
unit tests pass.

### Bounds

`MaxFaults` bounds failed calls and restarts together, `MaxEdits` what users
change, `MaxPlanes` the tenants. Two faults allow a lost answer followed by a
crash of the retry; two edits allow a deletion, a re-creation and a foreign
write in between; three planes allow one for each life of the resource and one
more. Two versions are enough for a drift and its return; one foreign tenant is
enough for adoption. In `adoption` the three planes are that foreign tenant,
the one of the resource, and one that is created after the recorded one
vanished. Foreground deletion (`"foreground"` in `Env`) is on in
every run of `MCControlPlane` that deletes. A lag of two lets the Secret cache
miss a deletion and the write that follows it. Three calls (`MaxCalls`) allow an
abandoned create, a second create and a call that sees their result; two faults
allow the first to be abandoned and a later answer to be damaged. `managers` and
`shared_name` have two of everything and so the smallest environment: creation
and background deletion. Each run turns on (`Env`) the events its question is about.
`http_live` has no version drift (no client call could repair it) and no fault
(see `create_retry`). In `http_live`, the resync that controller-runtime's
informers perform is what wakes a resource whose Cluster was unpaused.

### Fairness

Weak fairness of the steps of a reconcile (the worker goroutine runs and every
call returns), of watch delivery, timers and resync, and of the environment's
duties: setting the ownerReference, ending foreground deletion, provisioning.
Users and faults are not fair. `Managers` assumes less than two copies of that:
one condition for a process's reconcile and timer, one for all deliveries and
duties. The HTTP client has no timeout, so that every
call returns is an assumption about the network.

Deadlock is checked in `http_live`, `create_retry` and `brownfield`. In the
other runs the resource may be gone or paused for good, and then nothing is
left to do.

## 4. Proofs

Each theorem holds for every value of the constants that satisfies the ASSUMEs
of the modules (which client, that the empty string is neither a name nor a
version, the types of the constants; TLC evaluates them in every run) and the
hypotheses in the table. `http` is `Client = "http"`, the deployed client.

| module | theorem | states | hypotheses |
|---|---|---|---|
| `ControlPlane_proofs` | `TypeCorrect` | `[]TypeOK` | |
| | `SafetyInvariant` | `[]SafetyInv` | |
| | `Released` | `ReleasedBeforeForgotten` | |
| | `StatusMonotone` | `StatusNeverRegresses` | |
| `Record_proofs` | `GuardInvariant` | `[]GuardInv` | |
| | `CreatedUnderFinalizer` | `CreateOnlyUnderFinalizer` | |
| | `RecordInvariant` | `[]RecordInv` | http |
| | `NoSecondPlane` | `NeverASecondPlane` | http, no `"vanish"` |
| `Lifecycle_proofs` | `LifecycleImplemented` | `ImplementsLifecycle` | http |
| `Publish_proofs` | `PublishInvariant` | `[]PublishInv` | http, `LeftAlone` |
| | `PublishedFirst` | `InitializedImpliesPublished` | http, `LeftAlone`, no `spec.planeID` |
| `Transport_proofs` | `TransportTypes` | `[]TypeOK` | `CreatedIsTyped` |
| | `NoPanic` | `[]NoNilDereference` | `CreatedIsTyped` |
| | `CallImplemented` | `ImplementsCall` | `CreatedIsTyped`, 204 not in `ProxyCodes` |
| `SharedName_proofs` | `HeldApart` | `[]SharedInv` | http, no `spec.planeID` |
| | `NoPlaneShared` | `[]NoSharedPlane` | http, no `spec.planeID` |
| | `OwnPlaneStopped` | `OwnPlaneOnly` | http, no `spec.planeID`, no `"vanish"` |

### The optimistic lock

Neither `ReleasedBeforeForgotten` nor `StatusNeverRegresses` is inductive. That
the recorded plane is gone when the finalizer is dropped was established by an
earlier call, about the copy in memory; it speaks about the stored resource only
if the two agree. `SafetyInv` says why they do. `Snapshots`: every copy (in
flight, cached, or in the watch queue) is a version the API server stored, so a
copy with the stored resourceVersion *is* the stored object, and every plane ID
in it was really issued. `Provenance`: between two calls the resolved ID is one
the copy names, a resource being resolved has no recorded ID, and
`removeFinalizer` is next only if the recorded plane is gone. The last survives a
late create because a new tenant has a new ID, which is what "was really issued"
is for; with the fake it survives because the fake has no late creates.

### Finalizer and record

`CreateOnlyUnderFinalizer` and `NeverASecondPlane` are about creates, which
carry no resourceVersion: the service accepts one however old the copy it was
decided on. So the invariants are about *all* copies. Since they speak of few
variables, `Record_proofs` first shows (`StepEffects`) that every action has one
of twenty *effects* on those variables, and then argues about the effects.

`GuardInv`: no copy with a finalizer and no deletionTimestamp is around once the
stored resource has lost the finalizer. It is lost in `RemoveFinalizer` only,
under the optimistic lock, so the copy used was the stored version; and
(`Newest`) when that version is in hand, no older one is still to come, because
the watch delivers in order and the reconcile started from the cache. `Stage`
says which copies a reconcile has in hand at which call.

`RecordInv` adds what the copies know of the plane. `History`: along cache and
watch queue, a deletion of a running plane is not taken back and a recorded ID
does not become empty under the same finalizer. `OnRecord`: a copy that asks for
the deletion of a running plane agrees with the record, and a copy that still
asks for a creation coexists only with a recorded plane of its own name.
`Established`: what the last call has shown. `StillRunning`: as long as no plane
disappears by itself, the recorded plane is there and holds the name, so that a
stale create is refused by the service; that is all that protects against a
second plane. With `"vanish"` in `Env` the property is false (the recorded plane
is gone, and a stale create succeeds beside its record), and with the fake
`RecordInv` is not even meant: there, all planes have one ID.

### The lifecycle

`LifecycleNext` maps each effect to a step of `PlaneLifecycle` or to a stutter,
from the four invariants. The attempt showed one gap in the abstract
specification: after a recorded plane vanished, a create decided on a stale copy
does start a plane. `Start` allows that now, if planes may vanish at all, and
`adoption` has a third plane so that the case happens.

### Publication

`PublishInv` follows a reconcile through its calls. `Surfaced`: the endpoint is
the hostname just read. `Delivered`: the stored kubeconfig is the one of the
plane in the copy's status. `Keyed`: the CA secret has its key when the status is
written. `KeysKept` is what `Keyed` needs, since `CheckCA` reads a cache: no
version of the Secrets that the cache has or will get shows a key that the
stored Secret has lost.

`LeftAlone` and the condition on `spec.planeID` are needed; without either TLC
finds a behaviour in which `initialized` is written too early. `LeftAlone` says that nobody else deletes the
Secrets (`"secret"` not in `Env`) and that either no CA secret of another type is
there at the start or the Secret cache does not lag: one of another type is
deleted and created again, and a lagging cache shows the key in between. With a
`spec.planeID` set in mid-life the kubeconfig stored is the one of the old
status, while the status is written with the new ID.

### The transport

`CreatedIsTyped` is that 201 is in neither `ProxyCodes` nor `UntypedCodes`.
The inductive invariant is `TransportInv` of `Transport_proofs`, which is only a
means: `n` and `of`, of which it speaks most, are not on the wire. A request
under way is exactly the one its call builds (`AsBuilt`); the one with the current number belongs to the call in progress
(`LastIsCurrent`), so a late request is never taken for it; a response waits only
for a call in progress, and a 201 has JSON (`ReadableResponse`).
For `ImplementsCall`, the lemmas go the way of a request: what is built
(`Built`), what the service does for it (`Carried`), how its answer is written by
the handler, parsed and classified by the client (`Served`, from `SuccessRead`
and `RefusalRead`), and that everything that goes wrong on the way ends in an
error (`MishapRead`, `DamageRead`, `TextIsErr`).

### Two resources of one name

What a resource relies on with `noplane.Client`, `Settled` (all of the above
but `StillRunning`), survives whatever others do at the service, as long as new
planes have new IDs (`NeighbourStep`). What it does there itself is of that form,
gets hold of no plane but a new one, and stops none but one that it holds
(`OwnStep`). `Held` are the plane IDs of all its copies and of a create that was
answered and not yet recorded. `SharedInv`, that the two resources are settled
and hold nothing in common, is then inductive, and both properties follow. A user
can of course name one plane in both resources, hence the hypothesis on
`spec.planeID`. The lemmas about `ControlPlane` are used through the instances
`AP` and `BP`; `SameA` and `SameB` say that these are `A` and `B`.

### Only model-checked

* `Converges`, `EventuallyGone`, `ConvergesTogether`: liveness; fairness and
  ENABLED are beyond the prover.
* `ReleasedByEither`, `StatusNeverRegressesByEither`, `PublishedByEither`: two
  managers; not proved yet.
* `ImplementsLifecycle` and the properties of the record with the fake client:
  no run or theorem is about them, since the fake reuses its one ID.

## 5. Not modelled

The template reconciler (empty), flags, TLS, metrics and probes of `main`, deep
copies, manifests, and the tests. Of the generated HTTP layer,
`ValidateTenantUniqueId` and the bootstrap tokens: no code of the program calls
them. `UpdatePlane` sends no request and is an error in `NoPlaneClient`.

Operators whose comment begins with "Seeded fault" are not part of the model.
Each is a plausible slip in the definition that follows it; "mutants" in
`PROJECT.json` says which property finds it.

## 6. Plan

Done: the modules above, their runs, and the theorems of section 4. Next, as
proofs:

1. `ReleasedByEither` and `StatusNeverRegressesByEither` of `Managers`, from
   `SafetyInv` of each manager: like `SharedName_proofs`, with the API server
   shared as well, so that the other manager's writes are one more kind of step.
2. `PublishedByEither`, which needs `PublishInv` of both managers and the
   hypothesis that no CA secret of another type is there at the start.
