# kubeguard: a TLA+ verification of the dashboard and its engine

kubeguard scans Kubernetes manifests and clusters for misconfigurations, builds
an RBAC graph and attack paths from them, scores and maps the findings to
compliance controls, and serves the result: as a command-line gate, as an
admission webhook, as a single-tenant metrics server and as a multi-tenant
dashboard. The hard part is the dashboard backend. Its handlers, its cron
scheduler, its worker pool and its event stream run concurrently over one store
that each of them locks for the length of one call only.

## 1. The system

| Part | State | Operations | Interacts with |
|---|---|---|---|
| In-memory store (`dashboard/memstore.go`) | per tenant: clusters, registration order, lifecycle rows | RegisterCluster, DeleteCluster, RecordScan, ProvisionTenant, DeleteTenant, SeedFindings, UpsertLifecycle, and reads | every handler |
| Postgres store (`dashboard/pg/pg.go`) | rows | the same interface in SQL, retention | handlers of several processes |
| API handlers (`dashboard/api.go`, `tenants_api.go`, `lifecycle_api.go`) | the locals of each goroutine | register, delete, trigger, provision, erase, triage, waive, revoke, reads | store, source registry, audit log, metrics, broker |
| Middleware (`auth.go`, `jwt.go`, `security.go`) | JWKS key cache, rate-limit buckets | body limit, authentication, origin check, rate limit | every route |
| Audit log (`audit.go`) | entries per tenant | Write, List, PurgeTenant | every handler |
| Scan execution (`api.go` RunScan, `cli/dashboard.go`), scheduler (`scheduler.go`) | one run per scan, cron entries | scanner with retries, record, seed, gauge, audit, events | store, source registry |
| Worker pool (`workers.go`) | job queue, workers | enqueue, take, run, Close | trigger handler, scan execution, shutdown |
| Broker and stream (`broker.go`, `handleStream`, `web/src/app/useScanStream.ts`) | subscribers' buffers, the browser's query | Subscribe, Publish, unsubscribe, onEvent | scan execution, web views |
| Findings lifecycle (`lifecycle.go`) | none (pure) | EffectiveState, IsActivelyWaived, ComputeMTTR, BlockingFindings | handlers, enforcement |
| Single-tenant server (`server/server.go`), history (`history/`) | last report, metrics; a file or SQLite rows | ScanOnce, handlers, Start; Append, All | engine |
| Scan command (`cli/scan.go`, `cli/exit.go`, `waiver/`) | outputs, history | scan, gate, watch loop | loaders, engine |
| Loaders (`loader/`) | none | Load of files and of a live cluster | engine |
| Engine (`graph/`, `checks/`, `policy/`, `attack/`, `risk/`, `compliance/`, `analyzer/`, `webhook/`) | none (pure) | build graph, resolve RBAC, evaluate, paths, scores, admission | loaders, writers |
| Writers (`report/`, `compliance/` evidence, `dashboard/export.go`, `harden/`) | none (pure) | SARIF, annotations, ASFF, PDF, CSV, evidence, hardening bundle | engine |

The behaviours that are hard to get right, and hard to test:

* a scan in flight (running, queued or scheduled) while its cluster or tenant is
  deleted: `RecordScan` and `UpsertLifecycle` create what they do not find;
* handlers that read, compute and write back without holding a lock: triage,
  waivers, revocation against each other and against `SeedFindings`;
* the register/delete pair of the source registry and the store;
* the window between `RecordScan` and `SeedFindings`, and a lane that is read in
  several calls across it;
* audit entries against the purge that follows them;
* times read before the lock under which they are stored, gauges set after it;
* the worker pool's channel closed under running handlers;
* events dropped for slow subscribers;
* reports that share arrays, merged by several requests at once;
* Postgres statements that see different snapshots, and fail between each other;
* key fetches that overlap a rotation; appends that are cut short.

## 2. Modules

The dashboard:

| Module | Models | State and actions |
|---|---|---|
| `Lifecycle` | `dashboard/lifecycle.go` | operators only: row states, waiver activity, transitions, mean time-to-resolve, suppression |
| `MemStore` | `dashboard/memstore.go` | `tenants`, `clusters`, `order`, `lifecycle`: the store's maps, per tenant; one operator per method, each the whole of the code between lock and unlock |
| `Api` | `api.go`, `auth.go`, `tenants_api.go`, `audit.go`, `cli/clustersource.go` | `pc`, `req`, `local` of each call, the source registry, the audit log; `Serve` admits or refuses by role, then one action per call a handler makes to the store, the registry or the log |
| `ScanRun` | `RunScan`, `scheduler.go`, the scanner of `cli/dashboard.go` | a scan from trigger or cron firing through at most three attempts to recording, seeding, gauge and audit entry |
| `Triage` | `lifecycle_api.go` | triage, waiver and revocation, each as load, compute, write back |
| `Dashboard` | the composition | any set of concurrent calls, and a clock; the properties |
| `TriageLane` | `handleListLifecycle` | `Dashboard`, and beside it a request that reads clock, rows, clusters and reports one after another |
| `FleetView` | `Report`, `MergeReports` and the encoding of their result | arrays with length and capacity, shared between reports, and readers that append to them |
| `Queries`, `FindingQuery`, `Paging` | filtering, sorting, paging (`api.go`), `ListScans` of both stores | operators with wrapping integers; one query against a reference; a client walking pages while scans land |
| `WorkerPool` | `workers.go`, the end of `handleTriggerScan`, shutdown in `cli/dashboard.go` | handlers, channel, workers, main goroutine |
| `JobService` | what `docs/performance.md` promises of the pool | accepted jobs wait in order, run once, finish |
| `Streaming` | `broker.go`, `handleStream`, `runScanWithID`, `useScanStream.ts` | scans that publish, whether their report is kept, lost by a failing store or removed later, subscribers' buffers, and the browser's query as TanStack Query runs it (external): a fetch that is asked, answered and arrives or fails, cancelled by an invalidation once the query has data, and left running before |
| `PgStore` | `dashboard/pg/pg.go` | rows, and one action per SQL statement at READ COMMITTED, with row locks and failures |
| `Gateway` | `routes`, `auth.go`, `jwt.go`, `security.go` | requests in slots passing the middleware, the key cache and its fetches, the provider's keys, a bucket per tenant |

The single-tenant program:

| Module | Models |
|---|---|
| `History` | `history/`: the JSONL file as lines of pieces of records, so that a write that is cut short joins the next one; SQLite rows |
| `Service` | `server/server.go`: overlapping `ScanOnce`, the gauges call by call, the page with its trend, restarts |
| `ScanCommand` | `cli/scan.go`: `runScan` with its exits in the order of the code, its outputs, `watchLoop`, kills and edits |
| `Loading` | `loader/`, `graph.Coverage`: both loaders, part by part, while the parts change or fail |

The engine, each module extending one before it:

| Module | Models |
|---|---|
| `ResourceGraph` | `graph/`, `model/`: the relations the engines ask of the loaded objects, RBAC resolution included |
| `Checks` | `checks/`: the 22 built-in checks, profiles, severities |
| `AttackPaths` | `attack/engine.go`: hops, enablers, severities of the paths |
| `Report` | `analyzer/`, `compliance/`, `risk/`, `waiver/`, the gate of `cli/scan.go`, `webhook/` |
| `Hardening` | the remediations of `checks/` applied one at a time, in every way their words allow, the cluster scanned again after each |
| `Policies` | `policy/`: packs loaded strictly, compiled, evaluated on workloads or containers |
| `Exports` | posture and evidence, SARIF, annotations, ASFF, PDF, CSV, the baseline bundle |
| `Publishing` | scans with custom policies, edits of the directory, the bundle applied; what is published |

`MCDashboard`, `MCTriage`, `MCServer`, `MCStores`, `MCStandalone`, `MCSessions` and
`MCHardening` hold the instances for TLC. All but the first instantiate more than
one component, or more than one kind of behaviour of one: a variable `job` says
which a behaviour is about, and the rest stands still, so that a run is the
union of its components' state spaces and not their product. `DashboardProofs`,
`DashboardCauses`, `WorkerPoolProofs`, `GatewayProofs`, `PgStoreProofs`,
`StreamingProofs`, `FleetViewProofs` and `ServiceProofs` hold theorems.

Operators named `X_something` are not used by any specification: each is `X` with
a plausible mistake, and shows that a property notices it.

Correspondence. Where the code holds a lock for a whole method, the method is
one step. Where a handler makes several such calls, each is a step of its own,
and another call may come in between. A time that is read before a lock is
taken (`StampRecord`, `StampSeed`, `StampRow`) is a step too. Reports, findings,
clusters and tenants are model values; a report is the set of its findings. A Go
pointer is a set of at most one element in the engine modules. Names, messages,
narratives and encodings are left out.

The abstraction of the decoder: an object either decodes, and then has the
fields the engine reads, or does not, and then the graph lacks it. An image
reference is a record of what the two image checks look at.

## 3. Runs

Runs that pass:

| Run | Question | What it shows |
|---|---|---|
| `clusters` | registration, deletion, provisioning, erasure and scans of two tenants with the same cluster ids, three calls in every interleaving | the registration order lists the clusters exactly (`StoreWellFormed`); each finding of a latest report has a row or a scan about to create it (`TrackedOrPending`); scans and sourceless clusters have their causes (`StoredWithCause`); audit entries outlive what they record (`AuditSurvives`); a step stays in its tenant (`TenantIsolation`) |
| `triage` | scans, triage, waivers, revocations and erasure racing on one finding while the clock passes deadlines; and the triage lane read beside scans, deletions, triage and waivers on two clusters | lost updates do happen, but rows stay coherent (`RowsCoherent`), only approved and unexpired waivers suppress (`SuppressionIsApproved`), scans never touch a triaged row (`TriageSurvivesScans`); the lane shows only rows that were, and defaults only where there was none (`LaneShowsWhatWas`), and misses nothing that was there all along (`LaneIsComplete`) |
| `server` | requests, workers and a shutdown at any moment; and calls of every kind | accepted scans run once, in order, and none is left behind (`JobsKept`); the pool implements `JobService`, fairness included; shutdown ends; every call returns |
| `stores` | fleet views over shared arrays; pages of either store; finding queries; Postgres calls statement by statement with failures | stored reports are never overwritten (`StoredIntact`) and answers are theirs up to what overlapping views do to each other (`AnswersHold`); walks miss no scan in memory (`NoScanMissed`) and tile the listing (`PagesTile`); a page is the reference's (`PageIsRight`); Postgres keeps a latest scan (`ScansWhole`) and triaged rows (`SeedKeepsTriage`) |
| `standalone` | the server with overlapping scans, cut-short writes and restarts; `kubeguard scan` with every combination of flags, kills and write errors; the watch loop; both loaders | gauges are complete at rest, and the cached report's unless updates overlapped (`GaugesHold`); a readable history has no gap (`HistoryTold`); exit codes are true and refused scans leave no trace (`ExitTellsTheTruth`); loads are whole or fail (`LoadIsHonest`); commands end and the watch catches up (`CommandCatchesUp`) |
| `sessions` | requests through the middleware while time passes, or while keys rotate and fetches fail or come late; a browser that connects, reads and leaves while two tenants' scans publish | rate limits hold and isolate tenants (`LimitsHold`); what passes authentication passes for its own claims (`AuthSound`); a current key gets in (`KeyGetsIn`); the stream tells the truth (`StreamTruthful`), what it announced comes to be shown (`NotifiedComesToShow`), and scans never wait for browsers (`ScansNeverStall`) |
| `hardening` | every order and every way of applying the report's own fixes while waivers expire; scans with custom policies, edits and the bundle, in every output format | see below |

Runs whose property a document or comment of the repository states, and which
the code violates:

| Run | Question | Result |
|---|---|---|
| `erased_tenant_returns` | is an erased tenant gone? | a scan in flight, or a later cron firing, creates it again |
| `enqueue_panics` | does `enqueue` always say yes or no? | the channel is closed, or the pool dropped, under a running handler, which panics (and is answered 500 by the router) |
| `stream_misses_scan` | does a live view show every scan? | an event before the subscription, into a full buffer, or during the first load is lost |
| `pg_two_latest` | is there one latest scan? | two overlapping `RecordScan`s both stay latest |
| `same_name_roles` | is a Role judged by its own rules? | roles are looked up by name without namespace |

What `hardening` shows of the engine as a whole: the fix a finding carries clears
it; no fix brings up or aggravates another finding, opens or aggravates an
attack path, raises the head of the fix-first list, or costs a framework a
passed control; every hop of a path names a check that fired on the object of
that hop; webhook and scanner agree on every pod; a pod that passes the gate is admitted under the
same waivers; the fixes end with no findings and no paths; all output formats
tell of the same findings with the same grades; a custom policy breaches a control
only by taking a built-in id; the bundle adds no issue its options did not ask for,
and no rule of the policy directory is silently disabled. The exceptions that the
code has are written into the properties, as equivalences where they always occur:

* A way of fixing that the check does not see leaves the finding (`InVain`): the
  snippet of KG-008 drops ALL and leaves `add`; KG-013 scoped by `resourceNames`,
  which `RuleGrantsSecrets` ignores; KG-006 or KG-020 set on the pod while the
  container says otherwise; KG-015 set on the account while the pod says `true`;
  a Role that is not the first of its name.
* A fix concedes a finding (`Concedes`): moving a workload off a `default`
  ServiceAccount that does not mount its token uncovers KG-015, for the new account
  says nothing, and a capability granted in place of privilege, or added back after
  drop: [ALL], fires KG-008. Such a finding may head the fix-first list and breach a
  control.
* The head of the list also rises when an escape that a fix left open becomes
  another check's (`TakesOver`): without its hostPath a workload with SYS_ADMIN has its
  node hop by KG-001, and other workloads' KG-001 findings gain its path points.
* Two hops name a check that has not fired (`Unfounded`): the node-access hop of an escape
  that only a capability allows names KG-001 (`attack/engine.go:85`), and the lateral hop
  of a workload without a namespace names KG-017 (`engine.go:118`), which
  `network_checks.go:25` does not ask of "".

## 4. Bounds

* **Dashboard**: three calls, two tenants, two clusters, one finding. Every race
  the properties speak of is between two calls, and the third can undo what they
  rely on (a deletion or an erasure between a scan and a registration, a scan
  between two triages). Two tenants share both cluster ids, so a step that went
  to the wrong partition would be seen. One of the clusters is configured, the
  other is not: only the former has a cron spec. Where both are configured, in the
  lane's behaviours, one of the two registration orders is taken; nothing there depends
  on it. `MaxTime` bounds the clock,
  `Deadlines` are the dates a waiver may ask for: with the clock at 1 and then 2,
  and waivers of at most one unit, the deadlines 2 and 3 are accepted, already
  past, or too far ahead, and an accepted one can run out within the run. In
  `triage`, behaviours without the lane have one cluster and three calls, those with
  it two clusters and two calls besides one refused before. A call runs once.
  In `server`, where all kinds of calls are mixed to see them end, there are two.
  Symmetry is of calls, and only in runs without liveness properties.
* **WorkerPool**: two workers, a queue of two and four requests, so that the queue
  fills while both workers are busy. **Streaming**: two scans publish more
  events than the buffer of two holds (16 in the code), so it overflows. The browser's
  tenant has both scans or one of them (`Owners`).
* **Gateway**: two slots, two tenants and keys, a burst of two refilled by one:
  requests overlap at every step, and the bucket empties and refills. Time passes
  in one kind of behaviour and keys rotate (at most twice, with one failed fetch)
  in the other; the limiter and the key cache share no variable.
* **FleetView**: three scans, two readers, two clusters, reports of up to three
  breaches whose arrays double their capacity, of two words each: enough for an
  append in place and one that reallocates, and for half-written elements.
  **Paging**: at most four scans on pages of one or two, integers of six bits so
  that an offset near the limit wraps. **FindingQuery**: all reports of up to three
  of four findings, two of which tie in every sort key.
* **PgStore**: three calls, one cluster, one earlier scan. One tenant's partition
  is modelled, every statement but the retention's having the tenant in its
  condition.
* **Service**: three scans, one restart. **ScanCommand**: two runs with every
  combination of flags; one watching run with two edits. **Loading**: two files
  (or the fourteen kinds of the live loader) and three edits during the load.
* **Hardening**: six families of clusters. One combines the container
  weaknesses in an init container, those about privilege and the others apart
  (only the former are read or fixed together), one combines exposure, escape, token,
  RBAC and network policy for one workload, one has several workloads, among
  them a pod that shares host namespaces and one that does not decode, one has
  objects without a namespace, one has two privileged workloads beside an exposed one
  that escapes by path and capability, and one two Roles of one name. The checks
  look at one container, one workload or one relation at a time, and only the
  breadth bonus, the paths and the exposure severity join several, which the
  families with several workloads cover. `NeededCaps` is what a privileged container
  may have needed (SYS_ADMIN, which is dangerous, or nothing), `Required` what a wildcard
  rule was for (something harmless, or Secrets). `MaxTime` is 1, when all waivers run out.
  **Publishing**: six clusters, policy directories that load, with ids of their own or
  of built-in checks, and that fail for each reason, eight CEL expressions for its outcomes, four sets of bundle options.

`CHECK_DEADLOCK FALSE` is used for `hardening`, `same_name_roles` and `standalone`,
where a hardened cluster, a command that has exited and a finished load have nothing
left to do. In the other models the end of the last call is a stuttering step.

## 5. Fairness

* `Dashboard!Fairness`: weak fairness of each entered handler. The Go runtime
  schedules goroutines, the store's lock is held for bounded work, and the
  retry loop stops after three attempts. Nothing makes requests arrive.
* `WorkerPool!Fairness`: weak fairness of each worker and of the main goroutine.
  Handlers are not assumed to make progress, and no interrupt need come.
* `Streaming!Fairness`: weak fairness of started scans. `NotifiedComesToShow` adds,
  as its premise, that the client's reader and its fetches go on, and excepts fetches that
  fail, events that overtake the first load, and scans that are removed.
* `Gateway!Fairness`: weak fairness of a request's steps (its fetch of the keys, which
  has a timeout, included), and strong fairness of the arrival of usable requests:
  the client of `CurrentKeyAccepted` is one that keeps asking.
* `ScanCommand!Fairness`: weak fairness of the command's own steps. Edits and kills
  need not happen.
* `Hardening!Fairness`: weak fairness of a remediation that changes the cluster. It is an
  assumption about the operators of the cluster, not about the code: somebody keeps
  applying fixes, and where one way changes nothing any more and the finding stands,
  takes another. Who only ever applies the snippet of KG-008, or scopes by
  `resourceNames`, never gets to zero.

## 6. Proofs

TLC checks the instances above; the theorems hold for every value of the
constants that satisfies the named assumptions: any sets of tenants, clusters,
findings, calls, requests, workers, slots and browsers. An invariant is in
most cases not inductive by itself; each theorem below says what was added and why.

**The dashboard** (`ApiAssumption`: the home tenant is one, the configured clusters
are finitely many and at least one, times are naturals).

* `DashboardProofs!TypeCorrect`: the type invariant and `OrderListsClusters`, that the
  list of registered clusters has no duplicates and the elements of the map's
  domain. The inductive invariant `TInv` adds `ControlOK`, which ties a call's position
  to its operation and its locals: without it the report a scan stores, or the
  row a triage writes, would have no type. That every store method keeps
  `StoreTypeOK` and `OrderListsClusters` is proved once, method by method; the
  work is in removing a cluster from the list. All the theorems on the dashboard
  rest on `TInv`.
* `DashboardProofs!FindingsTracked`: `TrackedOrPending` is inductive relative to `TInv`.
  A new report comes with the scan that seeds it; a row goes away only together
  with its cluster.
* `DashboardProofs!Isolation`, `TriageSurvives`: action properties, by cases on the seven
  steps that change the store (`StoreSteps`).
* `DashboardProofs!RowsStayCoherent`, `MTTRIsComplete`: a row is written from a copy
  read several steps before, so row coherence is not inductive by itself. `RowsInv`
  adds that no row is newer than the clock, and `CopiesOK` that every copy in a
  handler's hands is coherent and every deadline it carries was validated.
* `DashboardCauses!AuditLogSurvives`: `LogInv` adds the two positions of an erasure between
  its audit entry and its end, when the entry must be there already.
* `DashboardCauses!SuppressionApproved`: `GrantInv` speaks of every accepted row, expired
  or not, reported or not, for a scan may report the finding again. A stale copy
  that is written back never carries a waiver of its own: triage clears it,
  a waiver sets its own deadline, a revocation removes it.
* `DashboardCauses!EverythingHasACause`: a stored scan is followed to the one call
  that stored it (`ScansBelong` is inductive relative to `TInv`), and `SourceInv` adds to `NoDanglingCluster` the calls that are about
  to register or record a cluster whose source may already be withdrawn.

**The triage lane** (`LaneAssumption`: a request is about one cluster or the fleet).

* `DashboardCauses!LaneTruthful` and `LaneComplete`, by `LaneInv`, over any number of calls of any
  kind beside the request. It takes in `TInv`, `RowsInv` and `CopiesOK` of the dashboard, and
  says how far the request's copies go back: a copied row was held, a key of the scope that
  is not in the copy was without a row (`Copied`); a finding that stays reported is
  listed or its cluster is still to be read (`Ahead`), which needs `OrderListsClusters`;
  every row that was held can be measured (`HeldMeasurable`), which needs row coherence, so
  that the summary skips no resolved item. `LaneInv` was checked with TLC first.
* The attempt corrected the property. It used to say that a finding shown by default was
  reported and untracked *at one moment*, and held for the two calls of the run. It is not
  so with three: a cluster is deleted between `RecordScan` and `SeedFindings` of a scan, the
  lane copies the rows, the scan seeds its row, a second scan brings back the cluster with
  the finding, and the lane shows it as untouched. What holds is that it was without a row, and reported then or later.

**The worker pool** (`PoolAssumption`: a queue of at least one).

* `WorkerPoolProofs!PoolKeepsJobs`: `Inv` adds to the type invariant and `QueuedOnce` where
  a queued request is (`Placed`) and what the shutdown has done (`Closed`).
* `WorkerPoolProofs!Refinement`: each step is a step of `JobService` or a stutter, with
  the channel as `waiting`, busy workers as `running`, and queued requests that
  were run as `finished`.

**The gateway** (`GatewayAssumption`, `RequestAssumption`: a burst of at least one, any
rate, any requests of the record type).

* `GatewayProofs!LimiterSound`: the bound on what passes is not inductive, for it
  does not mention the bucket. `Accounted` does: what was admitted and what is left
  is at least the burst and at most the burst and what has flowed back.
* `GatewayProofs!AuthenticationSound`: `KeyIsForJWT` adds that only a request with a JWT is
  at a key fetch, so that the late answer of one cannot let another kind in.

**The Postgres store** (`FreshIds`: a new scan's id is not an earlier one's, for the
ids have a random suffix, `api.go:136`).

* `PgStoreProofs!ScansStayWhole`: a deletion removes the rows its statement's snapshot
  saw, and rows committed since survive it. That one of those is the latest needs
  `UnseenKept` (what a deletion did not see has a latest scan that it did not see),
  which another deletion keeps only because of two snapshots of a cluster one
  contains what is left of the other (`SnapshotsNested`). That two latest scans
  overlapped needs `RunningOverlap` and `MissedOverlap`: a latest scan that a
  transaction will not clear ran beside it. `PInv` was checked with TLC for three calls,
  two clusters and an earlier scan before it was proved.
* `PgStoreProofs!TriageKept`: the action property, by cases on the statements.

**The stream** (`BufferSize \in Nat`).

* `StreamingProofs!StreamIsTruthful`: `SInv` adds to `StreamTruthful` that a scan past its
  storing is in the store, unless the store lost it or it was removed (`StoredLanded`), without which the completion about to
  be published might announce nothing, and that announced scans are over
  (`NotifiedIsOver`), without which a scan could still land after the browser had
  refetched for it. The proof goes channel by channel: `Publish` appends to it
  or drops the event, the reader takes from its head.

**Fleet views** (`OrderAssumption`, `FleetAssumption`: the clusters are listed by a
sequence, a report has at most `MaxBreaches` breaches of at least one word each, and an
array has room for what it was grown to hold; how much more, is left open).

* `FleetViewProofs!StoredReportsIntact` and `AnswersKept`, by one inductive invariant,
  `FleetInv`. `StoredIntact` is not inductive, for nothing in it says where the next append
  writes. `Header` says it: a request on a shared array is on that of its first report,
  past that report's breaches and inside the array, so what it appends lands behind them.
  `FirstKept` says of the copies what `StoredIntact` says of the store, which is all that is
  left when other requests write behind the same breaches; `Header`, `Private` and
  `Position` keep the length of what is merged at that of the reports merged so far; and
  `AloneKept` adds, for a request beside which no other was in flight, that every word
  behind its header is the right one, half-appended elements included.
* What the two loops compute (the latest reports in registration order, the breaches of a
  list of reports) is proved by induction on the number of rounds: `SetInduction`, from the
  least element of a set of naturals, says of a set what the library's theorem says of a
  predicate. `ChainExists` and `ChainUnique` show that the recursive function of a loop is
  defined, and `SoFarNext` that one more round appends one more report.

**The service's gauges** (`ServiceAssumption`: scans are told apart from the marks of an
unset series, the gauge vectors are distinct, labels come in lists).

* `ServiceProofs!GaugesTellScans`, over any number of overlapping scans, any vectors and
  labels, and any number of restarts. That no series is missing at rest says nothing of
  the steps before, so `Covered` does: a series without a scan's value has a call of
  `updateMetrics` *ahead* of it, which has yet to look it up or holds the registered gauge
  it is about to set. It is kept because whoever unregisters a series is then ahead of it
  (`UpdateEffect`), though the gauges in the others' hands become worthless. `Alone` says
  the same of the cached report's own call as long as no two updates ran at once; `Shape`
  adds to the types that a call outside `updateMetrics` stands at its start and holds nothing.

Only model-checked, and why:

* everything that speaks of eventually (`CallsReturn`, `ShutdownCompletes`, the fairness
  in `ImplementsJobService`, `KeyGetsIn`, `NotifiedComesToShow`, `ScansNeverStall`,
  `CommandCatchesUp`, `FixesReachZero`): fairness and `ENABLED` are beyond the prover;
* what is computed by sorting, folding or `RECURSIVE` operators (`PageIsRight`, `PagesTile`,
  `NoScanMissed`, `HistoryTold`, `LoadIsHonest`): the
  library's theorems about these take an operator as a parameter, which the provers do not
  instantiate, so each would need an induction of its own as in `FleetViewProofs`, and
  `RECURSIVE` has none;
* the engine (`EnablersFired`, `WebhookAgrees`, `OneStory`, `FixClears`,
  `FixesOnlyHelp`, `RescansHonest`): the scoring sums over sets, and the checks are
  22 definitions over records, which the solvers do not find their way through;
* `ExitTellsTheTruth` is within the prover's reach in principle and has no proof yet.

## 7. Behaviour seen and not given a run

Stated as a definition, and not kept by the code:

* `FleetView!FleetIsMerge`: overlapping fleet views can swap breaches in their answers,
  because `MergeReports` appends to an array that the stored report shares.
* `Service!GaugesShowLatest`: overlapping `ScanOnce` can leave gauges of the older scan,
  or a mixture.
* `Loading!GapsDisclosed` for manifest files: a workload that does not decode counts as
  assessed and is not looked at.
* `Publishing!PdfCountsPaths`: the line "Attack paths" of the PDF counts the critical paths,
  and the narrative below it tells all of them.
* `ScanCommand!WatchCatchesUp` for a directory: the loop compares the modification time
  of the path, so an edit inside it is not seen.
* `Paging!NoScanMissed` for Postgres: the order of scans of one second may differ from
  page to page.

Not stated, or stated as an exception of a property:

* A custom policy may take the id of a built-in check, and then its findings fail that
  check's controls (`PostureOwned`), though `docs/custom-policies.md` says "without
  distorting the honest-metrics posture".
* The triage lane can show a finding as open and untouched that had a row whenever it
  was reported, because rows are read before reports (see the triage lane in section 6).
* A deleted cluster returns by the same route as an erased tenant.
* Deleting an unknown cluster returns before the audit entry, though the comment at
  `api.go:256` says "Audited either way".
* The live indicator of the web view is set once and never reset.
* The stored scan times need not be in the order of storing.
* A failed Postgres transaction in `RecordScan` is logged, and the scan is announced as
  succeeded.
* `RuleGrantsPodCreate` does not see a wildcard as granting `pods/exec`; KG-021 and KG-022
  have a remediation summary but no snippet.

## 8. Not modelled

Rendering of the web views and their session, which is a token in the browser's
storage; the layout and wording of reports, the console and HTML pages, the Kyverno
and Gatekeeper text of the bundle; response headers, request logs and traces; YAML,
JSON and CEL themselves, which are libraries and stand here for their outcomes;
field-by-field decoding of objects, the parsing of waiver files and of the embedded
compliance packs, and the rounding of rates; reading a kubeconfig; TLS. The query
handlers that only encode what the store returned (posture, history, audit) and the
single-statement reads of Postgres change no state. Roles are decided in `Api` and
signatures in `Gateway`, each without the other's detail.
