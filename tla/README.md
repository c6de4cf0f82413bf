# PulseGuard: a TLA+ verification of the decision-automation platform

PulseGuard decides what to do about network incidents. Operators edit versioned
*rule packs*; the *active* pack is evaluated against every incident; the decision's
priority, actions, SLA timers and escalations follow from the rules that match.
This directory models the parts of the code in which a wrong order of steps, a race
or a failure would put the wrong policy in service. It is read beside
`src/`; every definition that stands for code is listed with its lines in
`PROJECT.json` under `map`.

## 1. Inventory

| Component | State | Operations | Made hard by | Correct when |
|---|---|---|---|---|
| Rule-pack lifecycle (`use_cases/rule_pack_lifecycle.py`, `rollback_rule_pack.py`, `seed_active_policy.py`) | none between requests: a copy of a pack, checked and handed on | create, import, PATCH, publish, activate, rollback, delete, startup seeding | check and write are separate transactions; crash between commit and audit | the status follows `_ALLOWED_TRANSITIONS`, only validated packs are active, packs are frozen once published |
| Rule management (`manage_rules.py`) | as above | create, update, delete, bulk create of rules of a draft | the whole pack is written back | no edit loses another |
| PostgreSQL repository (`postgres_rule_pack_repository.py`, `db/models.py`) | `rule_sets` and `rules` | `save`, `update_metadata`, `update_status`, `soft_delete`, `activate` | `lock_version`, tested only when a column changes; no usable unique constraint | no UPDATE overwrites an unseen one; one active version per name, which the hot path finds |
| Policy cache (`rule_cache.py`, `core/cache.py`, `redis_cache_backend.py`, notifier) | L1 `_value`/`_loaded_at`, `_last_known_good`, Redis pointer and snapshots | `get`, `refresh`, warmup, notification | threads without a lock, several replicas, slow writers, Redis and PostgreSQL failing, restarts | what is served is not too old; a warm replica always answers; replicas converge |
| In-memory repository | a dict keyed by name and version | the same port | renames keep the old key | refines the same lifecycle |
| Decision pipeline (`orchestrator.py`, `domain/services`) | none: locals of one `run()` | match, resolve, comply, fill the target, score, plan | ties between rules nothing orders; suppressors, groups, floors and bumps combined; bands outside the four, durations that are no numbers | agrees with the design said of sets; explains itself; independent of rule order |
| Condition evaluators (`engine/evaluators`) | none | recursive evaluation of a condition tree | missing fields, types | total; agrees with the usual reading |
| Incidents and evaluation (`manage_incidents.py`, `evaluate_incident.py`, `bulk_evaluate.py`) | incidents, decisions | create and evaluate, one or many | three transactions for one incident; bulks that stop or go on; crashes; overlapping creations of one id | status, answers and records fit together |
| Simulation, replay, comparison (`simulate_rules.py`, `replay_simulation.py`, `compare_rule_packs.py`) | none | runs of the pipeline on what is stored | reads of incident and decision are separate | nothing is stored; an unchanged pack gives an unchanged decision |
| SLA and escalation jobs (`app/jobs`), acknowledgement, override | decisions, escalation events, overrides | two sweeps, acknowledge, override | repeated, late and concurrent sweeps; a priority that changes the policy | levels open in time, and in the end while nobody answers; priorities climb only when late, and then do |
| Authentication and authorisation | users, roles, tokens | register, login, refresh, permission check | tokens outlive a change of user or role | a change takes effect within an access token's life |
| Rate limiter | a window per client and process | admit | window edge, whole seconds | bounded admissions; who waits gets in |
| Condition evaluators, rule-pack loaders (`engine`, `*_loader.py`) | none | translate and evaluate a condition | missing fields, odd types, missing operands, one or many conditions | what the file says is what is evaluated |
| AI assistance, schemas, wiring | none of their own | translation | | not modelled |

Interactions. A request goes router -> use case -> repository -> PostgreSQL. After
activate, rollback and delete commit, the use case notifies the *in-process*
notifier, on which each replica's `RuleCache` is subscribed: it refreshes
this replica's L1 and, when configured, Redis. The other replicas learn of the
change from Redis or the expiry of L1. Evaluation calls `get_active(region)`, which
reads that cache. The audit entry follows in yet another transaction. An evaluation saves a
decision, which the jobs, run by a scheduler outside the repository, read and change.

What can go wrong and is hard to test is listed, line by line, under `hazards`.

## 2. Modules

| Module | What it is |
|---|---|
| `RulePackLifecycle` | lifecycle, rule management and PostgreSQL repository |
| `MCRulePackLifecycle` | the tables its runs start from |
| `RulePackLifecycleProofs` | types, the optimistic lock, what holds one request at a time, activations that race, and the refinement |
| `RuleCache` | policy cache of every replica, Redis, the active row |
| `MCRuleCache` | threads and replicas of its runs |
| `RuleCacheProofs` | its theorems |
| `DecisionPipeline` | one evaluation of an incident, service by service |
| `MCDecisionPipeline` | the rules, packs and incidents of its run |
| `DecisionPipelineProofs` | its theorems |
| `ActivePolicy` | what the lifecycle promises: one serving version per name, replaced in one step |
| `LifecycleRefinement` | the lifecycle's state as a state of `ActivePolicy` |
| `Incidents`, `MCIncidents`, `IncidentsProofs` | incidents, evaluation, decisions, simulation and replay |
| `Jobs`, `MCJobs`, `JobsProofs` | SLA sweep, escalation sweep, acknowledgement, override |
| `Access`, `MCAccess`, `AccessProofs` | users, roles, tokens and what they permit |
| `Conditions`, `ConditionsProofs` | loaders and condition evaluators |
| `RateLimit`, `RateLimitProofs` | the rate limiter |
| `MCConditions` | inputs for `Conditions` and `RateLimit`; they share no state, and a behaviour is one of the one or of the other |

Operators commented `Mutant:` are changed forms of the definition next to them. They
are not part of the specification; each breaks the property `PROJECT.json` names, which
shows that the property depends on that line of the code.

### 2.1 RulePackLifecycle

* `rows` is `rule_sets` with its `rules`. A rule is its code with one of `Body`: absent,
  valid or not, enabled or not (`delete` of a rule disables it).
* `pc[h]`, `req[h]`, `tx[h]` are a handler's next statement, what its use case
  holds (`seen`: the pack it read and checked; `pack`: what it will hand over;
  `expect`: `expectedLockVersion`, 0 for none) and what the repository's own session
  loaded.
* A use case is one action up to its first repository call: `UpdateMetadata`,
  `SoftDelete`, `Publish`, `Activate`, `CreateRule`, ... Its guard is the conjunction of
  its early returns; a request refused there is no step. `Rollback` and
  `CreateRulePack`/`ImportRulePack` read twice and go on in `RollbackToParent` and
  `ListVersions`, and seeding, whose `get_active()` and `get()` are sessions of their own, in
  `SeedFind`.
* A repository method is one action for each statement that reads and one for the commit:
  `LoadRow` and `CommitMetadata`, `CommitStatus` or `CommitSoftDelete`; `LoadTarget`,
  `LoadActives` and `CommitActivate`; `SaveExisting` and `CommitSave`, or `SaveNew` and
  `CommitInsert`. A commit is atomic: row locks are held from the UPDATE to the COMMIT.
* `ActiveRows(n)` are the versions of `n` whose status is active; `ServedRows(n)` those of them
  that the hot path's query returns (`postgres_rule_repository.py`: no region, `deleted_at` null).
  Nothing in `activate()` sees to it that they are the same. `VisibleSpec` is `Spec` for clients that
  activate, and roll back to, only versions that query can see (`Visible`).
* `StillLoaded` is the `WHERE lock_version = ...` of `version_id_col`. SQLAlchemy
  emits no UPDATE when no column of the row changed: `CommitUnchanged` and the
  first disjunct of `CommitSave` therefore neither test nor raise the lock.
* `Abandon` is every failure after the first statement (400, 404, 409, 500, or the process
  dying): nothing is rolled back but the open session. `WriteAudit` is the audit
  transaction and the response.

Abstractions. `tenant_id` has no value (no query reads it), but a PATCH of it is an UPDATE.
A rule deleted and created again under the same code is the same rule. In `save()` the
SELECT of the row and the lazy SELECT of its rules are one step. The unique constraint
on (name, version, region, tenant) never applies, as NULLs are distinct and `save()`
never stores a tenant. The audit log is not stored. The `TTLCache` the repository
itself invalidates is read by nobody. `BulkCreateRules` is a sequence of `CreateRule`.

### 2.2 RuleCache

* `active` is the pack the hot path's query finds: a generation, one for each activation,
  and the region it is for. `since[g]` is the time since generation `g` was superseded.
* `l1[r]` and `lkg[r]` are the attributes of replica `r`'s cache objects; `pointer` and
  `snapshot[k]` are the Redis keys with their remaining lifetimes. `pc[t]`, `job[t]` are a
  thread's next statement and locals.
* `Get` is a `get()` that finds L1 cold or stale (a hit changes nothing and is no step);
  `Activate` is a commit followed by this replica's notification, `Refresh` the notification
  of a deletion or of another name's pack. The steps are the shared reads and
  writes, in the code's order: `ReadPointer`, `ReadSnapshot`, `LoadSource` or `LoadFails`,
  `Propagate` (`_last_known_good` and the snapshot), `SetPointer`, `Install` (`_value`),
  `Stamp` (`_loaded_at`), `Return`.
* Every Redis call may fail when `"redis" \in Faults`, every load when
  `"postgres" \in Faults`; `Crash` empties a replica. Redis itself is external: SET with
  an expiry and GET.
* Time is relative: `Tick` ages everything by one unit, up to caps beyond which a
  value no longer matters. `MaxFlight` bounds how long one `get()` or `refresh()` may take;
  it stands for the client timeouts and is the only timing assumption.

### 2.3 DecisionPipeline

* `pack` and `incident` are the inputs; `stage` is the service of `PipelineOrchestrator.run`
  that comes next; `order`, `actions`, `suppressed`, `risk` and `plan` are `run`'s locals.
* One action per service: `Evaluate` (`active_rules()` and matching), `Resolve` or
  `ResolveFails`, `Comply`, `FillTarget`, `Score`, `BuildPlan`. What a service computes is an
  operator named after the method or the idea: `Effective` (`_apply_suppression`),
  `GroupWinner`, `MergedField`, `FinalPriority`, `RiskScore`, `ExecutionPlan`.
* The order of the rules is a choice. `RuleSetORM.rules` has no `order_by`, and
  `active_rules()` sorts stably by family order and weight: `Orders` are the sequences that
  sort may return. Where the code's `max()` keeps the first of equals, so does `FirstBest`;
  `Among(s, cs)` is a list comprehension with a condition.
* The second half of the module says what a pack decides without any order, as section
  3b of `docs/decision-engine-design.md` does over the *set* of matched rules:
  `Decides(f, v)` and `RaisedFrom(v, w)`. It gives a set of values where the design
  leaves a choice. `ResolvedAsDesigned` compares it with the code's walk over lists.

Abstractions. A condition tree is whether the incident satisfies it and its number of leaves.
A band is a number, `Unknown` any other string; a duration keeps its unit, as "1 hours" and
"60 minutes" are different values of equal length, or is one that does not begin with a number,
over which `_merge_field` raises when it is contested (`CannotMerge`). One free-form field stands for all. Left
out, because nothing later in `run()` reads them: the merge of mitigations,
`slaResolutionMinutes`, the risk band's name, confidence, the explanation's wording.

### 2.4 ActivePolicy and LifecycleRefinement

`ActivePolicy` has one variable, the name and stage of every version, and four steps:
`HandOver` from one serving version to another of the same name, `Withdraw` of a version that
does not serve, `Rename` of one in preparation, and `PutInService` under a name that was not in
service from the start, of which nothing is promised: two first activations of such a name may
both commit. `LifecycleRefinement` reads it off
`rows` (`StageOf`); every step of a session, and every commit that changes only rules or the
tenant, is a stutter. A version serves when the hot path finds it: an active row that is
soft-deleted or of a region is as good as withdrawn. `HandsOverAtomically` says that the handlers
implement it, when names are in service and clients send their lock and activate visible versions
(`VisibleSpec`).

### 2.5 Incidents

* `incidents[i]` is the row or object of an id, `decisions[i]` the decisions in the order in
  which they were saved. `req[h]` is a handler's request: `todo` and `done` are the items of a
  bulk, `inc` its Incident object, `seen` the row `session.get` returned, `err` whether an
  exception is on its way. `sub` tells which item of which request a record stems from.
* `Submit` is POST /incidents, /incidents/bulk, /incidents/evaluate and /evaluate/bulk. An
  item of a creation is `Load`, `Write` (save), `Decide`, `Store` (the decision), `Load`,
  `Write` (the status); of an evaluation, `Decide` and, when it persists, `Store`. `ItemDone`
  is the difference between the two bulks: one stops at a failure, the other isolates it.
* `RowWritten` is the UPDATE SQLAlchemy emits, of the columns that differ from `seen`. In
  memory the repository holds the handler's object, so assignments are in the
  store at once (`Publish`).
* `TransactionFails` is a transaction that raises, its commit done or not; `get_active()` may
  raise in `Decide` too (no active pack, or no database); `Crash` is the end
  of the process, with the stores in memory. `Aggregated` lets any providers fail.
* `WhatIf`, `ReplayRead`/`ReplayCompare` and `Compare` are the simulation endpoints.
* A decision is the payload, context and pack it was made from: equal ones
  give equal outcomes, which is `Reproducible` of `DecisionPipeline`, ties excepted.

### 2.6 Jobs

* The scheduler is external. `EscalationBegin`/`EscalationStep` and `SlaBegin`/`SlaStep` call
  `run()` for the listed decisions, in any order, and save what it returns. `Due` and
  `Furthest` are the loop of `EscalationSweep.run`; `Checked`, `Overdue` and `Bumped` that of
  `SlaBreachSweep.run`, which ends at a target it cannot parse and passes over a priority that is
  none or no band.
* A decision's `decided` is the priority it was made with; nothing reads it but `OverdueIsBumped`.
* `Timeouts` are the default policies. In PostgreSQL the objects a job or an acknowledgement
  changes are copies, and no repository has a method to write them back.

### 2.7 Access

* `users`, `byEmail` (the in-memory index), `roles` and `tokens`. Registration is a check and
  a save; login reads the user and saves it again, `LoginLoad` and `LoginSave` as for
  incidents. `Permitted` is `get_current_principal` followed by `require_permission`.
* `ChangeUser` and `ChangeRole` are an administrator's, external: the fields are read by the code
  and written by no endpoint. `off` and `without` record when a user was last active
  and last had a role.

### 2.8 Conditions and RateLimit

* A behaviour of `Conditions` loads one rule (`LoadSla`, `LoadVast`, `LoadPrefixed`,
  `LoadPlain`) and evaluates it on one payload (`Match`). A value is a record tagged with its
  Python kind; exceptions are values, passed on as the code does: `ValueError` is caught by
  `is_satisfied_by`, `TypeError` and `IndexError` are not.
* `TreesUpTo[k]` are the condition trees of height at most `k`, over any literals, paths and
  operators, known or not, with any number of operands: an operator that reads `args[0]` or
  `args[1]` and has none raises (`Operand`). Left out are text where a list of operands should be,
  which Python would take letter by letter, and the ordering of lists. Each recursion of the code over
  a tree (`RuleEngine.evaluate`, `_count_leaves`, `_strip_incident_prefix`) is a recursive function
  on `Tree`, the trees up to `MaxHeight`.
* `{"var": path}` is a "var" node and `{"var": [path]}` a "listed" one. `Read` reads both,
  `Stripped` strips the first only, as the code does. `StrippingIsANamespace` leaves out trees with
  such a path into the namespace (`Unmoved`), and those with a variable that is the whole payload, or
  `incident` with nothing behind it: `_strip_incident_prefix` keeps these paths, so what they
  name is not what the file's author could have meant.
* `Relates`, `Holds` and `EveryOrSome` say what a file's conditions mean, without trees, a missing
  field making a condition false as section 3b of the design has it;
  `TranslationKeepsMeaning` compares. It leaves out the payloads on which the code and the design
  differ, those that lack the field of a `!=`, or of an `==` with null (`TakesNone`). The operators
  themselves (`Member`, `Less`, `Product`) are shared by both sides; the translation, the joining and
  the evaluation of trees are not.
* `RateLimit` counts time in fractions of a second. `Dispatch` is one step: there is no await
  between the read and the write of a window.

## 3. Runs

Only the cache runs check for deadlock. Elsewhere a behaviour may rightly end: at the
bound on versions, locks, requests, faults or time, or with an evaluation that has a result.

| Run | Instance | Shows |
|---|---|---|
| `sequential` | one request at a time; two rows, two regions, valid and invalid rules; no rollback, no seeding | one active version, which is valid; `_ALLOWED_TRANSITIONS` followed; packs frozen once published |
| `concurrent` | all eleven operations, two handlers, clients with and without locks, failures anywhere | `version_id_col` protects the columns; a request with an `expectedLockVersion` writes the row it checked; activations that race to replace one version add none |
| `locked` | three rows, two names, every client sends its lock and activates visible versions; activate, rollback, delete, rename | a name in service keeps exactly one active version, which the hot path finds; the lifecycle implements `ActivePolicy` |
| `rule_edit_race` | two handlers, one draft | a violation, see below |
| `cache_faults` | two threads of one replica, two regions, everything failing | a warm replica never fails a request; the pointer has a snapshot behind it, or one that expired within a writer's time |
| `cache_converges` | two replicas, Redis failing, fair | what is served was superseded at most an L1 lifetime, a snapshot's lifetime and three flights ago; all replicas end up with the active pack for good |
| `pipeline` | every pack of three rules drawn from all kinds, in every order, two incidents | the resolver agrees with the design; its trace explains it; untied rules may come in any order; only bands outside the four and contested durations that are no numbers make it fail; the plan carries the decision |
| `incidents` | two handlers, eight kinds of requests of which two may be made, two ids, two packs, one provider, one fault, both backends | "evaluated" has its decision; nobody's incident is left "received" without a fault; what clients are told is so; bulks leave a prefix; dry runs and simulations keep nothing; an unchanged replay does not differ |
| `sweeps` | two decisions, three instants around the thresholds, both backends, fair | no level opens before its time, by the policy the decision has in the end; all levels that are due open while nobody answers; priorities climb only when late, and in the end do, where no sweep is hindered |
| `acknowledged` | as `sweeps`, in memory | a violation, see below |
| `access` | two handlers, two users of one address, two roles, lives of one and two minutes | a deactivated user is out, and a withdrawn role without effect, within an access token's life; a raced registration leaves an address with one user |
| `conditions` | every rule of up to two conditions, trees of depth three, payloads with missing, odd and matching values; one client, windows of three seconds, half seconds | loaders keep meaning and specificity; only formulas and missing operands raise; order is irrelevant where nothing raises; at most twice the limit gets through in any window; a client that waits is refused at most once more |

Bounds. Two handlers are enough for every check-then-write race, which involves one
writer and one intruder (or an intruder doing several operations one after another, which a
single handler does); `MaxLock` 4 leaves two changes after the initial ones, and
`MaxVersion` 2 or 3 a parent and a successor. In the cache, two threads are enough for a
slow writer and a fast one; `MaxGen` is the initial pack and one (or two) activations;
`SnapshotTtl` is 2 in `cache_faults` so that a snapshot can be alive and yet about to
expire before its pointer; `MaxFlight` at least 1 lets time pass within an operation. Three
tokens are one for the pointer and one for each thread. Handlers, and
tokens, are symmetric where a cfg says so; `cache_converges`, being a liveness run, uses no
symmetry. In the pipeline, three rules are a suppressor, one it
meets and one that is immune to it, or a group and an outsider; two of them contradict each
other in every field. Both weights and both families occur, one incident satisfies all rules
and the other leaves one unmatched and one vetoed, and the SLA matrix has a gap. In
`incidents`, two requests that write are a victim and an intruder, next to any number of
simulations; the items are one that is evaluated, one that raises and one with a context of
its own. In `sweeps`, 48 and 100 minutes are the threshold of a one-hour target and a time at
which several levels of the higher bands are due at once; one decision has a band or a priority that is none,
the other a target that cannot be parsed. In `access`, the refresh token outlives two access tokens' lives. In `conditions`, one
condition is taken as it is and two are joined; six requests in fourteen half seconds span
several windows of six half seconds with a limit of two. `MaxHeight` is 4, what the highest of the
trees there needs (the loaders build no more than 3).

Fairness. `FairSpec` has weak fairness of `Tick` (time passes), of `Step(t)` (a thread that
entered `get()` or `refresh()` is scheduled) and of `Get(t)` (requests keep arriving at
every replica; without them a replica's L1 is never looked at). None is assumed of
activations, refreshes or crashes. Persistent PostgreSQL failure is excluded in that run:
with it a replica may rightly serve its last known good pack for ever. In `Jobs`, `FairSpec`
has weak fairness of `Tick` and of each sweep: the scheduler, which the comments leave to
APScheduler, Celery beat or cron, is assumed to go on calling `run()`. Nothing is assumed of
operators or resolutions.

### Where the code and its documentation disagree

Two runs check one statement of the documentation each, and TLC finds a behaviour of the code
that violates it.

| Run | Statement | What happens |
|---|---|---|
| `rule_edit_race` | the second writer fails loudly (`postgres_rule_pack_repository.py`) | an edit of rules alone tests no lock and loses the other edit |
| `acknowledged` | the sweep acts on silence (`docs/decision-engine-design.md`, `escalation_sweep.py`) | an escalation that was acknowledged goes on to the next level |

The models show the following as well, without a run of its own.

* Lifecycle. Rollback activates the parent whatever its status, a draft or an archived pack
  included (`docs/rule-management.md`: no code path lets a draft reach evaluation). After a rollback to
  an archived parent the one active version is one the hot path's query skips, so `get_active()`
  finds nothing; so it does after the activation of a region's version, which retires the global one.
  Two first
  activations share no row to conflict on and both commit. Without a lock a delete
  checked earlier archives a pack that has become active, and a publish turns an active pack
  back into a published one. Two creations, or two imports, compute the same version and the
  second overwrites the first. A PATCH can move a draft onto the name and version of another
  pack, and `save()` and `activate()` then find either. A bulk of rules commits rule by rule.
  After the activation of a regional version a restart reactivates the seed version.
* Cache. A slow reader puts a superseded pack back into Redis for a snapshot's lifetime
  (`docs/tradeoffs.md`: propagation within a short TTL). A failed refresh installs the last known
  good pack with a new timestamp. One cache entry serves all regions.
* Pipeline. Of two equally heavy suppressors, or compliance rules, the one the database
  happens to list first (or last) decides. A contested `targetSLA` that does not begin with a number
  ends the evaluation with an exception, where an uncontested one goes into the decision.
* Incidents. Overlapping creations of one id can leave the payload of one with the status
  of the other, and a replay then does not re-run the "exact original payload"
  (`replay_simulation.py`). With PostgreSQL the history is in the order of `created_at`, not
  "insertion order". A what-if run does not aggregate context, as an evaluation does.
* Jobs. The SLA sweep "bumps priority one level" (`sla_breach_sweep.py`; `priorityBumpOneLevel` in
  section 6 of the design) each time it runs, so a late decision goes on climbing, sweep by sweep, up
  to Critical. The decision on record is changed, where section 7 says that the original is never
  mutated. With PostgreSQL neither the bump nor an acknowledgement is stored. One target that
  cannot be parsed ends every sweep at that decision.
* Access. With PostgreSQL a login that overlaps a deactivation writes the user back
  as active. In memory two raced registrations leave two users, of which one is found.
* Conditions. A missing field satisfies `!=`, and `==` with null, where sections 3b (step 1) and 9
  (case 3) of the design say a rule on an absent field is false: SLA-RULE-007 suppresses the dispatch
  for an incident without a `customerTier`. A formula over a value that is no number raises out of the
  evaluation, and so does an operator that lacks its operands, which the validation before a
  publish lets through. `{"var": ["incident.x"]}` is evaluated and not stripped, and so reads
  a missing field; no pack of the repository has this form.
* Rate limiter. `Retry-After` is cut to whole seconds, so a client that waits exactly that
  long may be refused once more. Windows of clients that never return are kept.

These explain the limits of the passing runs: `sequential` leaves rollback and seeding out,
`locked` has only the operations that take a lock or go through `activate()`, and activates no version
the hot path would skip, `BoundedStaleness` includes the snapshot's lifetime and assumes one region and an
answering PostgreSQL, and `Reproducible` excludes ties. `StatusIsTrue` and its neighbours in
`incidents` claim less of ids whose creations overlapped and after a fault, and
`OverdueIsBumped` asks for one bump, excepts PostgreSQL, and waits while another open decision has a
target that cannot be parsed. `SilenceEscalates` promises nothing once somebody has answered, in
keeping with the design; that the sweep goes on all the same is `acknowledged`.

## 4. Proofs

The theorems hold for every number of handlers, rows, replicas, threads, users, requests and
items, every TTL, limit and bound. Of the 40 properties of the passing runs, 37 are theorems. What a theorem
assumes beyond the named assumptions on the constants is a hypothesis of its statement:

* `LockedClients` (`RulePackLifecycleProofs`): the operations are activate, rollback, PATCH and
  delete, and clients send `expectedLockVersion`, as in `locked`. Its two theorems are of
  `VisibleSpec`, and `ImplementsActivePolicy` assumes that the versions active in the initial table
  are visible too.
* `SerialClients` (`RulePackLifecycleProofs`): one handler, no rollback, no seeding, an initial
  table in order, and PATCHes that carry no name unless there is only one, as in `sequential`.
  Each exclusion is one of the disagreements of section 3.
* `Healthy` (`RuleCacheProofs`): packs for no region and PostgreSQL answering.
* `IsFiniteSet(RowId)` for `ActivationsAddNone`, which counts rows.

**RulePackLifecycleProofs** (assumes `Constants`: the types of the parameters, and that the
initial table gives a lock exactly to the rows that exist).
`TypeCorrect`, `LockWorks` and `LockedUpdatesAreChecked` follow from
`InductiveAlways`: `Spec => []Inductive`. `OptimisticLock` alone is not inductive: that a
session's copy agrees with the row *unless the lock moved* is preserved by another
handler's commit only if that commit raises the lock whenever a column changes, and by an
INSERT only if nobody has loaded the row, for which `Stored` (a row has a positive lock from
its INSERT on) and `LocatedAt` (a session's target exists) are needed. `LockedUpdateIsChecked`
relates two copies, the one the use case checked and the one the session loaded. `CheckedAt`
links them: the client's lock is not newer than the checked copy, and equals the loaded one;
locks only grow, so if the row is still at the loaded lock, it never left the
checked one.

The second part of the module is about one request at a time. `SerialOneActive`, `SerialActiveValid`, `SerialLifecycle` and
`SerialFrozen` follow from `Serial`: between requests the table is `Orderly` (name and version
identify a row, at most one version is active, published and active packs are valid), and within
one, what the use case read is still so at each later statement. That the table is orderly is what makes it
inductive: `save()` finds rows by name and version, so a table in which two rows share them lets
an edit of a draft overwrite an active pack.

The third part is about activations. `ActivationsAddNone` holds for any mix of operations. A commit of
`activate()` that passes tests the lock of every active row it loaded; by `Inductive` those rows
are still as loaded, so it deprecates at least one active version for the one it adds.
`Activating` says that the target was loaded before the active rows and has the request's name.
`OneActiveAlways` and `ImplementsActivePolicy` rest on `Service`: with `Routed`, what a session
carries to its commit (a PATCH saw a draft, a delete a pack not in service, an activation of a
name in service found its active version), every commit but that of an activation leaves the
active rows alone, and that of an activation replaces the only one by one that is visible: the target
was when it was loaded, and the lock says it still is. The refinement is then
shown commit by commit: `HandOver`, `Withdraw`, `Rename`, `PutInService` or a stutter.

**RuleCacheProofs** (assumes `CacheConstants`).
`CacheTypeCorrect`, `StalenessIsBounded`, `WarmReplicasServe` and `SnapshotBehindPointer`. The
argument for the bound follows a pack on its way (`Ages`): when loaded it is not superseded, so
until it is written to Redis it is no older than its operation; a snapshot's age plus
its remaining lifetime is then at most `MaxFlight + SnapshotTtl`; what a thread hands to
L1 is at most `SourceAge` plus its own flight old; and since the `_loaded_at` on a value may
be another thread's, a second flight is added before L1's age counts. `WarmReplicasServe`
rests on `Backed`: `_last_known_good` is assigned before L1 on every path and only a crash
clears it, which clears L1 too. `SnapshotBehindPointer` needs `WriterAhead`: the snapshot of a
thread about to set the pointer has lost no more of its lifetime than the thread has taken.

**IncidentsProofs** (assumes `IncidentConstants`). All six invariants of `Incidents`, on both
backends, with any number of faults. First each action is reduced to its effect on one request
(`LoadDoes`, `WriteDoes`, `DecideDoes`, `StoreDoes`, `FaultDoes`); `Ended` and `Same` are the two
ways a step leaves an item. The invariant is then built in layers, each inductive relative to
those before:

1. `Recorded` (`KeptOnce`): what a request holds at each statement, requests numbered apart, and
   every decision on record of an item its request has come past (`Reach`). A decision
   about to be saved is therefore new.
2. `Prefix` (`PrefixOnly`): rows are of the items a request has come to (`Extent`), and a bulk
   creation that goes on has had no failure.
3. `Answers` (`AnswersTrue`): what will be told of the items so far is so, and the object of a
   creation that says "evaluated" has its decision.
4. `Separate`: of the creations of an id nobody overlapped, one has read the row; it sees the row
   as it is (`AloneAt`), and a row that bears the mark of an item was written by it (`OwnAt`).
   `Grounded` is 1 to 4.
5. `Rows` (`StatusTrue`), `ReceivedIsInHand` itself (`ReceivedInHand`) and `Replays`
   (`ReplayUnchanged`) are inductive relative to `Grounded`. A replay reads the incident and then
   the decision, and an item may be decided in between: `Settled` says that nothing
   more will be decided for a row that is not "received".

**JobsProofs** (assumes `JobsConstants`). `NoLevelIsPremature` needs that the default policies only get
quicker with the band, so that a bump makes no open level premature (`PoliciesRise`), that
a sweep takes its time before it begins, and that events are recorded no
earlier than their level is due. `PrioritiesClimbWhenLate` is an action property of the SLA sweep.

**AccessProofs** (assumes `AccessConstants`). A token was issued while its user was active and had
its roles, by what the login read: `SeenByNow`, `RequestsHold`, `IssuedWhileActive` and
`IssuedWithRoles` carry this from the read, past changes by others, to the token. `AddressesAgree`
relates the index of addresses to the users.

**RateLimitProofs** (assumes `LimiterAssumption`). A stretch as long as the window meets at most two
windows: `CurrentCounted` and `PreviousBounded` bound each by the limit, and together they bound
every stretch, which no single one of them does inductively. `ReturnsLate` says where a client
that obeys `Retry-After` comes back: after one refusal less than a second before the end of the
window, after the next beyond it.

**DecisionPipelineProofs** (assumes `PipelineConstants`: the types of packs and incidents, that the
flags are none of the three named fields, and that `Absent` is no value). All five invariants of
`DecisionPipeline`, for every pack, incident, SLA matrix and set of flags, over every order
`active_rules()` may return. What the pipeline has computed is carried by `Carried`: at each stage
the variables are what the services so far make of `order`, an order of `Orders`. That the services
compute what they should is then a statement about lists, proved bottom up:

* A statement about every prefix of a list is proved by its least counterexample (`LeastNatural`,
  `LeastFailure`), as `kept` of `Among` is a recursive function; `KeptExists` gives its value,
  `AmongPlaces` that the list it builds has the chosen elements, in their order and once each, and
  `FirstLargest` that Python's `max()` finds the first of the largest.
* With these the lists of the code are the sets of the design: `Matched` lists `MatchedSet`,
  `Writers` `WriterSet`, and `EffectiveIs` says what is left after suppression.
  `GroupWinnerOutranks`, `FieldIsDecided` and `PriorityIsRaised` go through the cases of section
  3b and give `ResolverIsAsDesigned`; `TraceIsBelievable` follows the same cases for the losers.
* `FailuresAreUnreadable` finds, where the resolver raised, the matched rule whose floor or priority is no
  band, or two that contest a duration.
* `DecisionIsReproducible` takes two orders of one pack (`BothWays`). They list the same rules, so
  every part of the decision that depends on the set alone agrees; what depends on the order is the
  first of the heaviest suppressors and the last of the compliance rules. Two orders can only differ there
  when two such rules have one family order and one weight (`SameSuppressor`), and that is `Tied`. Hence
  `SameDecision`.
* `PlanShape` splits the plan into the sequenced steps and, behind them, base steps in the order of
  `BasePrecedence`, none of them twice.

**ConditionsProofs** (assumes `ConditionConstants`: that values are of one kind each and payloads are
maps of them, that Python orders any two strings, that the trees of packs are trees and the rules of
packs lists of conditions, and that no unknown operator is a known one). All five invariants of
`Conditions`, for lists of any length, payloads of any nesting and trees of any height. The invariant
`TreeAndVerdictFit` says that the tree is what a loader made of a rule of its pack and the verdict what
`is_satisfied_by` returns for it. The rest is about recursions over trees:

* `LeastNatural` and `LeastFailure` again stand for induction, here on a tree's height. With them
  `TreesExist` and the lemmas named `...Exists` show that there are functions with the equations
  of `TreesUpTo`, `Evaluate`, `CountLeaves`, `Stripped`, `Subtrees` and `Mirrored`, and those named
  `...Is` unfold them by one node. `TreeInduction` is the principle the others use.
* `JunctionCases` and `OperatorCases` say what the evaluators make of their operands' results: one
  is missing or raises, one decides, or none does.
* Translation: `OperatorMeans` matches each operator of the packs with the engine's (for `>=` and `<=` it
  needs `Trichotomy`), `SlaNodeMeans` and `VastNodeMeans` a condition with its node, where no missing
  field meets a `!=`, `JoinedMeans` a list
  with its tree. `JoinedCount` counts it.
* Stripping: `LookupAlong` follows a dotted path step by step, `LookupStripped` compares the path in the
  namespace with the stripped one, and `EvaluateStripped` and `CountStripped` go up the tree.
* `EvaluateRaises` finds the formula, or the operator without its operands, below a node that raised; `EvaluateMirrored` uses that
  `Junction` does not depend on the order of operands none of which raises (`JunctionBackwards`).

**Only model-checked**: `Converges`, `SilenceEscalates` and `OverdueIsBumped`, as liveness under
fairness is outside the prover's reach.

## 5. Not modelled

Listed with reasons under `components`. In short:

* AI assistance, schemas, serializers and wiring keep no state of their own: they call a
  language model, or convert.
* The in-memory rule-pack repository: one process without transactions, keyed by name and version
  while packs can be renamed.
* Shadow mode and the decision distribution: the first is called by no endpoint and no
  job, the second only reads. API keys: created, and accepted by no endpoint.
* Of the loaders, what they copy without a condition: actions, weights, families, the expansion
  of the SLA weight table, the rule ids they skip.
* Audit and request logs: written after the fact and read by nothing.

## 6. Plan

Done: all modules of section 2, and the theorems of section 4, which state every safety property the
runs check.

The `TypeOK` of `Jobs` and `Access` are theorems and not among the runs' properties; those of
`DecisionPipeline` and `Incidents` are there for the reader, and the types `IncidentsProofs` starts
from are its `Typed`.
