# BigMCP: verification project

BigMCP is a self-hosted gateway between MCP clients (Claude and other agents)
and many MCP servers, with multi-tenant accounts, tool groups and
*compositions*: multi-step workflows over tools that are stored in a database,
promoted to production and then offered as tools themselves. Compositions may
stop and wait (for a person, an approver, a webhook, a clock, or a
sub-composition), survive a restart of the backend, and be resumed later.

This directory holds TLA+ models of that code, TLC runs over small instances
and TLAPS proofs for all instances. `PROJECT.json` maps every definition to the
lines it stands for. Paths below are relative to `src/mcp-registry/app/`.

## How to read it

| file | what it is |
|---|---|
| `CompositionExecution.tla` | durable executions: the run loop, resume, cancel, nesting, expiry scan, crash and sweep; its properties |
| `ExecutionLifecycle.tla` | the abstract promise of an execution to its owner |
| `MCCompositionExecution.tla` | the compositions TLC runs, model values, symmetry |
| `CompositionExecution_*.cfg` | one file per run |
| `CompositionExecution_proofs.tla` | the inductive invariant of ownership and its theorems |
| `CompositionSteps_proofs.tla` | theorems on how far an execution has come; extends the above |
| `CompositionLifecycle_proofs.tla` | the refinement of `ExecutionLifecycle`, and theorems on compositions that suspend once; extends the above |
| `UserServerPool.tla` | the servers that run on behalf of each user: starts, limits, removals, cleanup; its properties |
| `MCUserServerPool.tla`, `UserServerPool_*.cfg` | symmetry; one file per run |
| `UserServerPool_proofs.tla` | its inductive invariant and its theorems |
| `StdioWrapper.tla` | one wrapper that multiplexes calls over the pipes of an MCP server process |
| `GatewaySessions.tla` | the sessions of the MCP gateway, their queues, and the resource updates sent over them |
| `KeyRotation.tla` | key versions, stored credentials, batch rotation, and the operator |
| `SubscriptionBilling.tla` | an organization's subscription: webhooks, checkout, trial, cancellation, and the seats of members |
| `MC*.tla`, `*_proofs.tla`, `*.cfg` of these four | as above |

`tlc -config CompositionExecution_gates.cfg MCCompositionExecution` checks a
run, `tlapm CompositionExecution_proofs.tla` the proofs (of each of the eight
`*_proofs` modules).

## Inventory

One asyncio process serves REST and MCP, runs background tasks and holds
caches; PostgreSQL (or SQLite) holds everything that must survive. There are no
database locks on the paths below: every exclusion is a conditional `UPDATE`,
an in-process `asyncio.Lock`, or nothing. So two coroutines interleave at each
`await`, and a crash loses the coroutines and keeps the committed rows.

| component | state | operations | what is hard | what makes it correct |
|---|---|---|---|---|
| **Durable executor** `orchestration/resumable_executor.py` | row of `composition_execution` (status, state, cancel flag, expiry, parent); in-memory copy per coroutine | create, run, step, suspend, resume, cancel, finish, tell the parent | coroutines race for a row; answers come from five sides; crash between two saves | one runner per row; no step lost or repeated; what ended stays ended; nobody waits for ever |
| **Sub-composition step** `orchestration/subcomposition_step.py` | parent id, depth | insert child, run it, suspend parent | the child may end first | bounded depth; a child answers its own parent, and does |
| **Queue worker** `orchestration/queue_worker.py` | none of its own | expiry scan, orphan sweep, promotion of queued rows | selects, then acts on what may have changed | only overdue rows expire; the sweep meets no live coroutine; the limit holds |
| **Execution endpoints** `api/v1/composition_executions.py` | none | resume, approve, reject, callback, cancel | check, then background resume | only an admitted answer lands, and where it was meant |
| **Suspending steps** `*_step.py` | suspension payload, TTL, token | dispatch, validate the answer | stale tokens, gates, TTL clamps | only the gate's people approve; TTL within the clamp |
| **Composition routing** `orchestration/composition_routing.py` | none | choose the durable or the synchronous path | | every suspending composition is durable |
| **Notifications** `orchestration/composition_resources.py` | subscriptions (memory), pending (database) | subscribe, push, flush | disconnect between check and push | no stored update is deleted before a replay has used it |
| Composition lifecycle `services/composition_service.py` | status, steps | validate, promote, archive, edit | edits under suspended executions | only validated compositions run |
| **User server pool** `core/user_server_pool.py` | servers, locks, counts | get or start, stop, restart, cleanup, evict | locks dropped in use, limits checked before awaits | one process per server; limits hold; none closed in use |
| **MCP wrappers** `core/mcp_wrapper.py` | pipe, pending futures | start, request, read, time out, clean up | late answers, dead process | each answer to its own request; no request forgotten |
| OAuth server `services/oauth_service.py` | codes, tokens | authorize, exchange, refresh | two exchanges at once | a code is used once |
| Sign-in and revocation `services/auth_service.py`, `token_blacklist_service.py` | tokens, blacklist in memory and database | sign in, refresh, revoke one or all | insert fails, restart, same second | what was revoked stays revoked |
| **Billing** `api/v1/webhooks.py`, `subscriptions.py`, `organizations.py` (members) | deliveries, subscription, members; quantity at LemonSqueezy | claim, handle, check out, cancel, try, accept, remove | repeated and reordered deliveries, handlers that fail, seats bought before and given back after | each event takes effect once, or its loss has a cause; row and seats follow LemonSqueezy |
| **MCP gateway and sessions** `services/mcp_session_store.py`, `routers/mcp_unified.py` | metadata and indexes in Redis, queues in memory | register, resume, touch, close, expire, walk | read, await, write back; streams cut short | a queue has a reader; a stream is on its user's session |
| **Credentials and key rotation** `services/credential_service.py`, `services/key_rotation_service.py`, `core/secrets_manager.py`, `cli/rotate_keys.py` | ciphertexts, key versions, environment | create, update, delete, rotate, status, add and remove keys | batches read and then written; OFFSET over a table that changes | what can be decrypted stays so; a rotation that reports success is complete |
| Caches, tool groups, marketplace, administration, frontend | tables and caches | CRUD, search | little | see PROJECT.json for why they come last or not at all |

How they interact. A tool call reaches the gateway, is routed to the durable
executor, and returns an execution id at once; the executor calls tools through
the user server pool and its wrappers. The pool decrypts stored credentials for
the processes it starts. Endpoints and the queue worker call
`resume()` of the executor from background tasks. A child execution calls
`resume()` on its parent when it ends. Status changes go out as notifications
over the sessions of the gateway. Components in bold are modelled.

## CompositionExecution

### State

| variable | code |
|---|---|
| `status`, `cancel_requested`, `parent` | columns of `composition_execution` |
| `state` | column `state` (JSONB), `ExecutionState` in `execution_state.py`: per-step status, current step, suspension reason, child id |
| `due` | `expires_at` is in the past |
| `depth` | `state.depth`, fixed at creation |
| `task` | the coroutines: program counter, row, in-memory state, who started it |
| `scan` | rows a `scan_expiry_batch` has selected and not handled yet |
| `up` | the process has started |
| `late`, `calls`, `misplaced` | history: steps begun after a cancel, how often each step was begun, whether an answer landed on a suspension it was not prepared on |
| `crashes`, `faults` | bounds |

### Actions

| action | code |
|---|---|
| `StartExecution` | `route_composition_call`: `create_execution`, then `create_task(run_detached)` |
| `RunLoad` | `run()` up to the loop |
| `Boundary` | top of `_run_loop`: re-read the cancel flag, find the next step |
| `BeginStep` | `_execute_step` up to the save of `in_progress` |
| `StepSucceeds`, `StepRaises` | the step's outcome, its save, back to the boundary or on to `_mark_terminal(failed)` |
| `SpawnChild` | `subcomposition_step.dispatch`: insert and start the child |
| `MarkSuspended` | `_mark_suspended`, conditional on running |
| `MarkTerminal` | `_mark_terminal`, conditional on not being terminal |
| `PropagateToParent` | `_propagate_to_parent`: check the parent, background resume |
| `Respond` | `/resume`, `/approve`, `/reject`, `/callback`: check the row, background resume |
| `ResumeLoad`, `ResumeUpdate` | `resume()`: load and prepare; conditional UPDATE and enter the loop |
| `RequestCancel` | `request_cancel` |
| `ClockReachesExpiry`, `ScanSelect`, `ScanExpire`, `ScanFire` | time, and the phases of `scan_expiry_batch` |
| `Crash`, `Restart`, `RestartUnswept` | the process dies; startup with its orphan sweep; startup when the sweep raises |
| `DatabaseError` | a database exception ends a coroutine |

An action is what one coroutine does between two awaits on the database.
`TaskStep` joins the steps of a live coroutine.

### Abstractions

- Results, templates, audit rows, timeline events, metrics and notifications
  are left out; a step has a result or has none.
- A transform or foreach step is a `tool` step: for this model they do the
  same. Any step may fail.
- Time is one bit per row. The TTL clamps of the step types are not modelled.
- `create_execution` and the `create_task` after it are one action: a crash
  between them leaves the same database as a crash after them.
- The scan's LIMIT of rows per tick is not modelled, and its conditional
  updates, which share a commit, take effect one row at a time.
- Nobody creates a row with status `queued`, so the status and its promotion
  are not modelled.
- An exception from the database leaves the SQLAlchemy session in need of a
  rollback which `_run_loop`'s handler does not do; the `_mark_terminal` it
  tries therefore fails too and the error ends the coroutine. `run_detached`
  then marks its row failed in a new session.

### Properties

| property | what it says, in short | hazard |
|---|---|---|
| `TypeOK` | types | |
| `OneRunnerPerRow` | a coroutine in the loop is alone on its row, which is running | racing resumes, sweep, faults |
| `InMemoryStateIsFresh` | the loop's copy is what the row holds | the loop never re-reads |
| `NoStrandedRow` | a running row has a runner while the process is up | crash, lost task |
| `SuspensionWellFormed` | a suspended row: earlier steps done, current in progress, later untouched | where an answer belongs |
| `CompletedMeansAllDone` | completed means every step was begun and is recorded as succeeded | lost or overwritten steps |
| `BegunOnce` | no step is begun twice, unless an answer landed on a suspension it was not prepared on | crash inside a step, stale answers |
| `CancelStopsSteps` | after a cancel at most one more step begins, for the whole life of the execution | cancel after the check |
| `DepthBounded` | depth cap, and a child is one deeper than its parent | recursion |
| `TerminalIsFinal` | what has ended keeps its status and state | late writers |
| `ExpiresOnlyWhenDue` | only an overdue suspension expires and never a timer | stale selection |
| `ChildAnswersOwnParent` | a child's result lands in the parent waiting for that child | racing answers |
| `KeepsLifecycle` | refinement of `ExecutionLifecycle`, for any number of suspensions | order over many suspensions |
| `EventuallyEnds` | every execution ends | lost wakeups, crash |

`ExpiresOnlyWhenDue` and `ChildAnswersOwnParent` speak of compositions with at
most one suspending step (`SuspendsOnce`). For others they are false, for the
reason the first finding gives: a row does not record *which* suspension an
answer is for. `BegunOnce` and the refinement hold for all compositions. They
name what that does to an execution: such an answer (`misplaced`; the action
`Misplace` of the abstract specification) takes it back to where the answer was
prepared, and nothing else begins a step again or breaks the order.
`CompletedMeansAllDone` speaks of what is recorded, not of what was decided:
see "Seen while modelling the executor".

## UserServerPool

A composition step, or a client's tool call, reaches a server through
`get_or_start_server`. The pool keeps one wrapper per user and server, starts
it under a lock of its own, and evicts the least recently used server when the
user, or the pool, has too many. Stop, restart, eviction and the background
cleanup loop close servers without any lock.

| variable | code |
|---|---|
| `pool` | `_servers[user][server]["wrapper"]` |
| `users` | the keys of `_servers`; a user has a dictionary from the first stored server to a cleanup round that finds it empty |
| `older` | `last_used`, as an order |
| `idle` | what the cleanup loop may take: unused for `cleanup_timeout`, or deleted in the database |
| `lock` | `_start_locks`: the object the next caller for a key gets |
| `proc` | `wrapper.process` and how it fares: live, told to end, ended, closed for good |
| `madeFor` | whose configuration and credentials a wrapper was built from |
| `task` | the coroutines: program point, key, lock object, wrapper, victim of a removal |
| `sweep` | `_cleanup_loop`: the iteration it is in, what it has found, what it is closing |

| action | code |
|---|---|
| `Request` | `get_or_start_server` up to `async with lock` (`_get_or_create_lock`) |
| `Acquire` | the lock is ours: reuse, replace an ended server, or make room |
| `Continue` | after a removal: the user's limit, the global limit |
| `StartProcess`, `StartFails`, `Store` | `_start_server_internal`: new process; any failure on the way; into the pool |
| `UseWrapper` | the caller's `call_tool`, which starts a closed wrapper again |
| `Cancelled` | the timeout of a composition step ends the call at any of its awaits |
| `StopServer` | `stop_user_server`, `restart_user_server` |
| `CloseEnds` | the end of `_remove_user_server`: delete what is under the key now |
| `SweepRaises`, `SweepVisit`, `SweepCloseEnds`, `SweepNext`, `SweepEnd` | `_cleanup_loop` and `_cleanup_idle_servers`, cut at each close |
| `GoesIdle`, `ProcessExits` | time, the database, and processes that end by themselves |

Abstractions: a wrapper that nobody holds (neither the pool nor a coroutine) is
not represented, so processes that leak are not counted. The semantic index,
tool lists and statuses, `cleanup_user_servers` and the shutdown of the pool are
left out. Which users the cleanup loop passes by before the next one with
something to close is a free choice, since the order is that of a dictionary.

| property | what it says, in short | hazard |
|---|---|---|
| `TypeOK` | types | |
| `OwnServerOnly` | a user is served only by processes started for that user and server | servers replaced and evicted under other calls |
| `PooledIsOpen` | no entry whose process was closed for good | removals that race each other and new starts |
| `LimitsWithSlack` | both limits are passed at most by the number of other calls under way, however often that happens | limits checked before the start |
| `CallsReturn` | every call ends, if starts and uses of servers do | locks held across closes and starts |
| `OneStartPerServer` | one start at a time for a key; *violated*, finding 3 | locks dropped in use |

## StdioWrapper

The pool hands out one wrapper per process, and any number of coroutines call
it. A call takes the next id, registers a future under it, writes the request
under the send lock and waits; a reader task hands each line from the process
to the future registered under its id. A wrapper that is closed is started
again by its next call. Nothing serialises starts and closes.

| variable | code |
|---|---|
| `process`, `initialized`, `requestId`, `pending`, `sendLock`, `readerTask` | the fields `_process`, `_initialized`, `_request_id`, `_pending_requests`, `_send_lock`, `_reader_task` |
| `pc`, `method`, `request`, `future`, `got`, `calls` | each caller: its suspension point, what its request asks for, the request, the future and its response |
| `closing`, `target` | each `close()`: where it is, the process it waits for |
| `held` | the process a call has started and not stored yet, or is cleaning up: local variables |
| `running`, `spawned`, `sent` | the processes, and the requests written to them |
| `reader`, `on` | each reader task and the stream it reads |
| `astray` | history: two starts or closes were in progress at once, or a start was cancelled with its process in hand |

| action | code |
|---|---|
| `CallTool` | `call_tool`, `list_tools`: start and initialize first if need be |
| `Spawned`, `NapEnds`, `ExitRead`, `FallbackUp`, `FallbackRead` | `_start_process` and `_start_with_npx_node_fallback`, cut at their awaits: the spawn, the 0.3 s, stderr, the fallback's spawn with its 0.5 s, its stderr |
| `LockAcquired`, `Drained`, `DrainFails` | `_send_request` up to the write and its `drain()` |
| `Receive`, `Fails`, `Timeout` | the ends of `wait_for`, with the `finally` that drops the registration |
| `Cancelled` | a call is cancelled at any of its awaits (callers in `Timed`) |
| `StderrRead`, `CleanupEnds` | `initialize` after a process that died: `_cleanup_process`, then the fallback |
| `Close`, `CloseEnds` | `close` before and after the wait for the process |
| `ReaderStarts`, `Route`, `ReaderStops` | `_read_responses`: first turn, one line, end of file or a bad line |
| `Exits` | external: the process ends |

Answers come in any order, late, repeated, or never. The server also sends
messages of its own, with no id or with one of `OwnIds`, which may be pending:
`_read_responses` takes whatever carries an id for a response. The spawn of the
fallback and its 0.5 s are one wait, since nothing is decided between them.
The contents of requests are left out, as is the HTTP wrapper, where each
request is an exchange of its own.

| property | what it says, in short | hazard |
|---|---|---|
| `TypeOK` | types | |
| `OwnAnswer` | what answers a request is its own response, or a message the server made up under that id; never another request's | late answers, restarts, two readers, requests from the server |
| `PendingIsAwaited` | every registration belongs to a caller that still waits for it | timeouts, failures, cleanup |
| `KnowsItsProcess` | unless starts or closes overlapped or a fallback was cancelled, every live process is in `_process` or in the hand of the call that starts it | failed starts, retries, cancellation |
| `CallsEnd` | every call ends, if `drain()` and readings of stderr return | a dead reader, dropped futures, a held lock |

## GatewaySessions

A session is metadata in Redis and a queue in the memory of the process that
an SSE stream drains. Every Redis operation is an await, so the model's actions
are single Redis operations and single accesses to the map of queues.

| variable | code |
|---|---|
| `minted`, `meta` | ids handed out; whose session an id is, by the metadata in Redis |
| `queues` | `MCPSessionStore._queues` |
| `act` | the SSE streams, and the helpers that close or walk sessions: place, session, user, metadata read, touches |
| `subs`, `pending` | the subscription tracker; rows of `pending_notification` |
| `post` | coroutines that notify or replay, with the rows they hold |
| `cut`, `spent` | history: sessions whose stream was cancelled; rows a replay has used |
| `batches`, `failures` | for the bounds |

| action | code |
|---|---|
| `Resume`, `Fresh` | `mcp_sse_endpoint`: the id in the request is known and the caller's, or a new one |
| `AttachRead`, `AttachBind`, `AttachWrite`, `AttachReturn` | `attach_local_queue` |
| `CreateMeta`, `CreateBind` | `create` |
| `Loop`, `Touch`, `TouchWrite`, `StreamEnds` | `event_generator`: a turn of its loop, `touch`, its three ways out |
| `CutShort` | the server cancels the generator: its `finally` stops at its first await |
| `DeleteRead`, `DeleteMeta`, `DeleteQueue` | `delete` |
| `CloseSession`, `Visit`, `Visited` | sessions closed when a user's tools changed; the walk over an organization's sessions, which drops expired ones |
| `Subscribe`, `Unsubscribe`, `Notify`, `Persist` | subscriptions; an update goes to queues, or becomes a row per subscriber without one |
| `Initialize`, `FlushPush`, `FlushDrop`, `PostFails` | the replay of rows; a database error in it |
| `MetaExpires`, `Crash` | external: a Redis key expires; the process restarts |

The indexes of sessions per user and organization are lists that are read,
changed and written back by separate operations; they lose entries to races and
keep dead ones. The model lets a helper find any id there, so what holds does
not depend on them. `legacy_kill`, contents of queues and Redis errors (which
the backend turns into missing keys) are left out.

| property | what it says, in short | hazard |
|---|---|---|
| `TypeOK` | types | |
| `NoOrphanQueue` | a queue has a stream that drains it, or had one that was cancelled before its clean-up | deleting, resuming, expiring and closing one session at once |
| `OwnStream` | a stream runs on a session of its own user | metadata written back after a deletion |
| `NoRowLost` | a stored update is deleted only after a replay has used it or found it too old | replays that overlap updates and each other |

## KeyRotation

Every ciphertext carries a key version. Credentials are written under the
current one; a rotation walks both tables by OFFSET and LIMIT, reads a batch,
re-encrypts what is older, commits. The operator adds a key, restarts, rotates,
looks at the status if at all, and removes old keys, by the steps `rotate_keys
generate` prints: "after successful migration", so after a report of success, or
after a clean status. A ciphertext is its version, its key and what it contains.

| variable | code |
|---|---|
| `env` | `ENCRYPTION_KEY` and `ENCRYPTION_KEY_V<n>` of the running process |
| `keys`, `current` | `SecretsManager._keys`, `_current_version` |
| `row`, `unused` | `credentials_encrypted` of the stored rows; ids not used yet |
| `order` | the order in which the database returns the rows of each table |
| `rot` | calls of `rotate_all_credentials`: table, offset, batch |
| `status` | the tables the operator's last status has shown clean |

Reports of rotations (`rot` with place `done`) and the status outlive a restart:
the operator has read them. A new key makes them obsolete.

| action | code |
|---|---|
| `Create`, `Update`, `Delete` | `CredentialService`, for both tables, at its commit |
| `Start`, `FetchBatch`, `CommitBatch`, `TableDone` | `rotate_all_credentials`, `_migrate_table` |
| `RotationRaises` | a statement fails: rollback, report without success |
| `CountUsers`, `CountOrgs` | the two queries of `get_encryption_status` |
| `Restart`, `AddKey`, `RemoveKeys` | the environment and `_init_from_env`; what runs ends |
| `Reorder` | external: the query has no ORDER BY |

Initially one unnumbered key, and rows under it or under a key that is lost (a
development key; only those in `Orphans`). In `rot`, `smooth` and `changed` are history for the
properties. `rotate_single_credential` has no caller and a dry run changes
nothing; both are left out. All processes share the container's environment,
and changing it restarts them.

| property | what it says, in short | hazard |
|---|---|---|
| `TypeOK` | types | |
| `KeepsReadable` | what could be decrypted still can be, while it is stored; but for rows on an old version when keys go after a report whose rotation skipped or failed to read a row, with no clean status | keys removed on old news, restarts, failed batches |
| `KeepsSecrets` | a rotation changes only content that others changed after it read the batch | batches read first and written later |
| `QuietRotationCompletes` | success without failed rows means that nothing is left on an old key | OFFSET over rows that change |

## SubscriptionBilling

LemonSqueezy sells subscriptions and reports every change in an event. The
webhook inserts a row per event (by the hash of its body), lets the handler
change the organization's one row of `subscriptions`, and stamps
`processed_at`. Members are billed by the seat: a seat is bought before a
membership is stored, and given back after one was deleted. Sessions of the ORM
are not locked against each other, and an UPDATE names the columns a request
changed: so two handlers may leave a row that neither of them wrote.

| variable | code |
|---|---|
| `sold`, `sent` | external: what LemonSqueezy knows of each subscription; its events, in the order of the changes |
| `acked` | events answered with 2xx, whose delivery may stop |
| `claim` | `lemonsqueezy_webhook_events`: no row, `processed_at` NULL, `processed_at` set |
| `row` | the organization's row: `lemonsqueezy_subscription_id`, `tier`, `status`, `cancel_at_period_end`, `max_users` |
| `members` | `organization_members`, without the owner |
| `task` | requests: place, event, the row as read, user, count of members |
| `alone` (in `task`), `broken`, `untidy` | history: no other change of members overlapped; events whose handler broke off; subscriptions whose events were handled out of order, or met another writer |

| action | code |
|---|---|
| `Claim`, `Redeliver` | `lemonsqueezy_webhook`: the row is inserted; it is there already (200 or 202) |
| `Select`, `Write`, `Stamp` | the handlers `handle_subscription_*` up to their query, up to their commit; `processed_at` |
| `Verify`, `StartTrial` | `verify_email`: no subscription yet, so a trial is inserted |
| `Checkout` | `create_checkout` without a running subscription |
| `Cancel`, `CancelDelete`, `CancelFlag` | `cancel_subscription`: read, DELETE at LemonSqueezy, flag |
| `Accept`, `Count`, `Buy`, `Join` | `accept_invitation`: checks, count, PATCH of the quantity, membership |
| `RemoveMember`, `Recount`, `Refund` | `remove_member`: deletion, count, PATCH |
| `Break` | a request ends where it is: exception, constraint, refusal by LemonSqueezy, crash |
| `Purchase`, `Report`, `ChangePlan`, `Unsubscribe`, `Expire` | external: LemonSqueezy and its customers |

An event is delivered at any time, any number of times, until the end. Events
carry what the handlers read of the status, the plan, the cancellation and the
quantity. Left out: orders and licences, the dates of a period, events without
an organization, endpoints that only read. A webhook secret is assumed to be
configured: without one the endpoint does not check the signature
(`api/v1/webhooks.py:482`), and `Claim` would accept any body. A call to LemonSqueezy whose answer
is lost has changed the quantity, or not, and then the request ends (`Buy` or
`CancelDelete` with `Done`, or `Break`).

| property | what it says, in short | hazard |
|---|---|---|
| `TypeOK` | types; a webhook handles an event that was sent | |
| `OneHandler` | one request at most handles an event | deliveries at the same time |
| `AckedIsHandled` | an event is given up only if it was handled, is being handled, or broke off | crash or error after the claim |
| `PaidHasRow` | after a processed purchase the organization has a paid row, and keeps one | trial, second purchase and failures race for the one row |
| `RowIsWhole` | plan and seats of the row belong to the subscription it names, unless two writers met | handlers write single columns; a new subscription in the row of an old one |
| `InSync` | once all events are processed, the row has LemonSqueezy's status and cancellation, unless they were out of order or met | reordered events |
| `SeatsMatch` | a change of members that is alone ends with as many seats billed as there are, whatever failed before | PATCH that fails, is lost, or names an old subscription |

## Runs

| run | instance | shows |
|---|---|---|
| `gates` | 1 execution `wait_until, tool, approval`; 3 coroutines, 1 crash, 1 fault | the state invariants, the refinement of the lifecycle and finality, with answers racing each other (also one that lands on the wrong suspension), the scan, cancel, a crash and a database error (259 979 states) |
| `nested` | parent with a child that waits for a clock, or one whose own child is refused by the cap; 3 rows, 2 coroutines, 1 crash, no symmetry | nesting, and `EventuallyEnds` (230 065 states) |
| `second_resume` | 2 suspending steps | finding 1 |
| `wakeup` | the instance of `nested`, no crash | finding 2 |
| `limits` | pool, 1 user, 3 servers, both limits 1, 2 calls | `LimitsWithSlack`, types (142 968 states) |
| `users` | pool, 2 users, 1 server each, 2 calls, 3 wrappers, 2 lock objects | isolation, nothing closed stays (553 406 states) |
| `returns` | pool, 1 user, 2 servers, 2 calls, 1 lock object, no symmetry | `CallsReturn` (176 055 states) |
| `lock` | pool, 1 user, 1 server | finding 3 |
| `calls` | wrapper, 2 callers with one call each, one of them cancelled at will, 1 close, 2 processes, npx, a server that sends under id 1, no symmetry | routing, no leftovers, and `CallsEnd` (976 662 states) |
| `sessions` | 1 session id, 2 users, 2 streams, 1 helper, 2 posts, 1 touch, 2 updates, 1 failure | queues, owners and rows (1 886 150 states) |
| `rotation` | 2 user credentials and 1 of the organization, which may be under a lost key, 2 keys, 2 contents, 2 rotations, batches of 1 | readability, contents, completeness (952 228 states) |
| `billing` | 2 subscriptions, 1 user besides the owner, 2 requests, 3 events, 1 of them lost | claims, the row, seats (1 875 089 states) |

Bounds. In `gates`, three coroutines are the least that let two answers race while a third
runs or a scan fires; a fourth can only repeat a role, since every answer
either becomes the runner or retires. In `nested` the two coroutines are a
parent's and a child's, and the scan is a third party. Three steps put a plain step between two
waits, two rows with a third give a child and a grandchild that the cap
(`MaxDepth = 1`, in the code 5) refuses. One crash and one fault at any point
cover recovery, and a crash during recovery adds nothing, as the sweep is one
UPDATE. Deadlock is not checked for executions, the pool and the wrapper: once all
executions and calls have ended and none may begin, the system rests. Sessions
and rotations never do. For the pool, two calls and the cleanup loop
are three parties that race: a removal, a start and the loop, or two removals of
one server. Three servers under a limit of one let an overrun happen while
another server is there to be evicted. Two lock objects per key are what one
drop of a held lock needs; `limits` has one, where a held lock is not dropped:
two starts of one key add one entry, and the limits count entries. `returns` has
two servers of one user under a limit of one: a call that holds the start lock
of one closes the other, whose lock another call holds to start it again or to
close the first.

For the wrapper, two callers give a start beside a call, two processes a
restart, and the close a third party; the second call of a caller would only
take a further id. Id 1 is the one under which messages of the server meet a
pending request; who may be cancelled is one caller, the other then meets what
it leaves behind. For sessions, every property is about one id (rows of
different ids differ in all that is compared, and nothing else relates ids), so
one id shared by two users' streams is the case that matters; with two posts a
replay overlaps an update or another replay, and the second update is the one
a replay has not read. One touch stands for the many of a long connection. For
rotations, batches of one row in a table of two have an offset to go wrong;
the second table separates the two queries of a status; two versions are one
rotation from start to removal, and the next one starts from the same kind of
state. One row that cannot be decrypted is enough for a report of success that
counts a failure.

For billing, two requests and three events give a purchase, a change and a
further change handled in any order and at once; the second subscription is the
one that takes over the row of the first. With one user a seat is bought and
given back, and failures in between are made up for; that two users differ in
nothing but the count is what the theorem shows. One status that runs
(`active`) and the two that end are all the handlers tell apart; the others
differ in the table `StatusOf` only. Only one event may be lost to a handler
that breaks off (`MaxBroken`; other requests break off without bound): without
this bound the run finds the same in 4 140 885 states, and takes twice as long.
Deadlock is checked: a customer may always
try, buy, join or leave.

Fairness (`FairSpec`). The event loop runs every ready coroutine (tools have
timeouts, so a step returns); the queue worker ticks for ever; the clock
reaches every `expires_at`, which no suspension lacks; a supervisor restarts a
dead process (`restart` policy of the compose files). Nobody is assumed to
start, answer or cancel anything. No faults: with a swallowed database error a
running row stays running until the next restart, and a run that assumes no
further restart has nothing to show.

For the pool, `FairSpec` lets a coroutine proceed that waits for a close (5 s,
then the process is killed) or has done so, and asks for strong fairness of
`Acquire`: `asyncio.Lock` serves its waiters in order. Of starts and uses of a
server nothing is assumed, because the code bounds neither: under the start
lock it waits for stderr to end (`core/mcp_wrapper.py:162`, 249), for `drain()`
(356), for an installer and the database. `CallsReturn` has their ends as its
premise instead, for all calls, so what it excludes is that calls block each
other for ever. The timeout of a step is not needed and not assumed to fire. The
cleanup loop need not run.

For the wrapper, each caller that can run does so in the end, and timers fire
(`Resumes`). Nothing is assumed of answers, readers or `close()`, nor of
`drain()` and the two readings of stderr to the end (`IsLet`), which have no
timeout: that they return, for every caller, is the premise of `CallsEnd`.
Without it the property is false, since one server that stops reading while a
call sends holds the send lock for ever. Sessions, rotations and
billing have safety properties only: nobody promises that LemonSqueezy delivers
an event again.

## Findings

1. **A second resume can land on another suspension** (`second_resume`).
   `resume()` loads the row, prepares the new state, and updates it
   `WHERE status = 'suspended'`. The comment at
   `orchestration/resumable_executor.py:240` says the second of two resumes
   gets zero rows. If the first has in the meantime run on and suspended
   again, the second matches, and puts back the state it prepared for the
   first suspension; the steps done in between are done again.
2. **A parent can miss its child's end** (`wakeup`). `dispatch` starts the
   child before the parent is suspended; if the child ends first,
   `_propagate_to_parent` finds the parent running and drops the news. The
   comment there expects the sweep to catch it, but the sweep looks only at
   running rows: the parent waits out its TTL and expires.
3. **A start lock can be dropped while it is held** (`lock`). The lock is there
   "to prevent concurrent server starts for the same user-server combination"
   (`core/user_server_pool.py:105`). The cleanup loop deletes the locks of
   users without a dictionary, and a user has none until the first start has
   finished: the next call makes a new lock and starts a second process. The
   one stored last replaces the other, which is never closed.

Seen while modelling the pool, and not runs of their own: the limits are
"maximum concurrent servers" (`core/user_server_pool.py:89`) and can be passed
by concurrent starts (`LimitsWithSlack`); `_remove_user_server` deletes by key,
so the loser of two removals gets a `KeyError`, and a removal that overlaps a
new start can drop the new server's entry; a round of the cleanup loop deletes
the dictionary of a user it found empty, with what was stored there since, and
is abandoned when the dictionary of users grows under it; a start that times
out leaves its process; one whose server never lets go of its stderr holds its
lock for ever, if no timeout of its caller cancels it; `restart_user_server` calls `_rebuild_semantic_index`
(line 949), which does not exist, and reports failure after each success.

Seen while modelling the executor: the expiry scan says that a user who resumes
first wins (`orchestration/queue_worker.py:312`), but if the user's resume
reaches another wait before the timer's task loads the row, the timer's payload
answers that one, be it an approval (finding 1 by another way); a child that expires, is swept
or is marked `detached_crash` never tells its parent;
the idempotence guard for steps found `in_progress` is never reached
(that is why `BegunOnce` holds across crashes); `/resume` does not look at why the execution is suspended,
so its owner may answer an approval; a cancel that was accepted may still end
as completed, failed or expired; a database error in a loop that `resume()`
entered leaves a running row until the next restart.

Two of these disagree with what the repository says, and bear on
`CompletedMeansAllDone`:

- No step is ever skipped. The docstring of `_next_step`
  (`orchestration/resumable_executor.py:409`) speaks of steps "optional+skipped",
  and `docs/composition_executions_b0.md:60-62` has "skip if optional=true, else
  fail composition". The executor does not read `optional`: a step that raises
  fails the execution, optional or not.
- A rejection is an answer like any other. The docstring of `/reject`
  (`api/v1/composition_executions.py:789-792`) says that "whether the composition
  then fails or continues is governed by the step's `optional` flag". The
  decision is stored in the step's result, the step is recorded as succeeded,
  and the execution goes on, so one whose approval was rejected may end as
  completed.

Seen while modelling the wrapper: the end of a reader leaves the wrapper
initialized with its process, so every later request waits for the full
timeout; `_cleanup_process` drops pending futures without failing them, with
the same effect; the answer to an `initialize` that its caller takes up after a
close has ended sets `_initialized` on a wrapper without a process; starts and closes that
overlap can leave a process that no field refers to (hence `astray` in
`KnowsItsProcess`). Also:

- "Routes responses to the correct pending request based on ID"
  (`core/mcp_wrapper.py:263`): a request the server sends (a ping, say) carries
  an id of the server's choice; if it is pending, the request becomes the result
  of that call, and the true response is dropped as an orphan.
- `drain()` (356) is awaited under the send lock, and stderr is read to its end
  at 162 and 249 with no timeout: a live server that stops reading, or a
  grandchild that keeps the pipe, blocks every caller of the wrapper.
- From its spawn to the end of the 0.5 s sleep the process of a fallback is in a
  local variable only. A `close()` in between does not see it and reports the
  wrapper closed; the start then stores it. A call cancelled in that sleep leaves
  it running for good.

Seen while modelling sessions: an SSE stream that ends cleanly retires its id,
so rows stored under it wait for a session that cannot come back; the updates
stored for it expire (`docs/composition_executions_b0.md:962` has their delivery after a reconnect); after
a stream that was cancelled its queue stays, and updates put there count as
delivered until the session is resumed or found expired (hence `cut` in
`NoOrphanQueue`); two streams resumed on one id end each other; two quick
replays push the same rows twice; `drop_session` of the subscription tracker
has no caller.

Seen while modelling key rotation:

- MFA secrets and backup codes (`services/mfa_service.py:85`) and OIDC client
  secrets (`models/oidc.py:193`) are encrypted by the same manager, but a
  rotation does not touch them and the status does not count them. "After
  successful migration, you can remove V1 key" (`cli/rotate_keys.py:248`) makes
  them unreadable.
- "After successful migration, you can remove V1 key" (`cli/rotate_keys.py:248`;
  likewise step 5 in the docstring of `core/secrets_manager.py`) asks for no
  status, though a successful report may have left rows behind (next point).
  Those become unreadable when the key goes. This is the exception in
  `KeepsReadable`; without it TLC finds the loss.
- A rotation counts rows it cannot decrypt and still reports success. Without
  an ORDER BY, a row that moves or goes while it runs makes it skip another,
  and it reports success with a row on the old key. The two are what `smooth`
  excludes; without it TLC finds both.
- An update committed between the read of a batch and its commit is
  overwritten by the old content under the new key (`changed` in
  `KeepsSecrets`; without it TLC finds the lost update).
- The rotation steps in the docstring of `core/secrets_manager.py:16` and in
  the header of `cli/rotate_keys.py` do not keep the old key as
  `ENCRYPTION_KEY_V1`: rows of version 1 then have no key. With only V2 added
  and `ENCRYPTION_KEY` left as it was, the old key becomes version 3, and
  current. After a rotation, an environment with the one unnumbered key calls
  it version 1, and rows of version 2 have no key. The model follows the steps
  that `generate` prints, which avoid all three.

Seen while modelling billing:

- The comment at `api/v1/webhooks.py:549` takes a row without `processed_at`
  for one that "another worker holds". After a failed handler or a crash nobody
  holds it; a retry of the same body gets 202, which ends the retries, and the
  event is lost (`broken` in `AckedIsHandled`). The comment at line 569 counts
  on retries with another body.
- When the commit of a handler fails, the session needs a rollback, and the
  `error` column cannot be written either. When a handler raises after it has
  assigned some columns, the commit of `error` commits those too
  (`HalfHandled`).
- An organization on trial can neither accept an invitation (its subscription
  has a made-up id, the PATCH fails, 502) nor check out (it is sent to the
  portal of that id, 400), although the trial is of the team plan.
- A change of plan in the portal never reaches the row: `subscription_updated`
  ignores the variant. It also puts the quantity in place of `max_users = 0`,
  which means unlimited. Neither limit is enforced: `check_user_limit` has no
  caller.
- Two open checkouts make two paid subscriptions, of which the row knows the
  later one. A status the table does not list (`unpaid`) becomes active.
- Events out of order, or two handlers at once, may leave the row with an old
  status or with columns of both (`untidy`); two changes of members at once,
  or one invitation accepted twice, bill too many seats or too few (`alone`).

## Proofs

`CompositionExecution_proofs.tla` proves, for any set of executions, any
compositions, any number of coroutines, crashes and faults and any depth cap
(from `PlanAssumption` and `BoundAssumption` alone):

| theorem | statement |
|---|---|
| `Invariance` | `Spec => []RunnerInv` |
| `TypeCorrect` | `Spec => []TypeOK` |
| `Exclusion` | `Spec => []OneRunnerPerRow` |
| `Depth` | `Spec => []DepthBounded` |
| `Finality` | `Spec => TerminalIsFinal` |
| `Freshness` | `Spec => []InMemoryStateIsFresh` |

`OneRunnerPerRow` is not inductive by itself. `RunnerInv` adds what it leans
on: a dead process has no coroutines (so the sweep, which changes running rows,
meets none of their owners), what each program point knows of its coroutine
(`ProgramPoints`: a coroutine about to begin a step has one to begin, one that
suspends has a current step, one that tells a parent has ended and has a
parent), and that a parent exists before its child (so an inserted row is not
already somebody's parent). The proof follows the life of ownership: a
coroutine comes to own a row by inserting it or by the conditional UPDATE on a
suspended row, and neither kind of row is owned (`NewOwner`); every way out of
`running` retires its owner or happens when no coroutine lives. The other steps
make no owner (`NoNewOwner`). `Finality` and `Freshness` then follow: whoever
writes a row's state owns it or finds it suspended, so it is not terminal and
nobody else holds a copy.

`CompositionSteps_proofs.tla`, from the same two assumptions:

| theorem | statement |
|---|---|
| `Order` | `Spec => []StepsInOrder` |
| `WaitsOnOneStep` | `Spec => []SuspensionWellFormed` |
| `Counting` | `Spec => []CallsAreCounted` |
| `CompletionIsEarned` | `Spec => []CompletedMeansAllDone` |
| `StepsBeginOnce` | `Spec => []BegunOnce` |
| `NobodyStranded` | `Spec => []NoStrandedRow` |
| `CancelIsHeard` | `Spec => []CancelStopsSteps` |

`StepsInOrder` says of every state that counts, the one in a row and the copy a
coroutine holds at each program point, that it is between two steps, inside
one, or at the end. It is inductive together with `Freshness`: a coroutine that
moves on moves on from what the row says. `WaitsOnOneStep` follows from it.
`CallsAreCounted` adds the history: as long as no answer was misplaced, a step
that is pending in the row was begun never and any other once, and even then a
step that is not pending was begun. It holds because between two steps the next
one is pending, and because what a resume writes is the row's own state with its
current step done, or else the answer is misplaced. `CompletionIsEarned` and
`StepsBeginOnce` are its consequences.
`NobodyStranded` looks at who makes a row running (an insert, a resume, a
spawned child: each in the hands of the coroutine that does it) and at who lets
go of one (nobody without ending or suspending it, but for a crash, after which
the sweep comes first, and a database error, which the property excludes).
`CancelIsHeard` adds that no coroutine stands past its check once a step was
begun after the cancel (`LastBegun`).

`CompositionLifecycle_proofs.tla`, from the same two assumptions:

| theorem | statement |
|---|---|
| `AnswersFit` | `Spec => []OneSuspension` |
| `ExpiriesAreDue` | `Spec => ExpiresOnlyWhenDue` |
| `ChildrenAnswerTheirParent` | `Spec => ChildAnswersOwnParent` |
| `KeepsPromise` | `Spec => KeepsLifecycle` |

The last one has no hypothesis. In `AnswersFit` and the two after it the
condition that a composition suspends once stands row by row, in the properties
themselves; it is not justified for all compositions (finding 1).
`OneSuspension` says what is still true of an answer under way: whoever saw the
row suspended on a step finds it suspended there, with the very state the answer
was prepared from, or past that step, in which case the conditional UPDATE or the
expiry finds nothing. `KeepsPromise` takes the actions one by one: a save of
`succeeded` is a step of the abstract execution, everything that only moves
coroutines is a stutter, and a resume is the abstract answer if it was prepared
from the row's state, and `Misplace` otherwise: what it writes is in any case a
state with the first steps done and no other.

`UserServerPool_proofs.tla` proves, for any users, servers, wrappers and
coroutines and any positive limits (from `PoolAssumption`, and for the last
theorem `TaskAssumption`: finitely many coroutines, so that they can be counted):

| theorem | statement |
|---|---|
| `PoolInvariance` | `Spec => []PoolInv` |
| `PoolTyped` | `Spec => []TypeOK` |
| `Isolation` | `Spec => []OwnServerOnly` |
| `NoClosedInPool` | `Spec => []PooledIsOpen` |
| `LimitsHold` | `Spec => []LimitsWithSlack` |

`OwnServerOnly` needs to know why the wrapper a start stores is the right one:
`PoolInv` adds that the wrapper a start waits for is nobody else's, that it was
made for the key the start is for, and that whoever holds a wrapper holds one
whose process was started, so that a start never takes an object in use. A
wrapper under removal was made for the key its entry is deleted under; so at
the moment it is closed for good no entry refers to it, which is
`PooledIsOpen`. Steps of one actor leave what the others know (`Others`); the
steps that take a wrapper (`TakeStep`, `SweepTakeStep`) and those that let go of
one (`ReleaseStep`) need be looked at once each.

`LimitsWithSlack` is not inductive either, since it does not count the starts
under way. `RoomInv` does: servers and starts that have passed a limit are
together fewer than the limit and the coroutines. A coroutine passes a limit
when the servers are fewer than it, and there are at most all the other
coroutines between passing and storing; or it evicts, and takes the place of its
victim (`EvictsItsOwn`: for the user's limit a server of the same user). A
removal by somebody else only makes room.

`StdioWrapper_proofs.tla`, for any callers, closers, calls and processes
(finitely many callers and closers, `FinitelyMany`, for the last theorem, which
counts them):

| theorem | statement |
|---|---|
| `WrapperInvariance` | `Spec => []IInv` |
| `WrapperTyped` | `Spec => []TypeOK` |
| `RoutesToOwner` | `Spec => []OwnAnswer` |
| `NothingLeftPending` | `Spec => []PendingIsAwaited` |
| `NoneLeftBehind` | `Spec => []KnowsItsProcess` |

The argument is about ids. An id is taken once, so what is registered, written
or held carries an id not ahead of the counter (`IdsAreTaken`), and what a
process was sent under the id a caller awaits is that caller's request
(`SentIsOwn`): what a caller is answered with is then its own response, or a
message of the server under its id, across restarts too, because a restart does
not reset the counter. For `NoneLeftBehind`, `TakesTurns` adds what starts and
closes know while they do not overlap and no fallback is cancelled: whoever has
started a process has it in hand and finds no other alive, in the retry and the
fallback as well, and whoever closes or cleans up waits for the process that the
wrapper still holds.

`GatewaySessions_proofs.tla`, for any ids, users, streams, helpers, posts,
resources and bounds:

| theorem | statement |
|---|---|
| `SessionInvariance` | `Spec => []SessionInv` |
| `SessionsTyped` | `Spec => []TypeOK` |
| `QueuesAreDrained` | `Spec => []NoOrphanQueue` |
| `StreamsOwnTheirSession` | `Spec => []OwnStream` |
| `RowsAreReplayed` | `Spec => NoRowLost` |

`OwnStream` is not inductive, since a stream may write back metadata that was
deleted: `Agreed` adds that what a stream has read is its own user's and that
all streams on one id have the same user, `Sited` that a fresh id is new to
all. For `NoRowLost`, `RowsAccounted` says that rows about to be deleted have
been used and that rows about to be inserted are in nobody else's hands.

`KeyRotation_proofs.tla`, for any credentials (finitely many), keys, versions,
contents, rotations and batch size:

| theorem | statement |
|---|---|
| `RotationInvariance` | `Spec => []RotationInv` |
| `RotationTypes` | `Spec => []TypeOK` |
| `CredentialsStayReadable` | `Spec => KeepsReadable` |
| `SecretsSurvive` | `Spec => KeepsSecrets` |
| `SmoothRotationsComplete` | `Spec => []QuietRotationCompletes` |

What carries the proof is that rows only improve (`RowsImprove`): a step that
writes rows writes them under the current version and its key, so what a status
has shown (`StatusHolds`), and what a rotation has passed (`Progress`), stays
true through the writes of everybody else. `BatchFollowed` ties a batch that
was read to what its rows are now, and `Labelled` says that a row of the current
version is under the current key or under none that is left, so the removal of
the other keys never costs it. If the operator is `Assured`, no readable row is
on an old version, so nothing is lost; keys that go on any other report may take
rows on old versions with them. A row inserted in front of the offset pushes
processed rows back, never an unprocessed one forward, and is current itself;
this is why creations do not disturb a rotation and deletions do.

`SubscriptionBilling_proofs.tla`, for any subscriptions, users (finitely many),
statuses, requests and number of events (from `BillingAssumption` alone):

| theorem | statement |
|---|---|
| `TypeCorrect` | `Spec => []TypeOK` |
| `EventsHandledOnce` | `Spec => []OneHandler` |
| `NothingLostSilently` | `Spec => []AckedIsHandled` |
| `PurchasesHaveTheirRow` | `Spec => []PaidHasRow` |
| `SeatsFollowMembers` | `Spec => SeatsMatch` |
| `RowOfOnePiece` | `Spec => []RowIsWhole` |
| `FollowsTheShop` | `Spec => []InSync` |

Each of the first five rests on one invariant of its own beside the types. `Accounted` says that
a claimed event that is not processed is being handled or broke off, so that
the exclusion is that of the insert. `PurchaseInHand` says that a handler of a
purchase that has written leaves a paid row, and no step makes a paid row an
unpaid one: every writer keeps the id it has read or brings one from an event,
and the trial is inserted only where there is no row. `CountsHold` says that
what a request alone has counted is still the number of members, because
whoever changes members takes `alone` from the others, and that what it bought
is still the quantity.

`RowIsWhole` and `InSync` share `TidyInv`, because neither says enough to
survive a step. The row is written column by column, so what a handler leaves
depends on whether it has read the row as it is. `WritersMeet` says that two
writers at once are both about untidy subscriptions, hence `SeenHolds`: what a
writer has read is what the row says, or neither its subscription nor the row's
is tidy, or it inserts and will meet the constraint. So only a writer of the row's own
subscription writes a tidy row, and it writes all of it (`RowWritten`); plan
and seats are then those of the purchase or of an update. For `InSync` the row
must also be compared with the events: `InOrder` says that an event of a tidy
subscription is claimed after the earlier ones were processed, and `RowFollows`
that the row says what the last applied event said, until one is lost; but the
cancellation endpoint sets its flag ahead of the event that tells of it, which
is then still to come. `RowBought` (a handler of a purchase that finds its row has
been there before) and `ShopTells` (the first event is the purchase, the last
one is what LemonSqueezy knows, the end of a subscription leaves the flag) close
the gaps. TLC checked `TidyInv` on the instance of `billing` before it was
proved, as it did the other strengthenings on those of their modules.

Only model-checked: `EventuallyEnds`, `CallsReturn` and `CallsEnd`, since the
prover has no fairness and no ENABLED. Every other property that a passing run
checks is a theorem. `SecondResumeGetsNothing`,
`NoStrandedParent` and `OneStartPerServer` are violated (findings 1 to 3).

## Seeded faults

Next to the definitions they break stand operators marked "Seeded fault": the
same definition with one plausible bug (a dropped `WHERE`, an unsaved step, a
missing sweep, a depth cap nobody looks at...). `PROJECT.json` names, for every
property, the fault that violates it when put in the definition's place. They
are in no behaviour of `Spec`.

## Plan

Order of the modules still to write; each with its runs, faults and proofs.

1. The rest of `UserServerPool`: `cleanup_user_servers`, shutdown.
2. `ApprovalStep` and `QueueWorker` promotion: gates, decisions and tokens; the
   per-user limit against routed calls and resumes.
3. `OAuthTokens`: codes and refresh tokens, revocation in memory and database,
   across restarts.
4. Composition lifecycle and edits under suspended executions.

Proofs to come: the safety core of each new module.

Not modelled, and why: marketplace and discovery (catalogue merging and
search), organizations (but for their members), administration, audit, mail and branding (single
transaction CRUD), the frontend (no authoritative state), the synchronous
executor (one call, nothing kept).
