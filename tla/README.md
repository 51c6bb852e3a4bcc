# TLA+ models of the recon UserAgent control layer

This directory holds TLA+ models of `src/resip/recon/UserAgent.cxx`, the
reSIProcate "recon" SIP user agent control layer. They are checked with TLC.
The other source files are `src/repro/plugins/pyroute/PyRoutePlugin.cxx`, a
repro routing plugin that calls a Python script, plus an export-macro header
and a link smoke test.

## 1. Inventory

### Components of UserAgent.cxx

| Component | State | Operations (source lines) |
|---|---|---|
| Handle allocator | `mCurrentConversationProfileHandle`, `mCurrentSubscriptionHandle`, `mCurrentPublicationHandle`, each behind its own mutex | `getNew*Handle` (139-182) |
| Command queue / executor | the DUM FIFO; commands are heap-allocated `*Cmd` objects | every public call posts one (288-342, 203-207, 231-242); `process` (196-201) drains it |
| Entity registries | `mConversationProfiles`, `mRegistrations`, `mSubscriptions`, `mPublications`, `mDefaultOutgoingConversationProfileHandle` | `*Impl` handlers (599-759), `register*/unregister*` (146-194) |
| Entity classes | the state of `UserAgentRegistration`, `UserAgentClientSubscription` and `UserAgentClientPublication` | `end`, `forceRefresh`, and the DUM callbacks (764-852) that are forwarded to them. These classes are not in `src/` |
| Registration refresh watcher | reads `mRegistrations` | `post(Message*)` with `ConnectionTerminated` (459-480) |
| Timer service | SipStack timer queue | `startApplicationTimer`, `post(msg, duration)` (231-242, 550-561) |
| Shutdown coordinator | `mDumShutdown`, DUM shutdown state, stack thread | `shutdown` (203-217), `shutdownImpl` (575-597), `onDumCanBeDeleted` (453-457) |
| Profile selector | reads the registries | `getIncomingConversationProfile` (376-433), `getConversationProfileByMediaAddress` (359-374) |
| Transport setup | the transport list, `lastActualPort` | `addTransports` (482-548), called by the constructor (88) |
| Logging and DNS | none of this layer | `setLogLevel`, `logDnsCache`, `clearDnsCache` |

### How the parts interact

Any number of application threads call the public API. A creating call
takes a handle from a counter under a mutex and builds a command. It posts
the command to the DUM FIFO and returns the handle. Posting happens after the
mutex is released, so two threads' commands can reach the queue in the
opposite order to their handles.

One thread calls `UserAgent::process`. On that thread the DUM executes the
posted commands in FIFO order, one at a time. It also delivers DUM callbacks
on the same thread, in between commands: registration success, failure and
removal, subscription termination, publication removal, connection loss, and
"can be deleted".

Entities are indirect. A registry maps a handle to an entity object. That
object is the DUM's AppDialogSet, so it stays in its registry exactly as long
as its dialog set lives.

Shutdown works like this. The caller posts a shutdown command and then polls
`process(100)` until `mDumShutdown` is set. The shutdown command calls
`mDum.shutdown(this)` and then calls `end()` on copies of the subscription
and registration maps.

### What is hard here

- Interleavings of API calls from several threads with each other and with
  DUM callbacks. Allocation and posting are separate steps.
- Handles that went stale. A destroy and a later set-default can name the same
  handle. A destroy can race the entity removing itself.
- `std::map::operator[]` inserts a null profile for a missing key.
- Connection loss must refresh every registration on the lost flow.
- Shutdown must end everything the DUM still holds. The wait loop has no
  deadline.
- Ownership of posted messages: commands are `new`-allocated, while a
  zero-delay timer is a local object.

### Properties that make each component correct

- Registries: while profiles exist there is a default, and the default is
  never a profile whose add command is still being built or queued
  (`DefaultNamesAddedProfile`): the add is posted before its handle is
  returned, and the FIFO runs it before any set-default with that handle.
  A stale set-default may still name a destroyed profile (finding 1). A registration whose profile was destroyed is ending.
- Executor and handlers: no handler asserts or dereferences a null profile.
  Every message the DUM holds is owned by it.
- Destroy: a destroyed subscription or publication eventually leaves its
  registry. A destroyed profile's registration eventually leaves
  `mRegistrations`, even if its flow is lost while it is ending and the
  connection-loss handler (line 475) calls `forceRefresh` on it
  (`DestroyedProfileUnregisters`).
- Refresh watcher: no registration stays "registered" over a lost flow.
- Shutdown: once `shutdown()` is called, the DUM eventually reports that it can
  be deleted.
- Selector: first match wins. The checks are, in order: registration
  contact with the rinstance rule, then To AOR, then the default.

## 2. Modules and plan

| Order | Module | Status |
|---|---|---|
| 1 | `UserAgent.tla`, with `MC_UserAgent.tla` | done |
| 2 | `ProfileSelector.tla`, with `MC_ProfileSelector.tla`: the three profile lookups as pure RECURSIVE operators, checked against the first-match rule | done |
| 2b | `UserAgent` gets an `IncomingRequest` DUM event that uses `GetIncomingConversationProfile` and inserts the null entry of the default fallback. This exposes the null-profile dereference at line 419 | done |
| 3 | `HandleLifecycle.tla`: the abstract handle lifecycle (free, allocated, live, ending, gone). `UserAgent` is checked against it through `INSTANCE ... WITH` a refinement mapping, once per entity category | done |
| 4 | `Transports.tla`, with `MC_Transports.tla`: `addTransports` as a RECURSIVE operator (port -1 inherits the last actual port, failed transports are skipped) | done |
| 5 | `PyRoute.tla`, with `MC_PyRoute.tla`: `PyRoutePlugin` init, process and destructor, with requests waiting for worker results | done |
| 6 | `HandleAllocator.tla`, with `MC_HandleAllocator.tla`: the three handle counters at their bit width, with the publication counter the constructor leaves uninitialised | done |
| 7 | Shutdown called twice (an explicit call, then the destructor). Its effect lies in `ThreadIf` and the DUM destructor, outside `src/` | not modelled |

### `UserAgent.tla`

- **Variables.** Each variable maps to a C++ member or a DUM-side fact (see
  the comments in the module).
  - `cmdQueue` is the DUM FIFO.
  - `thread[t]` holds a thread's pc: idle, between allocation and post, in
    the shutdown wait, or done.
  - `issued` is the set of handles returned to the application. Later calls
    take their arguments from it, stale handles included.
  - `crashed` marks a `resip_assert` or null dereference. No step follows it.
- **Actions.** There is one per public call. A creating call has two: the
  allocation (`AddConversationProfile`, `CreateSubscription`,
  `CreatePublication`), then `PostAndReturn`. Other actions:
  - `HandleCall`/`PostCall`: set-default and the destroy calls.
  - `StartApplicationTimer`, `Shutdown` and `ShutdownReturn`.
  - `Execute`: one command, through `Dispatch`, to the `*Impl` handler
    translated from the code.
  - One action per DUM callback.
  - `IncomingRequest(C, A)`: an incoming request is matched to a profile
    (376-433). The request is abstracted to the registration whose contact
    it matches (`C`) and the profile whose AOR it matches (`A`). Each is at
    most one handle, because only the first match decides the outcome. The
    To loop crashes on a null entry it reaches. The fallback inserts a null
    entry for a stale default. The action needs at least one profile,
    because the spec makes that the caller's duty.
- **Spec-modelled parts.** These are marked in PROJECT.json:
  - `EndEntity`, `EndRegistration`, `ForceRefresh` and `NewRegistration`
    stand for the entity classes. An entity is active, then ending after
    `end()`, then removed on its terminal callback.
  - `Cmd` and `Dispatch` stand for `UserAgentCmds.hxx`.
  - The DUM reports "can be deleted" once it holds no dialog set.
- **Specifications.** `Spec` adds the fairness below to `Init /\ [][Next]_vars`;
  `SafetySpec` is the same without it, for the profiles run, which checks
  only invariants and the refinement.
- **Abstractions.**
  - Profiles carry no data yet, only "profile" or "null".
  - A registration is a status plus the flow of its last server tuple.
  - Subscriptions and publications are a status.
  - Publication content (the PIDF document, lines 701-745) is formatting and
    is left out.

### `ProfileSelector.tla`

- **Operators.** `GetIncomingConversationProfile` (376-433),
  `GetDefaultOutgoingConversationProfile` (344-357) and
  `GetConversationProfileByMediaAddress` (359-374) take a registry snapshot.
  Each `for` loop over a `std::map` is a RECURSIVE scan over the keys in
  ascending order (`KeysInOrder`). The nested registration/contact loop scans
  the flattened (handle, contact) sequence.
- **Results.** A lookup returns `Selected(h)`, `NullResult` (a null
  `shared_ptr`) or `CrashResult`. A crash is a `resip_assert(false)` or a
  dereference of a null map entry inside a loop.
- **Abstractions.** A uri is what `Uri::operator==` compares (one model value)
  plus its `rinstance`, which `operator==` ignores. An AOR is a name plus its
  letter case, so `isEqualNoCase` compares names only. A profile is its
  default-from AOR and its media origin address.
- **State machine.** `Init` picks a snapshot UserAgent can hold:
  - registrations whose profile is gone;
  - a stale default, or a null entry;
  - a default of 0 exactly when there is no profile.
  `SelectIncoming` and `SelectByMediaAddress` record the results.
- **Reference.** `SelectionRule` restates §4.3 of the spec over sets, with
  lexicographic minima instead of loops. It applies to consistent snapshots:
  no null entry, and a non-zero default is live.

### `HandleLifecycle.tla` and the refinement

`HandleLifecycle` says what the user agent promises about the handles of
one category, with no threads, commands or DUM. A handle is `free` until
the counter hands out the lowest free one (`Allocate`). Its entity is
created once (`Create`). A set of live entities can be ended at once
(`End`, as `shutdownImpl` does). A live or ending entity goes away
(`Remove`). A handle never goes back a stage, so it is never reused.

`UserAgent.tla` instantiates it three times: for profiles, subscriptions and
publications. The mapping `Stage` says:

- a handle at or above the counter is `free`;
- a handle whose creating command is still pending (a thread between
  allocation and post, or the command in `cmdQueue`) is `allocated`;
- a handle in its registry is `live` or `ending`, from the entity status;
- any other handle is `gone`.

`ProfileHandlesRefined` and `EntityHandlesRefined` are the abstract `Spec`s
under this mapping, checked as PROPERTYs. They catch a counter that hands
out a handle twice or skips one, an entity created twice, and an entity
that comes back after removal. The abstract spec has no liveness, because a
crash of the model stops every removal. Liveness stays in
`DestroyedEntitiesRemoved`.

### `Transports.tla`

- **Operator.** `AddFrom` is the loop of `addTransports` (488-546) as a
  RECURSIVE fold. It carries `lastActualPort` and the set of transports
  bound so far. `RequestedPort` is the `-1 ? lastActualPort : port`
  argument at line 510.
- **Spec-modelled parts.** `SipStack::addTransport` is not in `src/`, so two
  operators stand for it:
  - `BoundPort`: port 0 binds a fresh ephemeral port.
  - `BindFails`: the add throws when the transport is broken (interface or
    TLS material) or when an earlier transport of the same protocol holds
    the port.
  The exception is caught and the transport is skipped (spec, "transport
  failures").
- **State machine.** `Init` takes every transport list of up to four entries.
  `AddTransportsRun` records each transport's `mActualPort`, or `Unset`.
- **Reference.** `PortMinusOneFollowsLastAdded` is the rule of the comment
  at line 510, stated over sets. A `-1` transport uses the port of the last
  transport *added* before it, so failed ones are passed over, and it uses
  an ephemeral port when no transport was added. A failure does not stop
  later transports.
- **Not modelled.** The TLS certificate loading inside the `try`, which
  fails like a broken transport. The `rcvBufLen` branch: with
  `RESIP_SIPSTACK_HAVE_FDPOLL` it only sets a buffer size; without it,
  `resip_assert(0)` fires (hazard at line 532).

### `HandleAllocator.tla`

- **What it models.** The three `getNew*Handle` functions (139-183) are
  `return counter++` under a per-category mutex. Any number of threads call
  them, so one `Allocate(t, c)` step is the whole critical section.
- **Wrap.** The counters are unsigned, so the increment is
  `% 2^Width`. The module has no type invariant: the modulo keeps every
  counter in range whatever the code does, so such an invariant would
  show nothing.
- **Start values.** `Init` follows the constructor's initialiser list
  (50-53). The subscription and profile counters start at 1. The
  publication counter starts at any value of `PublicationStarts`. The
  member is missing from the list, and the class header is not in this
  repository. Reading it uninitialised can give any value of its width.
- **Property.** `HandleContract` is the allocator contract of spec 4.1 and
  of its property test. Within a category every handle is at least 1, no
  two allocations return the same handle, and each thread's handles
  strictly increase.

### `PyRoute.tla`

This module models `src/repro/plugins/pyroute/PyRoutePlugin.cxx`.

- **Variables.** `phase` runs from constructed through `initFailed` or
  `running`, then `joining` and `restoring`, to `destroyed`. The other
  variables are:
  - `python`: the interpreter is initialised.
  - `threadState`: the main thread state is saved.
  - `gil`: who holds the GIL, one of `NoOwner`, `"main"` or a worker.
  - `fifo`: the dispatcher queue.
  - `worker[w]`: idle, waiting for the GIL, or in the script, with its request.
  - `events` and `request`: the proxy's side.
- **Init.** `InitPlugin(c)` follows every return path of `init`. What
  matters is who holds the GIL on each path. After `PyEval_SaveThread`
  nobody does. A failed import or `on_load` returns `false` while the main
  thread still holds the GIL.
- **Process.** `Process(r, m)` posts an INVITE or MESSAGE to the dispatcher
  and answers `WaitingForEvent`. Any other method continues.
  `ProcessWork(r)` consumes the returned work item.
- **Workers.** `TakeWork`, `AcquireGil` and `ScriptReturns` stand for the
  repro Dispatcher and `PyRouteWorker`, which are outside `src/`.
- **Destructor.** The destructor is three steps:
  - `Destroy`: start.
  - `JoinWorkers`: the dispatcher's destructor joins its threads.
  - `RestoreAndFinalize`: `PyEval_RestoreThread` then `Py_Finalize`.
  `RestoreAndFinalize` needs the GIL to be free.
- **Fairness.** Weak fairness is assumed on the worker steps, on
  `ProcessWork`, and on the two destructor steps. These are threads the OS
  schedules, and the proxy's event loop. Host actions are not fair:
  configuration, requests and the decision to unload.

### Runs

The UserAgent runs use `MC_UserAgent.tla`, where threads and flows are model values. The selector run uses `MC_ProfileSelector.tla`. The transports run uses `MC_Transports.tla`, the allocator runs use `MC_HandleAllocator.tla`, and the PyRoute runs use `MC_PyRoute.tla`.

| Run | cfg | Expect | Checks | Bounds |
|---|---|---|---|---|
| profiles | `UserAgent_profiles.cfg` (`SafetySpec`) | pass | TypeOK, DefaultNamesAddedProfile, OrphanRegistrationEnding, NoRegistrationOnDeadFlow, ProfileHandlesRefined | 2 threads, 2 flows, 2 profiles, no subscriptions or publications, 2 further calls; symmetry over threads and flows |
| destroy | `UserAgent_destroy.cfg` | pass | TypeOK, DestroyedEntitiesRemoved (liveness), EntityHandlesRefined, DestroyedProfileUnregisters (liveness) | 1 thread, 1 flow, 1 profile, 1 subscription, 1 publication, 3 further calls |
| selector | `ProfileSelector.cfg` (`MC_ProfileSelector`) | pass | TypeOK, IncomingFollowsSelectionRule, MediaLookupFindsFirst | 2 profile handles, up to 2 contacts per registration, 4 contact uris, 3 profiles, 3 To AORs; about 427,000 snapshots |
| transports | `Transports.cfg` | pass | TypeOK, PortMinusOneFollowsLastAdded | lists of 1 to 4 transports over UDP/TCP, ports 5060, 5061, 0 and -1, each broken or not: 69,904 lists |
| pyroute | `PyRoute.cfg` | pass | TypeOK, NoWorkerInFinalizedPython, RequestsEventuallyRouted and DestructorCompletes (liveness) | 4 requests, 3 workers, configurations that load |
| pyroute_failed_init | `PyRoute_failed_init.cfg` | violation | DestructorCompletes | a configuration whose script fails to import or whose `on_load` throws |
| no_crash | `UserAgent_no_crash.cfg` | violation | NoCrash | create subscription before any profile |
| incoming_null | `UserAgent_incoming_null.cfg` | violation | NoCrash | 1 thread, 2 profiles, 2 further calls, no subscriptions or publications |
| allocator | `HandleAllocator.cfg` (`MC_HandleAllocator`) | pass | HandleContract | 3 threads, 2-bit handles, 3 allocations per category: the counter reaches its wrap point; symmetry over threads |
| allocator_uninit | `HandleAllocator_uninit.cfg` | violation | HandleContract | as above, with any start of the publication counter |
| timer_owned | `UserAgent_timer_owned.cfg` | violation | PostedMessagesOwned | zero-delay timer |
| shutdown | `UserAgent_shutdown.cfg` | violation | ShutdownCompletes (liveness) | publication alive, or created after the shutdown command |

**Why these bounds are enough.**

- Selector:
  - Two handles give both orders of a contact match and an AOR match.
  - Two contacts give a match on the second contact.
  - The four contact uris cover a host mismatch, an absent rinstance, and
    equal and unequal rinstances.
  - The profile values include two spellings of one AOR that differ only in
    case, and two profiles sharing a media address.

- Transports: three entries give a `-1` after a failed transport, which
  must pass over it to an earlier one. They also give a `-1` first in the
  list, and a `-1` of the same protocol as its partner, which collides. The
  fourth entry gives chains of `-1` and a `-1` after a `-1` that failed.
  Two configured ports plus 0 and -1 cover every case of `RequestedPort`,
  and let a `-1` inherit a port that differs from the one a later entry
  names.
- PyRoute: three workers let one run the script while two wait for the
  GIL, which is what the destructor must wait out. Four requests keep all
  workers busy with one more in the queue.
- Allocator: three threads make every interleaving of two callers with a
  third between them. The property and the counters do not tell threads
  apart, so the run uses symmetry over them.

- Two profiles are the least that can exercise the default moving from a
  destroyed profile to another one, two threads adding in the opposite order
  to their handles, and two registrations sharing one lost flow.
- Two flows let a registration succeed again over a live flow after a loss.
- Two further calls allow a destroy followed by a stale set-default, and a
  timer.
- In the destroy run, one thread suffices. The race in question is between
  the destroy command and the DUM's remote termination, and that race does
  not depend on a second thread. Subscription and publication handles are
  both 1 there, so a handler that looks in the wrong map is caught.
- The full product of all bounds is over 75 million states. That is why the
  questions are split across runs.

**Deadlock.** Every cfg sets `CHECK_DEADLOCK FALSE`. Transports and
ProfileSelector stop after their one lookup. HandleAllocator stops when
the allocations are used up. PyRoute stops once the
plugin is destroyed. UserAgent stops for good in three cases: after a crash, after shutdown has completed and the
stack thread is joined, and when the API bounds are used up with nothing
pending. The last is the real user agent idling.

**Fairness.** These actions are weakly fair:

- `Execute`: the application's loop keeps calling `process()`.
- Removal of an *ending* entity: every `end()` sends a request that gets an
  answer or times out in the transaction layer.
- `TimerFires`.
- `DumCanBeDeleted`.
- `ShutdownReturn`: the polling loop.

API calls, registration answers and remote terminations are not fair. The
application and the far end may never act.

## 3. Results

- The profiles, destroy, selector, transports, allocator and pyroute runs pass.
- Each property of a passing run has a mutant in PROJECT.json that TLC
  refutes. The mutants are a pre-incremented handle counter, a command
  FIFO that runs the newest command first, a registration that is not
  ended, a connection-loss scan that stops at the first match, a destroy
  that looks in the wrong map, and a `forceRefresh` that re-sends REGISTER
  on a registration that is already ending. For the selector they are a contact test
  without the rinstance clause, a media-address scan from the end of the
  map, and a default lookup that does not consult the map. The refinement
  properties are refuted by a pre-incremented counter. Transports has an
  unmapped `-1` port passed to the stack, and a fold that remembers the
  requested port instead of the bound one. The allocator has publication handles taken from the
  subscription counter. PyRoute has an `init` failure
  path that releases the GIL, returned work that is posted again, a worker
  that keeps its request, and a join that does not wait.
- Findings, from the six violation runs (finding 1 shows in the incoming_null trace, which runs on to finding 6).
  1. `setDefaultOutgoingConversationProfileImpl` does not check the handle
     (line 633). A later `operator[]` then inserts a null profile (line 349).
  2. A create command run with no profile asserts and dereferences null
     (line 679).
  3. `startApplicationTimer` with zero duration posts the address of a
     stack object (line 240).
  4. Shutdown never completes while a publication is alive, or when an entity
     was created by a command queued after the shutdown command (line 581).
  5. `PyRoutePlugin::init` returns `false` after a failed import or
     `on_load` while the main thread still holds the GIL (line 88). Repro
     then deletes the plugin. The destructor's `PyEval_RestoreThread`
     (line 44) waits for a GIL its own thread holds, so the unload never
     completes.
  6. `getIncomingConversationProfile` is not pure, although the spec says it
     is. With a stale default, its fallback inserts a null entry (line 349).
     The entry outlives the default being corrected. Every later request
     whose To loop reaches it then dereferences null (line 419), even a
     request addressed to a live profile. Incoming requests alone crash the
     user agent, with no subscription or publication involved.
  7. The constructor does not initialise `mCurrentPublicationHandle`
     (line 51). The spec says handles start at 1. Unless the header (not in
     this repository) gives the member a default, publication handles can
     start at the reserved 0, or near the top and wrap.

## 4. Not modelled

- Logging, DNS cache and the constructor's handler installation: no state of
  this layer.
- SIP message content, PIDF construction and media.
- The DUM and transaction layer beyond the contract above.
- The export header and the smoke test, which have no behaviour.
- A second shutdown call (the destructor after an explicit `shutdown()`).
  `mDumShutdown` is already set, so the call posts a command that never
  runs and skips the wait. What follows is `ThreadIf::shutdown`/`join` on a
  joined thread and the DUM destructor, outside `src/`.
- `startup()` (lines 133-137), which runs the stack thread. The model starts
  in the state after `startup()`: the stack thread is running from `Init`
  and the DUM's callbacks may fire. An application that never calls
  `startup()` leaves every network answer and stack timer undelivered;
  modelling that would gate every DUM callback on a DUM-side fact, and it
  would double the state space of the two largest runs.
- Transports: TLS certificate loading and the `rcvBufLen` branch.
- PyRoute: the Python script's own behaviour, and the repro Dispatcher
  beyond a FIFO with worker threads.
- PyRoute: work a worker posts back while the destructor joins it. The
  work refers to the plugin. Whether the proxy can still process it after
  the plugin is deleted depends on repro's shutdown order, outside `src/`.
  The model stops processing returned work once the destructor starts.
- The remaining unmapped lines of `UserAgent.cxx` are includes, accessors,
  no-op application hooks, `setLogLevel`, and one-line forwarders of DUM
  callbacks into the entity classes (update, new-subscription and retry
  callbacks). Those forwarders change only entity-class state, and those
  classes are outside `src/`. The unmapped lines of `PyRoutePlugin.cxx` are
  includes, logging-only chain callbacks, the plugin factory and the
  licence. The export header and the smoke test have no behaviour. Nothing
  more of these files can be modelled from their own lines.
