# TLA+ models of the pyNetX session-management examples

The repository's Python sources (`src/examples/`) are scripts that drive the
C++ `NetconfClient` of pyNetX. The C++ client itself is not under `src/`.
Two of the scripts contain the session-management design that `spec.md`
describes: a registry of sessions shared between concurrent units, a
supervisor that reconnects, a dispatcher that issues requests, and a
per-device notification pump. This directory models those two scripts,
the one-shot fetch and the threaded ncclient listeners, and checks them
with TLC.

## Inventory

| Component (spec) | Code | State | Operations |
|---|---|---|---|
| SessionRegistry | `connections` + `connections_lock` (`async_example_get_multiple.py:37-40`); `CONNECTIONS` (`async_example_edit_config.py:13`) | key -> NetconfClient. The first is keyed by (hostname, port); the second by host only | get under the lock, put under the lock; no remove |
| ConnectionSupervisor | `connection_manager_coroutine`, `async_connect_device`, `async_is_connection_alive`, `async_reconnect_device` (get_multiple 46-133), run in its own thread and event loop | roster position, local `client`, `old_client` | initial connect of each device; every 30 s: lookup, probe with `get_async("")`, then reconnect (re-read, disconnect old, connect new, put) |
| RequestDispatcher | `main_fetch_coroutine`, `fetch_data` (get_multiple 151-190) in the main thread's event loop | one task per device per batch | lookup, `get_async`, `finally: disconnect_async` of the client it read |
| NotificationPump | `handle_device` (edit_config 18-109), one asyncio task per device | local `client`, `full_notif` | connect-or-reuse cached client, `get_config_async`, `subscribe_async`, then forever: receive a chunk, accumulate, split at `]]>]]>`, log |
| ProtocolSession | C++ `NetconfClient` (not in `src/`) | session status, notification byte stream | connect, disconnect, request, receive; modelled from `spec.md` §6 as the environment |
| One-shot fetch | `fetch_data`, `main` (`async_example_get.py` 39-79) | one client and one task per device | connect, get, `finally` disconnect; gather |
| ncclient listeners | `subscribe_notifications`, `__main__` (`ncclient_example_notification.py` 86-126) | one non-daemon thread and one ncclient session per device | start threads, join them; per thread: connect in `with`, `create_subscription`, loop on blocking `take_notification`, `except KeyboardInterrupt` unsubscribe |
| not modelled | `async_netconf_client.py`, `example.py` | — | see "Not modelled" |

**How they interact.** In `get_multiple`, two OS threads share the
`connections` dict. The lock covers only the dict access. The client
objects are used from both threads without a lock: the manager thread
probes and disconnects them, and the main thread gets from and disconnects
them. In `edit_config`, the tasks of one event loop share `CONNECTIONS` and,
through it, client objects. Every `await` is a point where another task or
thread can run.

**What is hard.**
- Interleavings of the two threads around the reconnect's
  read-old / disconnect / connect / put sequence, which is not atomic.
- The dispatcher closing the shared client.
- Connect failures in the middle of a reconnect.
- Probe timeouts on live devices.
- A notification stream cut into arbitrary chunks, so the marker can
  straddle two chunks and a chunk can hold parts of two notifications.
- Receive failures in the middle of a frame.

**What makes each correct.**
- Registry: one live session per device.
- Supervisor: the registry is eventually repaired. A failed reconnect
  leaves the device absent.
- Dispatcher: it never damages the shared session, and its requests
  eventually succeed.
- Pump: each logged notification is exactly one sent notification, in
  order, none lost, partial frames dropped.

## Modules

### `ConnManager.tla` (`async_example_get_multiple.py`)

Variables:
- `connections`: the dict. Absent keys map to `NoClient`.
- `status[s]`: the state of client `s`'s session (`open`, `broken`,
  `mgr_closed`, `fetch_closed`, `unused`).
- `sessDev[s]`: the device the client was built for.
- `mgr`: the manager thread's pc, roster index, `client` and `old_client`.
- `fetch[d]`: the fetch task of the current batch.
- `faults`: network faults used so far.

Actions are the code between two suspension points:

| Action | Code |
|---|---|
| `InitialConnect` | 100-108 |
| `PeriodicSleep` | 112 |
| `CheckLookup` | 114-124 |
| `ProbeAlive` / `ProbeDead` | 62-74, 126-128 |
| `ReconnectReadOld` | 80-84 |
| `ReconnectDisconnectOld` | 84-88 |
| `ReconnectConnect` | 90-92, with the error path 130-133 |
| `StartBatch` | 169-188 |
| `FetchLookup` | 153-154 |
| `FetchGet` | 155-160, including the `None` path |
| `FetchDisconnect` | 161-162 |
| `SessionBreaks` | the network |

Design choices in the model:
- Constructing a client, `connect_async` and the put under the lock form one
  step, because nothing can see the new client before the put.
- A client no variable refers to is freed by CPython, and its C++
  destructor ends the session. `Collect` resets such identities, so they can
  be reused. This bounds the model without capping reconnects.

### `NotificationPump.tla` (`async_example_edit_config.py`)

Variables:
- `CONNECTIONS`: keyed by host.
- `sess[c]`: the status of client `c`, whether it is subscribed, and how
  many notifications the device sent and how many bytes were read.
- `task[d]`: the pc, local `client` and `full_notif`.
- `delivered[d]`: the non-empty notifications logged at line 76.
- `emptyLogged[d]`: an empty `full_notif` was logged at line 76. A broken
  session logs one on every turn of the loop, so only whether it happened is
  kept.

| Action | Code |
|---|---|
| `Start` | 22-33 |
| `Connected` | 25-30; enabled once every task is past `Start` (`AllTasksStarted`, main 128-132) |
| `GotConfig` | 35 |
| `Subscribed` | 39-52 |
| `ReceiveChunk` | 55-62 and 76-77 |
| `ReceiveFails` | 74-77 |
| `DeviceNotifies` / `SessionBreaks` | the device and the network |

The byte stream is a sequence of characters: each notification followed by
the real six-character marker `]]>]]>`. The transport cuts it into chunks
of 1..`MaxChunk` characters.

Design choices in the model:
- A session takes one subscription. A second `create-subscription` is an
  error reply, as in RFC 5277.
- The `NO NOTIFICATION!` sentinel changes nothing (`continue`) and is left
  as stuttering.
- `main()` creates every task before it awaits, so every task runs its
  `if host not in CONNECTIONS` check and reaches the `connect_async` await
  before any connect resumes. With main()'s roster of distinct hosts the
  cached-client branch of `Start` is never taken. The model keeps it, since
  it is the code, and `AllTasksStarted` makes it unreachable as it is in the
  program.
- An empty `full_notif` is logged like any other (line 76 logs it
  unconditionally).

### `NotificationStream.tla` (abstract, spec 5 and 6)

What a pump promises each device's consumer. Per device: `stream` (the
bytes sent), `taken` (how many the pump consumed) and `out` (the bytes
handed on). `Send(d)` extends the stream. `Take(d)` consumes the next bytes
and hands on a subsequence of exactly those bytes, never rewriting `out`.

`NotificationPump` implements it. `Channels` is an `INSTANCE ... WITH`
mapping:
- `stream` is the device's own session stream.
- `taken` is `sess[d].read`.
- `out` is the notifications logged so far followed by the current
  `full_notif`.

The property `ImplementsNotificationStream` is `Channels!Spec`. Every
receive step must be a `Take`, the device's sends must be `Send`, and every
other step must leave the three mapped values unchanged.

`IsSubseqOf` is a recursive operator used by `Take`. An ASSUME in
`MC_NotificationPump` checks it against an index-set reference definition
on all sequences up to lengths 3 and 4.

### `OneShotFetch.tla` (`async_example_get.py`)

Variables:
- `status[d]`: the session of the client built for `d` (`new`, `open`,
  `broken`, `closed`).
- `task[d]`: the pc of `fetch_data` and what it printed.

| Action | Code |
|---|---|
| `Connect` | 39-41, with the `except` at 49-50 |
| `Get` | 42-50; a timeout on a live session or a broken session raises |
| `Disconnect` | 51-52 |
| `SessionBreaks` | the network |

### `NcclientListeners.tla` (`ncclient_example_notification.py`)

The main thread starts one `threading.Thread` per roster entry, then joins
them in order. Each thread runs `subscribe_notifications`. The threads share
no Python state; what couples them is the process: CPython raises
`KeyboardInterrupt` in the main thread only, and at shutdown it joins every
started non-daemon thread.

Variables:
- `main`: the main thread's pc (`starting`, `joining`, `shutdown`,
  `exited`) and its index into the threads list.
- `thr[d]`: the pc of `subscribe_notifications(d)` (`new`, `connect`,
  `subscribe`, `listen`, `done`).
- `sess[d]`, `subscribed[d]`: the ncclient session and its subscription.
- `queued[d]`, `sent[d]`: notifications in ncclient's queue, and sent so far.
- `sigint`: Ctrl-C was pressed; `faults`: refused connects and drops so far.

| Action | Code |
|---|---|
| `StartThread` | 118-122 |
| `JoinNext` | 125-126 |
| `CtrlC` | SIGINT: `KeyboardInterrupt` in the main thread (start or join loop) |
| `ShutdownDone` | interpreter shutdown joining the non-daemon threads of line 120 |
| `Connect` | 88-95; an exception ends the thread |
| `Subscribe` | 96-105; an error closes the session on `with` exit |
| `Take` | 109-112; blocks while the queue is empty |
| `Unsubscribe` | 113-115, guarded by the thread receiving the interrupt (`InterruptedThread`) |
| `DeviceNotifies` / `SessionDrops` | the device and the network |

Fairness: weak fairness for the main thread and for each listener thread
(OS threads). The user (`CtrlC`) and the network get none. Its run is a
violation; the module has no passing run, because `Unsubscribe` cannot be
enabled in CPython and the model keeps it only to show that.

## Runs

| Run | Expect | What it shows |
|---|---|---|
| `ConnManager_safety` | pass | `AtMostOneOpenSession`: a device never has two open sessions held by the program. This holds even when a probe times out on a live session that a fetch still holds. |
| `ConnManager_liveness` | pass | `FetchKeepsSucceeding`: every device's fetch succeeds infinitely often. The dispatcher breaks the session after every get, and the next health check repairs it. |
| `ConnManager_fetch_disconnect` | violation | `FetchFailsOnlyAfterFault`: with zero faults, batch 2's get fails on the client batch 1 disconnected (line 162). |
| `ConnManager_failed_reconnect` | violation | `FailedReconnectLeavesAbsent`: a probe timeout, disconnect, then a connect failure leave the closed client in `connections`. Spec 4.2 says absent. |
| `NotificationPump_pump` | pass | `ImplementsNotificationStream`: the pumps refine the abstract channel. Each receive hands on only bytes of the chunk it read, in order, and nothing logged is repeated or rewritten. |
| `NotificationPump_recovery` | violation | `KeepsPumping` (spec 4.3/7): one fault stops a device's pump for good. In the trace a refused connect ends the task (line 30). A broken session would leave the loop failing on the same client forever (line 55). |
| `ConnManager_close_in_use` | violation | `SupervisorNeverClosesInUse` (spec 4.1): after a probe timeout on a live session, the reconnect disconnects the client a fetch has just read, before any swap. |
| `OneShotFetch_finally` | pass | `NoSessionOutlivesTask`: with three tasks and any mix of refused connects, broken sessions and timed-out gets, no finished task leaves its session open or broken. |
| `NotificationPump_frames` | violation | `DeliveredAreNotifications`: the session breaks before the first chunk, and the failed receive logs the empty `full_notif` as a notification (line 76). A partial frame is logged the same way. |
| `NcclientListeners_ctrlc` | violation | `ListenerRunsUntilCancelled` (spec 5/7): until Ctrl-C every device keeps being listened to on an open session; after it the program ends with no subscription left. TLC's trace: Ctrl-C after a thread has subscribed leaves that thread blocked in `take_notification`, and the main thread waits in shutdown forever. With Ctrl-C removed from the model, the same property fails on a refused connect, which ends the thread for good. |
| `NotificationPump_framing` | violation | The same property with no faults: the marker split as `ab]]>]]` / `>a]]>]]>` is missed, and `ab]]>]]>a` is logged as one notification. |
| `NotificationPump_remainder` | violation | `NoNotificationDataLost` (spec 4.3/5), with no faults: the chunk `]]>]]>a` ends `ab` and carries the start of the second notification; `split(...)[0]` (line 59) drops the `a`. |

Every property of a passing run has a mutant in `PROJECT.json`: a plausible
bug in the mapped code that TLC catches under that run's configuration.

**Bounds.**
- ConnManager: two devices (two ports on one host, so a key bug collides),
  five client identities, and `MaxFaults = 2`.
  - Five identities are the most the program can hold at once, plus one,
    as `RosterAssumption` states.
  - Two faults suffice for a timeout/break followed by a failed connect.
  - Reconnect cycles are unbounded.
- OneShotFetch: three devices, every failure at every step. The program is
  finite, so no bound is needed.
- NcclientListeners: two devices (Ctrl-C can hit before, between and after
  the thread starts), one notification each, and one fault (a refused
  connect or a dropped session). One fault is enough to silence a listener
  for good.
- NotificationPump: two devices, two notifications (`ab`, `a`), the real
  marker, chunks of up to 8 characters, and up to one fault.
  - Eight characters hold a whole marker plus the next notification's start.
  - Two notifications let a marker straddle a chunk boundary.

**Fairness.**
- ConnManager: weak fairness for the manager thread and for each fetch task
  and the batch loop. Both are OS threads that are always runnable.
- NotificationPump: weak fairness per `handle_device` task, since the event
  loop runs every ready task.
- The network gets no fairness. Faults are bounded, so connects eventually
  succeed.
- OneShotFetch checks only safety, so it states no fairness.
- `CHECK_DEADLOCK FALSE` appears only in the NotificationPump,
  OneShotFetch and NcclientListeners configs. In NotificationPump, when every task has exited,
  `asyncio.wait` returns and the program stops, and a drained pump only
  polls (stuttering). In OneShotFetch, when every task is done, gather
  returns and `main` ends. NcclientListeners' run is a liveness violation, and
  the state where every thread is blocked or done must be a stuttering end
  for TLC to report the hang as a counterexample.

**Timing assumption.** A batch in ConnManager starts after the previous
gather finishes. When a task raises on `None`, gather returns early. Its
siblings then finish within their request timeout, long before the next
60 s sleep ends.

## Not modelled

- `async_netconf_client.py`: `AsyncNetconfClient` only forwards each call
  to the C++ client and holds no state. Only the commented-out half of
  `async_example_get.py` uses it, so no running program reaches it.
- The commented-out code (`async_example_get.py` 83-131, the edit-config
  and file-writing blocks of `async_example_edit_config.py`) does not run.
- `example.py`: `main()` runs connect, get and the `finally` disconnect
  once, on one client, with blocking calls and nothing concurrent. That is
  the sequence of one `OneShotFetch` task; a module of its own would hold
  its properties by construction.
- The C++ client's internals: thread safety, timeouts and encoding.
- Wall-clock time: the 30 s / 60 s periods and the blocking
  `time.sleep(2)`.

## Plan

Done:
1. `ConnManager` (registry, supervisor, dispatcher) and `NotificationPump`.
2. Pump recovery (`NotificationPump_recovery`) and the supervisor closing a
   session in use (`ConnManager_close_in_use`).
3. The abstract `NotificationStream` and the pump's refinement of it.
4. `OneShotFetch` for `async_example_get.py`.
5. `NcclientListeners` for `ncclient_example_notification.py`: Ctrl-C
   and listener recovery under one property.

Next:
6. An abstract supervisor specification from spec 4.2: per device,
   `Unconnected -> Connecting -> {Live | Unconnected}`, and `Live ->
   Unconnected` only after a failed probe. `ConnManager` would be shown to
   implement it through a mapping from the manager's pc and the registry.
7. An abstract framer: an operator for the spec's intended framer (split at
   every marker, keep the remainder), compared with the code's framer over
   all chunkings of bounded streams.
8. Overlapping fetch batches after an early gather return, with a bound on
   straggler tasks.
