---------------------------- MODULE ConnManager ----------------------------
(***************************************************************************)
(* The shared-registry program src/examples/async_example_get_multiple.py. *)
(*                                                                         *)
(* Two OS threads share the dict `connections` (key (hostname, port) ->    *)
(* NetconfClient) guarded by `connections_lock`:                           *)
(*   - the ConnManager thread (connection_manager_coroutine) connects      *)
(*     every device once, then every 30 s walks the roster in order,      *)
(*     probes each client with get_async("") and reconnects dead or        *)
(*     missing ones (async_reconnect_device);                              *)
(*   - the main thread (main_fetch_coroutine) every 60 s gathers one       *)
(*     fetch_data task per device: read the client under the lock,        *)
(*     get_async, and `finally` disconnect_async the client it read.       *)
(*                                                                         *)
(* Each action is one segment of a thread between two suspension points    *)
(* (an await of the C++ client, or a lock-protected dict access).  The     *)
(* NetconfClient objects are sessions: `status` is what the C++ client    *)
(* would report.  Sessions no variable refers to are garbage and their     *)
(* identities are reused, which keeps the state space finite without a    *)
(* cap on reconnects.  Faults of the network (a session breaking, a        *)
(* connect failing, a probe timing out on a live device) come from a       *)
(* budget of MaxFaults.                                                    *)
(***************************************************************************)
EXTENDS Naturals, Sequences, FiniteSets

CONSTANTS
    Roster,     \* the `devices` list: a sequence of [host, port] records
    Sessions,   \* identities of NetconfClient objects (model values)
    NoClient,   \* None, what connections.get(key) returns for a missing key
    MaxFaults   \* how many network faults a behaviour may contain

Devices == {Roster[i] : i \in 1..Len(Roster)}

ASSUME RosterAssumption ==
    /\ Len(Roster) > 0
    /\ \A i, j \in 1..Len(Roster) : i # j => Roster[i] # Roster[j]
    /\ NoClient \notin Sessions
    /\ MaxFaults \in Nat
    \* enough identities: the registry, one per fetch task, one probed
    \* client and the one being connected can all be live at once
    /\ Cardinality(Sessions) >= 2 * Cardinality(Devices) + 1

VARIABLES
    connections, \* the shared dict, key -> client (NoClient when absent)
    status,      \* status[s]: state of the session behind client s
    sessDev,     \* sessDev[s]: the device record s was constructed with
    mgr,         \* ConnManager thread: pc, roster index, local client, old_client
    fetch,       \* fetch[d]: the fetch_data task of the current batch for d
    faults       \* network faults used so far

vars == <<connections, status, sessDev, mgr, fetch, faults>>

SessionStatus == {"unused", "open", "broken", "mgr_closed", "fetch_closed"}
MgrPc == {"init", "sleep", "lookup", "probe", "reread", "disconnect", "connect"}
FetchPc == {"lookup", "get", "disconnect", "done"}
FetchResult == {"none", "ok", "error", "nosession"}

-----------------------------------------------------------------------------
(* The dict key of a device: key = (device["hostname"], device["port"]).   *)
Key(d) == <<d.host, d.port>>

KeySpace == {Key(d) : d \in Devices}

\* connections.get(key) under connections_lock
Lookup(d) == connections[Key(d)]

\* Every client some variable of the program still refers to.
Referenced ==
    ({connections[k] : k \in KeySpace}
        \cup {mgr.client, mgr.old}
        \cup {fetch[d].client : d \in Devices}) \ {NoClient}

Free == Sessions \ Referenced

CanFault == faults < MaxFaults

-----------------------------------------------------------------------------
(* CPython frees a NetconfClient as soon as nothing refers to it (its C++  *)
(* destructor ends the session).  After a step that drops a reference, the *)
(* sessions no variable refers to any more are back to "unused".           *)
Collect(st, sd) ==
    /\ status' = [s \in Sessions |-> IF s \in Referenced' THEN st[s] ELSE "unused"]
    /\ sessDev' = [s \in Sessions |-> IF s \in Referenced' THEN sd[s] ELSE Roster[1]]

(* async_connect_device(device) stored under the lock: a new NetconfClient *)
(* is constructed and connect_async() awaited; on success the caller puts  *)
(* it into `connections` (nothing else can observe the client before the   *)
(* put, so construction, connect and put are one step).  On failure the    *)
(* exception leaves `connections` as it was.  The new object's identity is *)
(* immaterial, so one free identity is taken.                              *)
ConnectAndPut(d) ==
    \/ LET s == CHOOSE x \in Free : TRUE
       IN /\ connections' = [connections EXCEPT ![Key(d)] = s]
          /\ UNCHANGED faults
          /\ Collect([status EXCEPT ![s] = "open"], [sessDev EXCEPT ![s] = d])
    \/ /\ CanFault
       /\ faults' = faults + 1
       /\ UNCHANGED <<status, sessDev, connections>>

\* Mutant: the roster loop runs one index past the end.
NextDevice_OffByOne(after) ==
    IF mgr.i <= Len(Roster)
    THEN [mgr EXCEPT !.pc = IF after = "init" THEN "init" ELSE "lookup",
                     !.i = @ + 1, !.client = NoClient, !.old = NoClient]
    ELSE [pc |-> "sleep", i |-> 1, client |-> NoClient, old |-> NoClient]

\* After one device: next device of the loop, or leave it.
NextDevice(after) ==
    IF mgr.i < Len(Roster)
    THEN [mgr EXCEPT !.pc = IF after = "init" THEN "init" ELSE "lookup",
                     !.i = @ + 1, !.client = NoClient, !.old = NoClient]
    ELSE [pc |-> "sleep", i |-> 1, client |-> NoClient, old |-> NoClient]

(* 1. Initial connect: one device of `for device in devices`.              *)
InitialConnect ==
    /\ mgr.pc = "init"
    /\ mgr' = NextDevice("init")
    /\ UNCHANGED fetch
    /\ ConnectAndPut(Roster[mgr.i])

(* 2. await asyncio.sleep(30), then the loop starts at the first device.   *)
PeriodicSleep ==
    /\ mgr.pc = "sleep"
    /\ mgr' = [mgr EXCEPT !.pc = "lookup", !.i = 1]
    /\ UNCHANGED <<connections, status, sessDev, fetch, faults>>

\* Mutant: a missing client is skipped (`continue`) instead of reconnected.
CheckLookup_SkipMissing ==
    /\ mgr.pc = "lookup"
    /\ LET c == Lookup(Roster[mgr.i])
       IN mgr' = IF c = NoClient THEN NextDevice("check")
                 ELSE [mgr EXCEPT !.client = c, !.pc = "probe"]
    /\ UNCHANGED <<connections, status, sessDev, fetch, faults>>

(* client = connections.get(key) under the lock; a missing client goes     *)
(* straight to async_reconnect_device.                                     *)
CheckLookup ==
    /\ mgr.pc = "lookup"
    /\ LET c == Lookup(Roster[mgr.i])
       IN mgr' = [mgr EXCEPT !.client = c,
                             !.pc = IF c = NoClient THEN "reread" ELSE "probe"]
    /\ UNCHANGED <<connections, status, sessDev, fetch, faults>>

(* alive = await async_is_connection_alive(client): get_async("") returns  *)
(* an <rpc-reply> iff the session is open, unless the reply times out on   *)
(* a live device (a fault).  Alive: `continue` with the next device.       *)
ProbeAlive ==
    /\ mgr.pc = "probe"
    /\ status[mgr.client] = "open"
    /\ mgr' = NextDevice("check")
    /\ UNCHANGED <<connections, status, sessDev, fetch, faults>>

ProbeDead ==
    /\ mgr.pc = "probe"
    /\ \/ /\ status[mgr.client] # "open"
          /\ UNCHANGED faults
       \/ /\ status[mgr.client] = "open"
          /\ CanFault
          /\ faults' = faults + 1
    /\ mgr' = [mgr EXCEPT !.pc = "reread", !.client = NoClient]
    /\ UNCHANGED <<connections, status, sessDev, fetch>>

(* async_reconnect_device: old_client = connections.get(key) under the     *)
(* lock; `if old_client:` disconnect it, then connect a new one.           *)
ReconnectReadOld ==
    /\ mgr.pc = "reread"
    /\ LET old == Lookup(Roster[mgr.i])
       IN mgr' = [mgr EXCEPT !.old = old,
                             !.pc = IF old = NoClient THEN "connect" ELSE "disconnect"]
    /\ UNCHANGED <<connections, status, sessDev, fetch, faults>>

\* disconnect_async() on a client: closes it; on an already closed client
\* the exception is swallowed and nothing changes.
Closed(s, by) ==
    [status EXCEPT ![s] = IF @ \in {"open", "broken"} THEN by ELSE @]

\* Mutant: the old client is not disconnected before the new connect.
ReconnectDisconnectOld_Skipped ==
    /\ mgr.pc = "disconnect"
    /\ mgr' = [mgr EXCEPT !.pc = "connect"]
    /\ UNCHANGED <<connections, status, sessDev, fetch, faults>>

ReconnectDisconnectOld ==
    /\ mgr.pc = "disconnect"
    /\ status' = Closed(mgr.old, "mgr_closed")
    /\ mgr' = [mgr EXCEPT !.pc = "connect"]
    /\ UNCHANGED <<connections, sessDev, fetch, faults>>

(* new_client = await async_connect_device(device); connections[key] =     *)
(* new_client.  A ConnectError escapes to the loop, which logs it and      *)
(* goes on with the next device: `connections` keeps the old client.       *)
ReconnectConnect ==
    /\ mgr.pc = "connect"
    /\ mgr' = NextDevice("check")
    /\ UNCHANGED fetch
    /\ ConnectAndPut(Roster[mgr.i])

ConnManagerStep ==
    \/ InitialConnect \/ PeriodicSleep \/ CheckLookup \/ ProbeAlive
    \/ ProbeDead \/ ReconnectReadOld \/ ReconnectDisconnectOld
    \/ ReconnectConnect

-----------------------------------------------------------------------------
(* main_fetch_coroutine: await asyncio.sleep(60), then gather one          *)
(* fetch_data(key) per device.  The next batch starts after the gather: a  *)
(* task that raised makes gather return early, but its siblings end        *)
(* within their request timeout, long before the next 60 s sleep ends.     *)
StartBatch ==
    /\ \A d \in Devices : fetch[d].pc = "done"
    /\ fetch' = [d \in Devices |-> [pc |-> "lookup", client |-> NoClient,
                                    result |-> "none"]]
    /\ UNCHANGED <<connections, status, sessDev, mgr, faults>>

(* client = connections.get(key) under connections_lock.                   *)
FetchLookup(d) ==
    /\ fetch[d].pc = "lookup"
    /\ fetch' = [fetch EXCEPT ![d].client = Lookup(d), ![d].pc = "get"]
    /\ UNCHANGED <<connections, status, sessDev, mgr, faults>>

(* reply = await client.get_async(filter_xml).  With client None the call  *)
(* raises AttributeError, and so does the `finally` disconnect: the task   *)
(* ends with the exception.  Otherwise the reply is good iff the session   *)
(* is open.                                                                *)
FetchGet(d) ==
    /\ fetch[d].pc = "get"
    /\ LET c == fetch[d].client
       IN fetch' = [fetch EXCEPT
             ![d].result = CASE c = NoClient        -> "nosession"
                             [] status[c] = "open"  -> "ok"
                             [] OTHER               -> "error",
             ![d].pc = IF c = NoClient THEN "done" ELSE "disconnect"]
    /\ UNCHANGED <<connections, status, sessDev, mgr, faults>>

(* finally: await client.disconnect_async() -- on the shared client.       *)
FetchDisconnect(d) ==
    /\ fetch[d].pc = "disconnect"
    /\ fetch' = [fetch EXCEPT ![d].pc = "done", ![d].client = NoClient]
    /\ UNCHANGED <<connections, mgr, faults>>
    /\ Collect(Closed(fetch[d].client, "fetch_closed"), sessDev)

MainFetchStep ==
    \/ StartBatch
    \/ \E d \in Devices : FetchLookup(d) \/ FetchGet(d) \/ FetchDisconnect(d)

-----------------------------------------------------------------------------
(* The device or the network drops an open session (TransportError).       *)
SessionBreaks ==
    /\ CanFault
    /\ \E s \in Referenced :
          /\ status[s] = "open"
          /\ status' = [status EXCEPT ![s] = "broken"]
    /\ faults' = faults + 1
    /\ UNCHANGED <<connections, sessDev, mgr, fetch>>

Init ==
    /\ connections = [k \in KeySpace |-> NoClient]
    /\ status = [s \in Sessions |-> "unused"]
    /\ sessDev = [s \in Sessions |-> Roster[1]]
    /\ mgr = [pc |-> "init", i |-> 1, client |-> NoClient, old |-> NoClient]
    /\ fetch = [d \in Devices |-> [pc |-> "done", client |-> NoClient,
                                   result |-> "none"]]
    /\ faults = 0

Next == ConnManagerStep \/ MainFetchStep \/ SessionBreaks

(* Both threads are always runnable at their next step and the OS          *)
(* scheduler runs them; the network (SessionBreaks) gets no fairness.      *)
Fairness ==
    /\ WF_vars(ConnManagerStep)
    /\ WF_vars(StartBatch)
    /\ \A d \in Devices : WF_vars(FetchLookup(d) \/ FetchGet(d) \/ FetchDisconnect(d))

Spec == Init /\ [][Next]_vars /\ Fairness

-----------------------------------------------------------------------------
TypeOK ==
    /\ connections \in [KeySpace -> Sessions \cup {NoClient}]
    /\ status \in [Sessions -> SessionStatus]
    /\ sessDev \in [Sessions -> Devices]
    /\ mgr.pc \in MgrPc /\ mgr.i \in 1..Len(Roster)
    /\ mgr.client \in Sessions \cup {NoClient}
    /\ mgr.old \in Sessions \cup {NoClient}
    /\ fetch \in [Devices -> [pc : FetchPc, client : Sessions \cup {NoClient},
                              result : FetchResult]]
    /\ faults \in 0..MaxFaults

(* Whatever the two threads interleave, a device never has two open        *)
(* NETCONF sessions held by the program: async_reconnect_device closes the *)
(* client it re-reads before it connects the replacement, even when the    *)
(* main thread still holds the old client in a fetch_data task.            *)
AtMostOneOpenSession ==
    \A d \in Devices :
        Cardinality({s \in Referenced : status[s] = "open" /\ sessDev[s] = d}) <= 1

(* Every device keeps being fetched successfully: although fetch_data      *)
(* disconnects the shared client after each get, the ConnManager's next    *)
(* health check finds it dead and installs a new one, so once the network  *)
(* stops failing every device's fetch succeeds again and again.            *)
FetchKeepsSucceeding ==
    \A d \in Devices : []<>(fetch[d].result = "ok")

(* Spec 4.4/7: the dispatcher never disturbs the registry's session; a     *)
(* get fails with a transport error only when the network failed.  Here    *)
(* fetch_data's `finally: disconnect_async()` closes the shared client, so *)
(* the next batch fails on a healthy device.                               *)
FetchFailsOnlyAfterFault ==
    \A d \in Devices : fetch[d].result = "error" => faults > 0

(* Spec 4.2 step 3: if the reconnect's new connect fails, the device is    *)
(* left absent from the registry.  async_reconnect_device disconnects the  *)
(* old client before connecting, and a failed connect leaves that closed   *)
(* client in `connections`.                                                *)
FailedReconnectLeavesAbsent ==
    \A d \in Devices :
        \/ mgr.pc \in {"disconnect", "connect"} /\ Roster[mgr.i] = d
        \/ Lookup(d) = NoClient
        \/ status[Lookup(d)] # "mgr_closed"

(* Spec 4.1: the supervisor closes a replaced session only after the swap, *)
(* so a dispatcher that holds the old handle is not disrupted.  Here a     *)
(* fetch_data task about to call get_async never holds a client the        *)
(* ConnManager closed.  async_reconnect_device disconnects old_client      *)
(* (line 86) while it is still in `connections` and possibly in use: a     *)
(* fetch that read it before, or reads it between disconnect and put,      *)
(* gets a closed session.                                                  *)
SupervisorNeverClosesInUse ==
    \A d \in Devices :
        fetch[d].pc = "get" /\ fetch[d].client # NoClient
            => status[fetch[d].client] # "mgr_closed"

=============================================================================
