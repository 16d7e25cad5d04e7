---------------------------- MODULE OneShotFetch ----------------------------
(***************************************************************************)
(* The one-shot concurrent fetch of src/examples/async_example_get.py.      *)
(*                                                                         *)
(* main() constructs one NetconfClient per roster entry and gathers one    *)
(* fetch_data(client) task per client on one asyncio loop.  A task awaits  *)
(* connect_async and get_async inside `try`, catches any Exception, and    *)
(* awaits disconnect_async in `finally`.  Tasks share nothing: each owns  *)
(* its client.  The device or the network may refuse the connect, break   *)
(* the session, or let a get time out while the session stays up.          *)
(***************************************************************************)
EXTENDS Naturals, Sequences

CONSTANT Roster   \* the `devices` list: a sequence of [host, port] records

Devices == {Roster[i] : i \in 1..Len(Roster)}

VARIABLES
    status, \* status[d]: the session behind the client built for d
    task    \* task[d]: pc of fetch_data(client) and what it printed

vars == <<status, task>>

-----------------------------------------------------------------------------
(* await client.connect_async(): the session opens, or ConnectError goes   *)
(* to `except` (printed) and then to `finally`.                            *)
Connect(d) ==
    /\ task[d].pc = "connect"
    /\ \/ /\ status' = [status EXCEPT ![d] = "open"]
          /\ task' = [task EXCEPT ![d].pc = "get"]
       \/ /\ task' = [task EXCEPT ![d].pc = "disconnect", ![d].result = "error"]
          /\ UNCHANGED status

\* Mutant: disconnect_async is called in the `try` body, not in `finally`.
Get_NoFinally(d) ==
    /\ task[d].pc = "get"
    /\ \/ /\ status[d] = "open"
          /\ task' = [task EXCEPT ![d].pc = "disconnect", ![d].result = "ok"]
       \/ task' = [task EXCEPT ![d].pc = "done", ![d].result = "error"]
    /\ UNCHANGED status

(* response = await client.get_async(FILTER), printed.  On a broken        *)
(* session, or when the reply does not come before the request timeout on *)
(* a live one, the TransportError is printed by `except`.  Either way     *)
(* `finally` runs next.                                                    *)
Get(d) ==
    /\ task[d].pc = "get"
    /\ \/ /\ status[d] = "open"
          /\ task' = [task EXCEPT ![d].pc = "disconnect", ![d].result = "ok"]
       \/ task' = [task EXCEPT ![d].pc = "disconnect", ![d].result = "error"]
    /\ UNCHANGED status

(* finally: await client.disconnect_async(); on a client that never        *)
(* connected it does nothing (spec 6: idempotent, never fails visibly).    *)
Disconnect(d) ==
    /\ task[d].pc = "disconnect"
    /\ status' = [status EXCEPT ![d] = IF @ = "new" THEN "new" ELSE "closed"]
    /\ task' = [task EXCEPT ![d].pc = "done"]

FetchData(d) == Connect(d) \/ Get(d) \/ Disconnect(d)

(* The network drops an open session.                                      *)
SessionBreaks(d) ==
    /\ status[d] = "open"
    /\ status' = [status EXCEPT ![d] = "broken"]
    /\ UNCHANGED task

(* clients = one NetconfClient per device; tasks = one fetch_data each.   *)
Init ==
    /\ status = [d \in Devices |-> "new"]
    /\ task = [d \in Devices |-> [pc |-> "connect", result |-> "none"]]

Next == \E d \in Devices : FetchData(d) \/ SessionBreaks(d)

(* main awaits asyncio.gather over the tasks and returns when all are done.*)
Spec == Init /\ [][Next]_vars

-----------------------------------------------------------------------------
(* Whatever fails and however the tasks interleave, a task that has        *)
(* finished leaves no session open or half-broken behind: the              *)
(* `finally: disconnect_async()` runs on the success path, after a refused *)
(* connect, after a broken session and after a get that timed out on a    *)
(* live session.                                                           *)
NoSessionOutlivesTask ==
    \A d \in Devices : task[d].pc = "done" => status[d] \in {"new", "closed"}

=============================================================================
