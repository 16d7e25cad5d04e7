-------------------------- MODULE NotificationPump --------------------------
(***************************************************************************)
(* The per-device notification pump of                                     *)
(* src/examples/async_example_edit_config.py.                               *)
(*                                                                         *)
(* main() starts one handle_device task per roster entry on one asyncio    *)
(* loop.  A task reuses the client cached in CONNECTIONS[host] or connects *)
(* its own and caches it, then awaits get_config_async and                 *)
(* subscribe_async, and loops forever: it awaits receive_notification_async *)
(* and accumulates the chunks into full_notif until a chunk contains the   *)
(* end-of-message marker ]]>]]>, keeps the part of that chunk before the   *)
(* marker, and logs full_notif as the notification (line 76).  A failed    *)
(* receive is logged and full_notif, whatever it holds, is logged as well. *)
(*                                                                         *)
(* The loop is single-threaded: every action is the code between two       *)
(* awaits of one task (time.sleep(2) blocks the loop and so is part of     *)
(* the step).  The bytes a device sends on a subscribed session are a      *)
(* sequence of characters, each notification followed by the marker, cut   *)
(* by the transport into chunks of 1..MaxChunk characters.                 *)
(***************************************************************************)
EXTENDS Naturals, Sequences, SequencesExt

CONSTANTS
    Roster,     \* the hosts list, as a sequence of [host, port] records
    NoClient,   \* absent from CONNECTIONS
    Notifs,     \* the notifications each device sends, as character sequences
    Marker,     \* ]]>]]> as a character sequence
    MaxChunk,   \* longest chunk one receive returns
    MaxFaults   \* how many network faults a behaviour may contain

Devices == {Roster[i] : i \in 1..Len(Roster)}
Chars == UNION {Range(n) : n \in Range(Notifs)} \cup Range(Marker)
Hosts == {d.host : d \in Devices}

ASSUME PumpAssumption ==
    /\ \A i, j \in 1..Len(Roster) : i # j => Roster[i] # Roster[j]
    /\ NoClient \notin Devices
    /\ Len(Marker) > 0 /\ MaxChunk >= 1 /\ MaxFaults \in Nat

(* A task constructs at most one NetconfClient, so a client is named by    *)
(* the device of the task that constructed it.                             *)
Clients == Devices

VARIABLES
    CONNECTIONS, \* host -> cached client (NoClient when absent)
    sess,        \* sess[c]: the session of client c at its device
    task,        \* task[d]: pc, local `client` and full_notif of handle_device
    delivered,   \* delivered[d]: the non-empty notifications task d has logged
    emptyLogged, \* emptyLogged[d]: task d has logged an empty notification
    faults

vars == <<CONNECTIONS, sess, task, delivered, emptyLogged, faults>>

TaskPc == {"start", "connecting", "getconfig", "subscribe", "recv", "exited"}

-----------------------------------------------------------------------------
(* The bytes the device of client c has sent on its subscription.          *)
Stream(c) == FlattenSeq([i \in 1..sess[c].sent |-> Notifs[i] \o Marker])

(* Positions where the marker starts in a chunk: `"]]>]]>" in notif`.      *)
MarkerAt(chunk) ==
    {i \in 1..(Len(chunk) + 1 - Len(Marker)) :
        SubSeq(chunk, i, i + Len(Marker) - 1) = Marker}

(* notif.split("]]>]]>")[0]: the chunk up to its first marker.             *)
BeforeMarker(chunk) == SubSeq(chunk, 1, Min(MarkerAt(chunk)) - 1)

(* logger.info("... Notification:\n%s", full_notif): every frame is      *)
(* logged, the empty one too.  Which empty frames were logged, and how     *)
(* often, is immaterial: emptyLogged records that one was.                 *)
Log(d, frame) ==
    IF frame = <<>>
    THEN /\ emptyLogged' = [emptyLogged EXCEPT ![d] = TRUE]
         /\ UNCHANGED delivered
    ELSE /\ delivered' = [delivered EXCEPT ![d] = Append(@, frame)]
         /\ UNCHANGED emptyLogged

CanFault == faults < MaxFaults

-----------------------------------------------------------------------------
(* `if host not in CONNECTIONS.keys()`: construct a client and await       *)
(* connect_async; else take the cached client.                             *)
Start(d) ==
    /\ task[d].pc = "start"
    /\ task' = [task EXCEPT ![d] =
          IF CONNECTIONS[d.host] = NoClient
          THEN [@ EXCEPT !.pc = "connecting", !.client = d]
          ELSE [@ EXCEPT !.pc = "getconfig", !.client = CONNECTIONS[d.host]]]
    /\ UNCHANGED <<CONNECTIONS, sess, delivered, emptyLogged, faults>>

(* connect_async returns: CONNECTIONS[host] = client.  A failure is logged *)
(* and the task returns.  main() creates every task (lines 129-132) before *)
(* it awaits gather, so each task runs its line-22 check and reaches the   *)
(* await at line 25 before any connect can resume: the cached branch of    *)
(* Start is never taken by the tasks main() starts.                        *)
AllTasksStarted == \A e \in Devices : task[e].pc # "start"

Connected(d) ==
    /\ task[d].pc = "connecting"
    /\ AllTasksStarted
    /\ \/ /\ sess' = [sess EXCEPT ![d].status = "open"]
          /\ CONNECTIONS' = [CONNECTIONS EXCEPT ![d.host] = d]
          /\ task' = [task EXCEPT ![d].pc = "getconfig"]
          /\ UNCHANGED faults
       \/ /\ CanFault
          /\ faults' = faults + 1
          /\ task' = [task EXCEPT ![d].pc = "exited"]
          /\ UNCHANGED <<sess, CONNECTIONS>>
    /\ UNCHANGED <<delivered, emptyLogged>>

(* get_config_async("running", ""): fails on a broken session, and the     *)
(* outer `except Exception` ends the task.                                 *)
GotConfig(d) ==
    /\ task[d].pc = "getconfig"
    /\ task' = [task EXCEPT ![d].pc =
                   IF sess[task[d].client].status = "open" THEN "subscribe" ELSE "exited"]
    /\ UNCHANGED <<CONNECTIONS, sess, delivered, emptyLogged, faults>>

(* subscribe_async("NETCONF", ""): a session holds one subscription, so a  *)
(* second create-subscription on it is an error reply (RFC 5277), which    *)
(* ends the task like a transport error.  On success the loop starts with  *)
(* full_notif = "" and awaits the first chunk.                             *)
Subscribed(d) ==
    /\ task[d].pc = "subscribe"
    /\ LET c == task[d].client
           ok == sess[c].status = "open" /\ ~sess[c].subscribed
       IN /\ sess' = IF ok THEN [sess EXCEPT ![c].subscribed = TRUE] ELSE sess
          /\ task' = [task EXCEPT ![d].pc = IF ok THEN "recv" ELSE "exited",
                                  ![d].frame = <<>>]
    /\ UNCHANGED <<CONNECTIONS, delivered, emptyLogged, faults>>

\* Mutant: full_notif is not reset after a logged notification.
ReceiveChunk_NoReset(d) ==
    /\ task[d].pc = "recv"
    /\ LET c == task[d].client IN
       /\ sess[c].status = "open"
       /\ \E n \in 1..MaxChunk :
            /\ sess[c].read + n <= Len(Stream(c))
            /\ LET chunk == SubSeq(Stream(c), sess[c].read + 1, sess[c].read + n)
               IN IF MarkerAt(chunk) # {}
                  THEN /\ Log(d, task[d].frame \o BeforeMarker(chunk))
                       /\ task' = [task EXCEPT ![d].frame = @ \o BeforeMarker(chunk)]
                  ELSE /\ task' = [task EXCEPT ![d].frame = @ \o chunk]
                       /\ UNCHANGED <<delivered, emptyLogged>>
            /\ sess' = [sess EXCEPT ![c].read = @ + n]
    /\ UNCHANGED <<CONNECTIONS, faults>>

\* Mutant: the read position advances one byte past the chunk.
ReceiveChunk_SkipByte(d) ==
    /\ task[d].pc = "recv"
    /\ LET c == task[d].client IN
       /\ sess[c].status = "open"
       /\ \E n \in 1..MaxChunk :
            /\ sess[c].read + n <= Len(Stream(c))
            /\ LET chunk == SubSeq(Stream(c), sess[c].read + 1, sess[c].read + n)
               IN IF MarkerAt(chunk) # {}
                  THEN /\ Log(d, task[d].frame \o BeforeMarker(chunk))
                       /\ task' = [task EXCEPT ![d].frame = <<>>]
                  ELSE /\ task' = [task EXCEPT ![d].frame = @ \o chunk]
                       /\ UNCHANGED <<delivered, emptyLogged>>
            /\ sess' = [sess EXCEPT ![c].read = @ + n + 1]
    /\ UNCHANGED <<CONNECTIONS, faults>>

(* notif = await client.receive_notification_async() returning a chunk of  *)
(* the bytes not yet read.  With the marker in it, the part before the     *)
(* marker ends full_notif, which is logged, and the rest of the chunk is   *)
(* dropped; the outer loop then sleeps and starts a new full_notif.        *)
(* Otherwise the chunk is appended.  ("NO NOTIFICATION!" when nothing is   *)
(* waiting is `continue` and changes nothing.)                             *)
ReceiveChunk(d) ==
    /\ task[d].pc = "recv"
    /\ LET c == task[d].client IN
       /\ sess[c].status = "open"
       /\ \E n \in 1..MaxChunk :
            /\ sess[c].read + n <= Len(Stream(c))
            /\ LET chunk == SubSeq(Stream(c), sess[c].read + 1, sess[c].read + n)
               IN IF MarkerAt(chunk) # {}
                  THEN /\ Log(d, task[d].frame \o BeforeMarker(chunk))
                       /\ task' = [task EXCEPT ![d].frame = <<>>]
                  ELSE /\ task' = [task EXCEPT ![d].frame = @ \o chunk]
                       /\ UNCHANGED <<delivered, emptyLogged>>
            /\ sess' = [sess EXCEPT ![c].read = @ + n]
    /\ UNCHANGED <<CONNECTIONS, faults>>

(* The receive raises on a broken session: the error is logged, then the   *)
(* partial full_notif is logged as the notification, and the loop goes on  *)
(* with the same client and a new full_notif.                              *)
ReceiveFails(d) ==
    /\ task[d].pc = "recv"
    /\ sess[task[d].client].status = "broken"
    /\ Log(d, task[d].frame)
    /\ task' = [task EXCEPT ![d].frame = <<>>]
    /\ UNCHANGED <<CONNECTIONS, sess, faults>>

HandleDevice(d) ==
    \/ Start(d) \/ Connected(d) \/ GotConfig(d) \/ Subscribed(d)
    \/ ReceiveChunk(d) \/ ReceiveFails(d)

-----------------------------------------------------------------------------
(* The device sends its next notification on a subscribed session.         *)
DeviceNotifies(c) ==
    /\ sess[c].status = "open" /\ sess[c].subscribed
    /\ sess[c].sent < Len(Notifs)
    /\ sess' = [sess EXCEPT ![c].sent = @ + 1]
    /\ UNCHANGED <<CONNECTIONS, task, delivered, emptyLogged, faults>>

(* The network drops an open session.                                      *)
SessionBreaks(c) ==
    /\ CanFault
    /\ sess[c].status = "open"
    /\ sess' = [sess EXCEPT ![c].status = "broken"]
    /\ faults' = faults + 1
    /\ UNCHANGED <<CONNECTIONS, task, delivered, emptyLogged>>

Init ==
    /\ CONNECTIONS = [h \in Hosts |-> NoClient]
    /\ sess = [c \in Clients |-> [status |-> "unused", subscribed |-> FALSE,
                                  sent |-> 0, read |-> 0]]
    /\ task = [d \in Devices |-> [pc |-> "start", client |-> NoClient, frame |-> <<>>]]
    /\ delivered = [d \in Devices |-> <<>>]
    /\ emptyLogged = [d \in Devices |-> FALSE]
    /\ faults = 0

Next ==
    \/ \E d \in Devices : HandleDevice(d)
    \/ \E c \in Clients : DeviceNotifies(c) \/ SessionBreaks(c)

(* The event loop runs every ready task.                                   *)
Spec == Init /\ [][Next]_vars /\ \A d \in Devices : WF_vars(HandleDevice(d))

-----------------------------------------------------------------------------
TypeOK ==
    /\ CONNECTIONS \in [Hosts -> Clients \cup {NoClient}]
    /\ \A c \in Clients :
          /\ sess[c].status \in {"unused", "open", "broken"}
          /\ sess[c].subscribed \in BOOLEAN
          /\ sess[c].sent \in 0..Len(Notifs)
          /\ sess[c].read \in 0..Len(Stream(c))
    /\ \A d \in Devices :
          /\ task[d].pc \in TaskPc
          /\ task[d].client \in Clients \cup {NoClient}
          /\ task[d].frame \in Seq(Chars)
    /\ delivered \in [Devices -> Seq(Seq(Chars))]
    /\ emptyLogged \in [Devices -> BOOLEAN]
    /\ faults \in 0..MaxFaults

(* The pumps seen from outside: for each device, the bytes its own session *)
(* carries, how far the receive loop has read them, and what it has handed *)
(* on (the notifications logged so far followed by full_notif).            *)
Channels == INSTANCE NotificationStream
    WITH stream <- [d \in Devices |-> Stream(d)],
         taken  <- [d \in Devices |-> sess[d].read],
         out    <- [d \in Devices |-> FlattenSeq(delivered[d]) \o task[d].frame]

(* Every pump implements an order-preserving, duplicate-free channel from   *)
(* its device's session: each receive hands on only bytes of the chunk it  *)
(* just read, in order, and nothing logged or accumulated is repeated or   *)
(* rewritten, because full_notif is reset after every logged notification *)
(* and every failure.  The pump may lose bytes (a marker, the dropped rest *)
(* of a chunk) but never invents, repeats or reorders them.                *)
ImplementsNotificationStream == Channels!Spec

(* Spec 4.3/7: each logged notification is one whole notification the      *)
(* device sent; a frame interrupted by a failure is dropped.  The code     *)
(* logs the partial full_notif after a failed receive, drops what follows  *)
(* the marker in a chunk, and misses a marker split over two chunks.       *)
DeliveredAreNotifications ==
    \A d \in Devices :
        /\ ~emptyLogged[d]
        /\ \A i \in 1..Len(delivered[d]) : delivered[d][i] \in Range(Notifs)

(* The characters of a sequence that are not marker characters.            *)
Letters(s) == SelectSeq(s, LAMBDA ch : ch \notin Range(Marker))

(* Spec 4.3/5: no notification is lost: every notification character the  *)
(* receive loop has read off its session is in a logged notification or   *)
(* in full_notif.  (The notifications hold no marker character, so losing *)
(* a marker, as a split marker does, is not counted.)  The code keeps only *)
(* notif.split("]]>]]>")[0] of a chunk (line 59) and drops the start of    *)
(* the next notification when one chunk carries it after the marker.       *)
NoNotificationDataLost ==
    \A d \in Devices :
        task[d].client = d =>
            Letters(FlattenSeq(delivered[d]) \o task[d].frame)
                = Letters(SubSeq(Stream(d), 1, sess[d].read))

(* Spec 4.3/7: a pump keeps draining its device forever and recovers from *)
(* a failed session (re-fetch the handle, back off, resume), since         *)
(* ConnectError and TransportError are never fatal.  handle_device keeps   *)
(* its local client after a failed receive (line 55) and nothing in the   *)
(* program reconnects; a failed connect returns (line 30) for good.        *)
KeepsPumping ==
    \A d \in Devices :
        []<>(task[d].pc = "recv" /\ sess[task[d].client].status = "open")

=============================================================================
