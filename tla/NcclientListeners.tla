--------------------------- MODULE NcclientListeners ---------------------------
(***************************************************************************)
(* The threaded notification listeners of                                  *)
(* src/examples/ncclient_example_notification.py.                          *)
(*                                                                         *)
(* The main thread starts one non-daemon thread per roster entry, then     *)
(* joins them in order.  A thread opens a session in `with                 *)
(* manager.connect(...)`, calls create_subscription, and loops on the      *)
(* blocking take_notification(); its `except KeyboardInterrupt` deletes    *)
(* the subscription.  Leaving the `with` block (normally or by an          *)
(* exception) closes the session; an exception ends the thread.            *)
(*                                                                         *)
(* CPython delivers SIGINT as KeyboardInterrupt to the main thread only.   *)
(* When the main thread dies of it, interpreter shutdown still joins every *)
(* started non-daemon thread before the process exits.                     *)
(***************************************************************************)
EXTENDS Naturals, Sequences

CONSTANTS
    Roster,      \* the `devices` list: a sequence of device records
    MainThread,  \* the identity of the main thread (a model value)
    MaxNotifs,   \* notifications a device sends in a behaviour
    MaxFaults    \* refused connects and dropped sessions in a behaviour

Devices == {Roster[i] : i \in 1..Len(Roster)}

ASSUME ListenerAssumption ==
    /\ \A i, j \in 1..Len(Roster) : i # j => Roster[i] # Roster[j]
    /\ MainThread \notin Devices
    /\ MaxNotifs \in Nat /\ MaxFaults \in Nat

VARIABLES
    main,       \* the main thread: pc and position in the threads list
    thr,        \* thr[d]: pc of subscribe_notifications(d)
    sess,       \* sess[d]: the NETCONF session of d's manager
    subscribed, \* subscribed[d]: a create_subscription is in force
    queued,     \* queued[d]: notifications in ncclient's queue, not taken
    sent,       \* sent[d]: notifications d has sent
    sigint,     \* Ctrl-C has been pressed
    faults

vars == <<main, thr, sess, subscribed, queued, sent, sigint, faults>>

CanFault == faults < MaxFaults

(* The thread a KeyboardInterrupt is raised in.                            *)
InterruptedThread == MainThread

-----------------------------------------------------------------------------
(* `for device in devices: thread = threading.Thread(...); thread.start()` *)
StartThread ==
    /\ main.pc = "starting"
    /\ thr' = [thr EXCEPT ![Roster[main.i]] = "connect"]
    /\ main' = IF main.i < Len(Roster) THEN [main EXCEPT !.i = @ + 1]
               ELSE [pc |-> "joining", i |-> 1]
    /\ UNCHANGED <<sess, subscribed, queued, sent, sigint, faults>>

(* `for thread in threads: thread.join()` returns for the next thread.     *)
JoinNext ==
    /\ main.pc = "joining"
    /\ thr[Roster[main.i]] = "done"
    /\ main' = IF main.i < Len(Roster) THEN [main EXCEPT !.i = @ + 1]
               ELSE [main EXCEPT !.pc = "exited"]
    /\ UNCHANGED <<thr, sess, subscribed, queued, sent, sigint, faults>>

(* Ctrl-C: KeyboardInterrupt in the main thread, in the start loop or in   *)
(* join.  Nothing catches it there, so the main thread ends and the        *)
(* interpreter begins shutting down.                                       *)
CtrlC ==
    /\ ~sigint
    /\ main.pc \in {"starting", "joining"}
    /\ sigint' = TRUE
    /\ main' = [main EXCEPT !.pc = "shutdown"]
    /\ UNCHANGED <<thr, sess, subscribed, queued, sent, faults>>

(* threading._shutdown: the process exits once every started thread ended. *)
ShutdownDone ==
    /\ main.pc = "shutdown"
    /\ \A d \in Devices : thr[d] \in {"new", "done"}
    /\ main' = [main EXCEPT !.pc = "exited"]
    /\ UNCHANGED <<thr, sess, subscribed, queued, sent, sigint, faults>>

MainStep == StartThread \/ JoinNext \/ ShutdownDone

-----------------------------------------------------------------------------
(* `with manager.connect(...) as m`: the session opens, or the            *)
(* exception (SSH or authentication error) ends the thread.                *)
Connect(d) ==
    /\ thr[d] = "connect"
    /\ \/ /\ sess' = [sess EXCEPT ![d] = "open"]
          /\ thr' = [thr EXCEPT ![d] = "subscribe"]
          /\ UNCHANGED faults
       \/ /\ CanFault
          /\ faults' = faults + 1
          /\ thr' = [thr EXCEPT ![d] = "done"]
          /\ UNCHANGED sess
    /\ UNCHANGED <<main, subscribed, queued, sent, sigint>>

(* response = m.create_subscription(filter).  On a dropped session it      *)
(* raises, the `with` exit closes the session and the thread ends.         *)
Subscribe(d) ==
    /\ thr[d] = "subscribe"
    /\ IF sess[d] = "open"
       THEN /\ subscribed' = [subscribed EXCEPT ![d] = TRUE]
            /\ thr' = [thr EXCEPT ![d] = "listen"]
            /\ UNCHANGED sess
       ELSE /\ sess' = [sess EXCEPT ![d] = "closed"]
            /\ thr' = [thr EXCEPT ![d] = "done"]
            /\ UNCHANGED subscribed
    /\ UNCHANGED <<main, queued, sent, sigint, faults>>

(* notification = m.take_notification(): blocks until ncclient's listener *)
(* has queued one (no timeout), then it is printed.                        *)
Take(d) ==
    /\ thr[d] = "listen"
    /\ queued[d] > 0
    /\ queued' = [queued EXCEPT ![d] = @ - 1]
    /\ UNCHANGED <<main, thr, sess, subscribed, sent, sigint, faults>>

(* except KeyboardInterrupt: m.delete_subscription(...); then the `with`   *)
(* exit closes the session and the thread ends.                            *)
Unsubscribe(d) ==
    /\ thr[d] = "listen"
    /\ sigint /\ InterruptedThread = d
    /\ subscribed' = [subscribed EXCEPT ![d] = FALSE]
    /\ sess' = [sess EXCEPT ![d] = "closed"]
    /\ thr' = [thr EXCEPT ![d] = "done"]
    /\ UNCHANGED <<main, queued, sent, sigint, faults>>

Listener(d) == Connect(d) \/ Subscribe(d) \/ Take(d) \/ Unsubscribe(d)

-----------------------------------------------------------------------------
(* The device sends a notification on a subscribed session; ncclient's     *)
(* transport thread queues it.                                             *)
DeviceNotifies(d) ==
    /\ sess[d] = "open" /\ subscribed[d]
    /\ sent[d] < MaxNotifs
    /\ sent' = [sent EXCEPT ![d] = @ + 1]
    /\ queued' = [queued EXCEPT ![d] = @ + 1]
    /\ UNCHANGED <<main, thr, sess, subscribed, sigint, faults>>

(* The network drops an open session; nothing is queued for it any more.  *)
SessionDrops(d) ==
    /\ CanFault
    /\ sess[d] = "open"
    /\ sess' = [sess EXCEPT ![d] = "broken"]
    /\ faults' = faults + 1
    /\ UNCHANGED <<main, thr, subscribed, queued, sent, sigint>>

Init ==
    /\ main = [pc |-> "starting", i |-> 1]
    /\ thr = [d \in Devices |-> "new"]
    /\ sess = [d \in Devices |-> "none"]
    /\ subscribed = [d \in Devices |-> FALSE]
    /\ queued = [d \in Devices |-> 0]
    /\ sent = [d \in Devices |-> 0]
    /\ sigint = FALSE
    /\ faults = 0

Next ==
    \/ MainStep \/ CtrlC
    \/ \E d \in Devices : Listener(d) \/ DeviceNotifies(d) \/ SessionDrops(d)

(* Every thread is an OS thread that runs whenever it can; the user and    *)
(* the network get no fairness.                                            *)
Spec ==
    /\ Init /\ [][Next]_vars
    /\ WF_vars(MainStep)
    /\ \A d \in Devices : WF_vars(Listener(d))

-----------------------------------------------------------------------------
(* Spec 5 and 7, with the `except KeyboardInterrupt` of                    *)
(* subscribe_notifications: a listener runs until it is cancelled, and its *)
(* failures are never fatal, so until Ctrl-C every device is listened to  *)
(* on an open session again and again; after Ctrl-C the program ends with  *)
(* every subscription deleted or its session closed.                       *)
Cancelled ==
    /\ main.pc = "exited"
    /\ \A d \in Devices : ~subscribed[d] \/ sess[d] # "open"

ListenerRunsUntilCancelled ==
    \A d \in Devices :
        []<>(\/ ~sigint /\ thr[d] = "listen" /\ sess[d] = "open"
             \/ sigint /\ Cancelled)

=============================================================================
