------------------------ MODULE NotificationStream ------------------------
(***************************************************************************)
(* What a notification pump promises the consumer of each device, as far *)
(* as the pump of src/examples/async_example_edit_config.py keeps it        *)
(* (spec 5: "within one device, notifications are delivered in the order   *)
(* their frames complete"; spec 6: a lazy, non-restartable sequence).      *)
(*                                                                         *)
(* The device appends bytes to its session's stream.  The pump consumes    *)
(* the stream from the front, a piece at a time, and hands on to the       *)
(* consumer some of the bytes of each piece, in their order.  Bytes may be *)
(* left out (a marker, a dropped remainder), but nothing handed on is ever *)
(* taken back, repeated, reordered, or handed on before it was consumed.   *)
(***************************************************************************)
EXTENDS Naturals, Sequences, SequencesExt

CONSTANT Devices

VARIABLES
    stream, \* stream[d]: the bytes device d has sent on its session
    taken,  \* taken[d]: how many of them d's pump has consumed
    out     \* out[d]: the bytes handed on to d's consumer, in order

absvars == <<stream, taken, out>>

(* s is a subsequence of t: s is t with some elements left out.            *)
RECURSIVE IsSubseqOf(_, _)
IsSubseqOf(s, t) ==
    CASE s = <<>>           -> TRUE
      [] t = <<>>           -> FALSE
      [] Head(s) = Head(t)  -> IsSubseqOf(Tail(s), Tail(t))
      [] OTHER              -> IsSubseqOf(s, Tail(t))

Init ==
    /\ stream = [d \in Devices |-> <<>>]
    /\ taken = [d \in Devices |-> 0]
    /\ out = [d \in Devices |-> <<>>]

(* Device d sends more bytes.                                              *)
Send(d) ==
    /\ IsStrictPrefix(stream[d], stream'[d])
    /\ stream' = [stream EXCEPT ![d] = stream'[d]]
    /\ UNCHANGED <<taken, out>>

(* d's pump consumes the next bytes of the stream and hands on a           *)
(* subsequence of exactly those bytes.                                     *)
Take(d) ==
    /\ taken[d] < taken'[d] /\ taken'[d] <= Len(stream[d])
    /\ taken' = [taken EXCEPT ![d] = taken'[d]]
    /\ IsPrefix(out[d], out'[d])
    /\ out' = [out EXCEPT ![d] = out'[d]]
    /\ IsSubseqOf(SubSeq(out'[d], Len(out[d]) + 1, Len(out'[d])),
                  SubSeq(stream[d], taken[d] + 1, taken'[d]))
    /\ UNCHANGED stream

(* One device's stream or pump moves at a time; devices are independent.  *)
Next == \E d \in Devices : Send(d) \/ Take(d)

Spec == Init /\ [][Next]_absvars

=============================================================================
