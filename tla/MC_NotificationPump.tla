------------------------- MODULE MC_NotificationPump -------------------------
(* Two devices, each sending the notifications "ab" and "a", the real     *)
(* ]]>]]> marker, chunks of up to 8 characters (room for a whole marker   *)
(* and the start of the next notification), one network fault.            *)
EXTENDS NotificationPump, TLC

MC_Notifs == << <<"a", "b">>, <<"a">> >>
MC_Marker == << "]", "]", ">", "]", "]", ">" >>
MC_TwoHosts == << [host |-> "h1", port |-> 830], [host |-> "h2", port |-> 830] >>

(* Reference: s is t read at an increasing set of indices.                *)
SubseqByIndices(s, t) ==
    \E D \in SUBSET DOMAIN t :
        LET idx == SetToSortSeq(D, <) IN [i \in DOMAIN idx |-> t[idx[i]]] = s

Stream0 == INSTANCE NotificationStream
    WITH Devices <- {}, stream <- <<>>, taken <- <<>>, out <- <<>>

(* IsSubseqOf agrees with the reference on all short sequences.          *)
ASSUME IsSubseqOfMatchesReference ==
    \A s \in BoundedSeq({"a", "b"}, 3), t \in BoundedSeq({"a", "b"}, 4) :
        Stream0!IsSubseqOf(s, t) = SubseqByIndices(s, t)
=============================================================================
