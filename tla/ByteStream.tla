------------------------------ MODULE ByteStream ------------------------------
(***************************************************************************)
(* What a pipe promises its readers and writers: the bytes come out once    *)
(* each, in the order in which they went in, no more than Capacity are      *)
(* under way, and they go in only while a reader is left.                   *)
(***************************************************************************)
EXTENDS Naturals, Sequences, SequencesExt

CONSTANTS Capacity, Bytes

VARIABLES under,      \* the bytes under way
          delivered,  \* those that came out
          reader,     \* does anyone hold the reading end?
          writer      \* and the writing end?

vars == <<under, delivered, reader, writer>>

Fresh == /\ under = << >> /\ delivered = << >>
         /\ reader = FALSE /\ writer = FALSE

Make == /\ ~reader /\ ~writer
        /\ reader' = TRUE /\ writer' = TRUE
        /\ under' = << >> /\ delivered' = << >>

In == /\ writer
      /\ Len(under') <= Capacity /\ IsStrictPrefix(under, under')
      /\ UNCHANGED <<delivered, reader, writer>>

Out == /\ reader
       /\ \E k \in 1 .. Len(under) : /\ delivered' = delivered \o SubSeq(under, 1, k)
                                     /\ under' = SubSeq(under, k + 1, Len(under))
       /\ UNCHANGED <<reader, writer>>

\* The last holder of an end closes it.  It stays closed.
Shut == /\ \/ reader /\ ~reader' /\ UNCHANGED writer
           \/ writer /\ ~writer' /\ UNCHANGED reader
        /\ UNCHANGED <<under, delivered>>

Next == Make \/ In \/ Out \/ Shut

Spec == Fresh /\ [][Next]_vars
=============================================================================
