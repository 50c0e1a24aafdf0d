------------------------------ MODULE BytePipe ------------------------------
(***************************************************************************)
(* What one direction of a pillar-udp connection promises: the reader gets *)
(* the bytes in the order they were written, none twice and none left out. *)
(* The reading side may give its stream up and accept the connection       *)
(* again; the new stream then starts over from the first byte.             *)
(***************************************************************************)
EXTENDS Naturals, Sequences, SequencesExt

VARIABLES
    written,    \* the bytes the writer handed over, in order
    read,       \* the bytes the reader's current stream received
    streams     \* how many streams the reader was handed

Init == written = << >> /\ read = << >> /\ streams = 0

Write ==
    /\ IsPrefix(written, written')
    /\ UNCHANGED <<read, streams>>

Read ==
    /\ IsStrictPrefix(read, read') /\ IsPrefix(read', written)
    /\ UNCHANGED <<written, streams>>

\* A stream accepted anew may already hold the first chunk.
Reopen ==
    /\ streams' = streams + 1
    /\ IsPrefix(read', written)
    /\ UNCHANGED written

Next == Write \/ Read \/ Reopen

Spec == Init /\ [][Next]_<<written, read, streams>>
=============================================================================
