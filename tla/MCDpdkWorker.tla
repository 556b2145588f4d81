---------------------------- MODULE MCDpdkWorker ----------------------------
(* Instances of DpdkWorker for TLC. *)
EXTENDS DpdkWorker

Slice(p, e) == [pkts |-> p, extra |-> e]

\* With two slots: two full batches because of the extra one, a slice smaller
\* than a batch, and one whose last batch is partial, starting at a shift.
ExtraThenOneThenThree == <<Slice(2, TRUE), Slice(1, FALSE), Slice(3, FALSE)>>

\* With one slot: the next slice starts in set 1.
ThreeThenTwo == <<Slice(3, FALSE), Slice(2, FALSE)>>
=============================================================================
