--------------------------- MODULE SwitchPipeline ---------------------------
(***************************************************************************)
(* The SwitchML data plane of dev_root/p4, one packet at a time: what each  *)
(* register action does to one aggregation slot, and which next step the    *)
(* controller's match-action entries choose.  A slot has two versions, the  *)
(* "sets" 0 and 1 (the least significant bit of the pool index), so that    *)
(* the result of one packet survives in one set while the next packet is    *)
(* being aggregated in the other.                                           *)
(*                                                                          *)
(* The definitions are constant operators: the modules that own the         *)
(* registers (SlotProtocol, ...) apply them to their variables.             *)
(*                                                                          *)
(* Vectors of integers are abstracted to the multiset of contributions that *)
(* were added up: a value is a function from contributions to how often     *)
(* each was added.                                                          *)
(*                                                                          *)
(* An operator whose name ends in "Bug" is a plausible defect of the        *)
(* operator defined after it.  No model uses one; they are there to see     *)
(* that the properties notice it.                                           *)
(***************************************************************************)
EXTENDS Integers, FiniteSets

CONSTANT Workers   \* the workers of the job, one bit each in the worker bitmap

ASSUME WorkersAssumption == IsFiniteSet(Workers) /\ Workers # {}

NumWorkers == Cardinality(Workers)

Sets == {0, 1}

-----------------------------------------------------------------------------
(* bitmap_checker.p4 *)

UpdateBitmapBug(bitmap, w, s) == [bitmap EXCEPT ![s] = @ \cup {w}]

\* worker_bitmap_update_set0/1: set the worker's bit in this set and clear it
\* in the other one.
UpdateBitmap(bitmap, w, s) ==
  [t \in Sets |-> IF t = s THEN bitmap[t] \cup {w} ELSE bitmap[t] \ {w}]

\* map_result # 0: the bit was set before, so this is a retransmission.
MapResult(before, w) == w \in before

-----------------------------------------------------------------------------
(* workers_counter.p4 *)

CountAfterBug(c, seen) == IF c = 0 THEN NumWorkers - 1 ELSE c - 1

\* The count register holds how many workers are still missing; the first new
\* packet of a slot reloads it.  A retransmission only reads it.
CountAfter(c, seen) ==
  IF seen THEN c ELSE IF c = 0 THEN NumWorkers - 1 ELSE c - 1

\* first_last_flag as carried through the pipeline: the count before this
\* packet, where 1 stands for LAST and 0 for FIRST (or, for a retransmission,
\* for a slot that is full).  A single-worker job has entries of its own.
FirstLastFlag(c, seen) ==
  IF NumWorkers = 1 THEN IF seen THEN 0 ELSE 1 ELSE c

LAST  == 1
FIRST == 0

-----------------------------------------------------------------------------
(* processor.p4, and exponents.p4 with max for + *)

Add(v, u) == [c \in DOMAIN v |-> v[c] + u[c]]

RegisterAfterBug(before, seen, v, u) == IF before = {} THEN u ELSE Add(v, u)

\* write_read1 / sum_read1 / read1: the first packet of a slot overwrites what
\* an earlier packet left, later ones are added, a retransmission only reads.
RegisterAfter(before, seen, v, u) ==
  CASE before = {}            -> u
    [] before # {} /\ ~seen   -> Add(v, u)
    [] before # {} /\ seen    -> v

-----------------------------------------------------------------------------
(* The next_step table for 256-byte packets, filled by the controller:      *)
(* entries are tried in priority order.                                     *)

NextStepConsume0Bug(flag, seen) ==
  CASE flag = LAST            -> "recirculate_for_HARVEST7"
    [] flag # LAST /\ ~seen   -> "finish_consume"
    [] flag # LAST /\ seen    -> "drop"

NextStepConsume0(flag, seen) ==
  CASE flag = LAST                        -> "recirculate_for_HARVEST7"
    [] flag # LAST /\ ~seen               -> "finish_consume"
    [] flag = FIRST /\ seen               -> "recirculate_for_HARVEST7"
    [] flag \notin {FIRST, LAST} /\ seen  -> "drop"

NextStepHarvest7Bug(flag, seen) ==
  CASE flag = LAST /\ ~seen   -> "broadcast"
    [] flag = FIRST /\ ~seen  -> "drop"
    [] flag = FIRST /\ seen   -> "broadcast"
    [] OTHER                  -> "drop"

NextStepHarvest7(flag, seen) ==
  CASE flag = LAST /\ ~seen   -> "broadcast"
    [] flag = FIRST /\ ~seen  -> "drop"
    [] flag = FIRST /\ seen   -> "retransmit"
    [] OTHER                  -> "drop"

=============================================================================
