----------------------------- MODULE ListDeltas -----------------------------
(***************************************************************************)
(* The deltas of the serialized lists that a beacon state replaces or      *)
(* extends on a schedule of slots: Eth1 votes (eth1_data_votes.rs),        *)
(* historical roots and summaries (historical_log.rs), Phase 0 pending     *)
(* attestations (attestations.rs) and sync committees (sync_committee.rs). *)
(*                                                                         *)
(* A serialized list is a sequence of items: the code compares and copies  *)
(* whole lists, prefixes of lists and, for the historical logs, a number   *)
(* of items from the back.                                                 *)
(***************************************************************************)
EXTENDS Integers, Sequences, SequencesExt

CONSTANTS
  SlotsPerHistoricalPeriod,  \* SLOTS_PER_HISTORICAL_PERIOD (historical_log.rs)
  None                       \* the absent activation slot

ASSUME PeriodAssumption == SlotsPerHistoricalPeriod \in Nat \ {0}

Unchanged == [kind |-> "Unchanged", items |-> <<>>]
Appended(items) == [kind |-> "Append", items |-> items]
Replaced(items) == [kind |-> "Replace", items |-> items]
Panic == [kind |-> "Panic", items |-> <<>>]

\* The items of a list after its first n.
After(items, n) == SubSeq(items, n + 1, Len(items))

\* A faulty variant for the mutation runs: a replacement does not clear.
ApplyListKeeping(base, delta) ==
  IF delta.kind = "Unchanged" THEN base ELSE base \o delta.items

\* A faulty variant: an append that the list ends with is taken for done.
ApplyListOnce(base, delta) ==
  IF delta.kind = "Unchanged" THEN base
  ELSE IF delta.kind = "Append"
  THEN IF IsSuffix(delta.items, base) THEN base ELSE base \o delta.items
  ELSE delta.items

\* apply_eth1_votes, apply_historical_log, apply_attestations and
\* apply_sync_committee: the same three cases, each function having those
\* its delta can be in.
ApplyList(base, delta) ==
  IF delta.kind = "Unchanged" THEN base
  ELSE IF delta.kind = "Append" THEN base \o delta.items
  ELSE delta.items

-----------------------------------------------------------------------------

\* Faulty variants: the reset is never seen, the items are taken from the
\* front, the assertion is strict, lengths stand for contents.
DiffEth1VotesGrowing(base, target) == Appended(After(target, Len(base)))

\* A list that is at least as long as before is taken to have grown.
DiffEth1Votes(base, target) ==
  IF Len(target) >= Len(base) THEN Appended(After(target, Len(base)))
  ELSE Replaced(target)

\* calculate_log_count: how many items a log is expected to hold at a slot.
LogCount(slot, activation) ==
  IF activation = None THEN (slot + 1) \div SlotsPerHistoricalPeriod
  ELSE IF slot <= activation THEN 0
  ELSE (slot - activation) \div SlotsPerHistoricalPeriod

DiffHistoricalLogFront(base, target, items, activation) ==
  LET new == LogCount(target, activation) - LogCount(base, activation)
  IN  IF new = 0 THEN Unchanged
      ELSE IF Len(items) < new THEN Panic
      ELSE Appended(SubSeq(items, 1, new))

DiffHistoricalLogStrict(base, target, items, activation) ==
  LET new == LogCount(target, activation) - LogCount(base, activation)
  IN  IF new = 0 THEN Unchanged
      ELSE IF Len(items) <= new THEN Panic
      ELSE Appended(After(items, Len(items) - new))

\* The expected number of new items is taken from the back of the target.
\* A target that is too short fails the debug assertion or, without it, the
\* expect: the subtraction wraps and the range starts past the end.
DiffHistoricalLog(base, target, items, activation) ==
  LET new == LogCount(target, activation) - LogCount(base, activation)
  IN  IF new = 0 THEN Unchanged
      ELSE IF Len(items) < new THEN Panic
      ELSE Appended(After(items, Len(items) - new))

DiffAttestationsByLength(base, target) ==
  IF Len(target) >= Len(base) THEN Appended(After(target, Len(base)))
  ELSE Replaced(target)

DiffAttestations(base, target) ==
  IF base = target THEN Unchanged
  ELSE IF IsPrefix(base, target) THEN Appended(After(target, Len(base)))
  ELSE Replaced(target)

DiffSyncCommittee(base, target) ==
  IF base = target THEN Unchanged ELSE Replaced(target)
=============================================================================
