# Verification of eth_state_diff

`eth_state_diff` is a Rust library that turns two Ethereum beacon states into
a compact delta (`create`) and a delta back into the second state (`apply`).
This directory holds TLA+ models of its algorithms, the TLC configurations
that check them on small instances, and TLAPS proofs of the results that
should hold for every size. Paths below are relative to the repository.

## What the library is

The library has no threads, no I/O and no state of its own. What makes it
hard is what happens *between* two of its calls. A client processes slots,
blocks, slashings and epoch ends, takes a checkpoint now and then, and stores
one delta per checkpoint; a reader, possibly much later, starts from a
snapshot and applies the deltas in order, in place. Every encoder assumes
something of how the client changes the field (a ring is written one slot at a
time, a list grows until it is reset, a queue is consumed from the front), and
a delta is only right if the assumption covers every state the client can be
in when it takes a checkpoint.

### Inventory

| Component (`src/`) | State | Operations | Hard behaviour | What makes it correct |
|---|---|---|---|---|
| `lib.rs`, `error.rs` | the fields of a state, by fork | `create` with debug assertions, `apply` with fork and field validation | fields presented wrongly, chains over forks, errors before and panics after the first write, calling again | an error leaves no trace; only what a delta lacks or changes twice is wrong; a caller that tries again gets past a delta, but for known reasons |
| `recent_roots.rs` | two rings of roots, one entry per slot | `diff_roots`, `apply_roots` | spans that wrap or exceed the ring; no indices stored | ring of the reader = ring of the checkpoint |
| `randao_mixes.rs` | ring of mixes, one per epoch | `diff_randao`, `apply_randao` | entries of both end epochs are still being written | the same |
| `slashings.rs` | ring of sums, one per epoch | `diff_slashings`, `apply_slashings` | the base epoch's entry changes after the base checkpoint | the same; it fails for the base epoch |
| `pending_queue.rs` | three queues | `find_chunk_aligned`, `diff_queue`, `apply_queue` | equal items, postponed items, narrowing to `u32` | queue restored but for the narrowing, never over-drained |
| `eth1_data_votes.rs` | list of votes, reset every voting period | `diff_eth1_votes`, `apply_eth1_votes` | reset and regrowth between two checkpoints | list restored; it fails after regrowth |
| `historical_log.rs` | append-only log, one item per 8192 slots | `calculate_log_count`, `diff_historical_log`, `apply_historical_log` | counts derived from slots, at a boundary | log restored; it fails in the last slot of a period |
| `attestations.rs` | two lists, rotated each epoch | `diff_attestations`, `apply_attestations` | rotation between checkpoints | lists restored |
| `sync_committee.rs` | two committees, rotated each period | `diff_sync_committee`, `apply_sync_committee` | rotation | committees restored |
| `balances.rs`, `BitTagVec` of `types.rs` | one `u64` per validator | mode, four tags, wrapping differences, growth | extremes of `u64`, ties, tag packing | balances restored |
| `validators.rs` | one record per validator | field patches, appended records | order of patches, epochs derived from `Slashed` | records restored |
| `participation.rs` | one byte per validator | zero, sparse and dense forms | gap coding, all-zero targets | flags restored |
| `inactivity_scores.rs` | one `u64` per validator | zero, sparse, append | growth | scores restored |
| `types.rs` | the delta types | derived `rkyv` codecs | generated code | not modelled |

`create` calls one encoder per field with the base and the target; `apply`
calls one decoder per field, in a fixed order, on the reader's state. Fields
share only the two slots and the fork, so each family of fields can be modelled
on its own, and the orchestration over fields that are reduced to a version.

## Modules

- **DeltaArchive** is the abstract specification: a client whose live state
  changes arbitrarily, a sequence of checkpoints, and a reader that visits
  exactly these states in order. It says what `lib.rs:380-382` promises,
  "Applying the delta to the corresponding base state reconstructs the target
  state", for a whole archive. It is implemented by RingArchive, QueueArchive,
  ListArchive and RegistryArchive through a view of their states.
- **RingDeltas** has the encoders and decoders of the three ring modules as
  operators; **RingArchive** is the machine around them: `ProcessSlot`,
  `ProcessBlock`, `Slash` (the client), `Checkpoint` (`create`), `Restore`
  (`apply`). A ring is a function on `0..capacity-1`. `WriteRing` gives each entry
  the last of the values the loop of `apply_*` writes to it, so overlong spans
  overwrite as they do in the code. An update of `slashings.rs` carries its
  position in the vector (the epoch) because later updates win if the `u16`
  index folds two entries together.
- **QueueArchive** is one pending queue, its delta and its reader. An item is
  a model value; lengths in bytes are `Len * ItemSize`, so that the narrowing to
  `u32` in `diff_queue` is the code's. The client enqueues, and takes
  items from the front, one of which it may put back at the end (postponed
  deposits).
- **ListDeltas** / **ListArchive** are the lists that change on a schedule:
  votes, historical log, attestations and sync committees, and the panic of
  `diff_historical_log`. `activation` is what `create` passes: nothing for
  `historical_roots`, the Capella slot for `historical_summaries`.
- **Encodings** is what the per-validator encoders share: varints in a flat
  buffer and the order in which indices are stored. **BalanceDeltas** has
  `balances.rs` with the tag vector of `types.rs`: `EncodeBalances` and
  `DecodeBalances` work on numbers, `DiffBalances` and `ApplyBalances` add the
  packing of tags into bytes and of differences into varints. `u64` and `i64` are numbers
  modulo `Modulus`; the four-tags-at-once shortcut of the decoder is the general
  case for four zero tags. The mode is any of the most frequent differences,
  because `find_mode` iterates over a hash map. **SparseDeltas** has participation
  flags (iterator and slice form) and inactivity scores; **ValidatorDeltas** has the
  patches of the registry, seven places in the order of the code, of which those
  without a change are not stored.
- **RegistryArchive** is the machine around them: deposits extend all lists at once,
  validators are activated, updated, exited and slashed, balances and scores change
  all together, attestations set flags, and an epoch's end rotates them.
- **ValidatorBytes** is the byte form of `validators.rs`: one buffer of records, fields
  at fixed offsets, a record found by the end of its range, incomplete records passed
  over (`chunks_exact`). A field is one cell whatever its width.
- **StateFields** lists the fields, the forks that have them and the order in which
  `apply` writes them. **StateDelta** is `create` and `apply` of `lib.rs` as a caller
  sees them, one step for each call. A field is the number of
  the checkpoint its contents belong to, or `Garbled`, of which nothing is known. A
  `DiffSource` may by mistake present a field too many or too few; `create` has
  debug assertions or not; `apply` rejects the fork, rejects a field, updates every
  field that both the state and the delta have, or panics somewhere on the way.
- **ApplyInPlace** is the same with `apply` as it runs, a step for each field it
  writes. It implements StateDelta: `before`, the state when the last call
  began or ended, is StateDelta's `replica`. Between two fields `apply` calls accessors
  of the client's `DiffTarget`, which may panic (`AccessorPanics`); the library
  panics itself (`LibraryPanics`) on a list of the wrong length, in the debug
  assertion of `apply_balances_iter` or the index of `apply_inactivity`. So the model
  counts the validators at each checkpoint (`sizes`) and the two lists concerned
  (`lengths`). A state that is borrowed by `M` outlives a panic or an error, and the
  caller may call again or load a full state; where `M` owns it only the second is left,
  so the borrowed state has all behaviours of the owned one. Which formats bear
  to be applied again (`Overwriting`, `OverwritingUnlessGrown`) is what
  `RetryIsHarmless` and `RetryKeepsAllButBalances` check on the formats themselves.
- **RecursionProofs** has what the proofs share: induction on sets of numbers and along a
  rank, the existence of recursive functions, least and greatest elements.
  **EncodingsProofs** and **ValidatorDeltasProofs** prove what the encoders and decoders
  of the registry do; **RingArchiveProofs**, **QueueArchiveProofs**,
  **ListArchiveProofs**, **RegistryArchiveProofs** and **ApplyInPlaceProofs** prove the
  properties of the machines, the first three also those of their formats.

Operators called *a faulty variant* play no part in any specification. Each is
a slip somebody could make in the operator that follows it (an off-by-one, a
forgotten guard, a missing reset), and putting it in that operator's place makes
one of the properties fail: PROJECT.json lists which.

### How state and actions correspond to the code

| Model | Code |
|---|---|
| `live`, `queue`, `fork` | what a `DiffSource` presents as the target |
| `checkpoints[k]`, `checkpoints[k+1]` | base and target of one `create` |
| `archive[k]` | the `BeaconStateDelta` made from them |
| `replica`, `position` | the `DiffTarget` passed through `apply`, and how often |
| `Create(base, target)`, `Apply(state, delta)` | the calls of `create` and `apply` that concern the module's fields |
| `Checkpoint`, `Restore` | one whole call of `create`, of `apply` (in ApplyInPlace: `Begin`, `Write` for each field, `Return`) |
| `CheckpointPanics`, `panicked` | the `debug_assert` and `expect` of `diff_historical_log` |
| `RejectFork`, `RejectField`, `ApplyFields`, `ApplyPanics` | the two early returns of `apply`, its rest, and its rest cut short |
| `step`, `Order` | where in the body of `apply` a call is |

The client's actions (`ProcessSlot`, `ProcessBlock`, `Slash`, `Enqueue`,
`Process`, `Deposit`, `Exit`, `Fork`, `Presented`, `LoadSnapshot`, genesis) are not code of this
repository. They follow the consensus specification the encoders are written
for: roots are recorded as the slot advances, epoch ends copy the mix and
reset the slashing entry of the next epoch, and so on. They are marked external.

## Runs

All runs end in states without successors only because of the bounds, so
deadlock is not checked.

Fairness is stated in ApplyInPlace alone, in two parts. The steps of a
running call are weakly fair: `apply` is synchronous code that waits for nothing,
each loop is over a list of the delta, so a call that has begun goes on to its end
unless it panics. That the caller begins the next call, or the same one again after a
failure, is weakly fair too; this is not code of this repository but the question the
liveness property asks: what becomes of a caller that simply tries again. Nothing is
assumed of the caller's recovery from a full state (`LoadSnapshot` may never happen),
and accessors panic at most `MaxInterrupts` times. The other modules describe what
happens if a delta is made or applied, and state no fairness.

| Run | Question | Bounds and why they are enough |
|---|---|---|
| `ring_archive` | Are rings restored by any sequence of deltas? Is a repeated delta harmless, what does a lost one spoil, does a restore stay inside its window, is DeltaArchive implemented? | rings of two entries, epochs of two slots, slots 0 to 4 (three epochs), two deltas: spans of 0 to 4 slots cover none, some, all and more than all of a ring; every epoch ring wraps |
| `slashings_lost` | Does the slashing ring reconstruct the target (`lib.rs:380-382`)? No. | rings of three entries |
| `queue_archive` | Is a queue restored whatever happened to it, but for lengths in bytes that are narrowed to 32 bits? What goes wrong then, and for how long? Is a queue ever over-drained? Is it stored compactly if it can be? | two items, queues up to three: equal heads, postponed items, empty queues at either end; two bytes each, lengths modulo 4: emptied, a queue of one is counted as one, of two as none, of three as one; four deltas: one that fills the queue, one that is narrowed, one that follows it, one that replaces |
| `list_schedule` | When are votes and logs wrong? Is the invariant of the proofs one? | voting and historical periods of three slots, slots 0 to 7, logs from genesis, from an aligned fork slot and from one within a period, three deltas: regrowth to equal, lower and greater length, two period ends |
| `list_epochs` | Are attestations and committees restored? What does a delta that is lost or repeated do to each of the lists? | two attestations, two committees, three epochs, two deltas |
| `list_votes_regrown` | Does a reset always switch to `ResetAndAppend` (`types.rs:340-342`)? No. | as `list_schedule` |
| `list_log_boundary` | Does the count follow the protocol's (`historical_log.rs:25-26`)? No. | periods of four slots |
| `registry_lifecycle` | Are validator records restored, derived withdrawable epochs included? Does the byte form agree? | one validator and a deposited one, four changes, two deltas, withdrawable epochs of an exit before and after those of a slashing |
| `registry_torn` | Does `diff_validators` panic on a partial record (`validators.rs:222`)? No, and its delta loses it. | one validator, one delta |
| `registry_epochs` | Are balances, flags and scores restored through their packed forms, does every delta fit the reader, when does `create` panic? | two to three validators, tags packed in pairs so that three of them take two bytes, varints of one bit so that gaps and differences take several bytes, balances 0, 1, 7, 8 modulo 16 with small differences from -4 to 3: equal, small, large, wrapping and zero in all combinations; builds with and without overflow checks |
| `apply_in_place` | Is `apply`, field by field, what it seems from outside? Which fields can be wrong after which mistakes and interruptions, when does `apply` panic, does a caller that tries again get past a delta? Is the invariant of the proofs one? | debug and release builds; Phase 0, Altair and Electra, which between them have every field; snapshots on any of them; one wrong field per delta, of a kind that every build misses, one that only a release build misses (with the scores, whose lack leads to a panic later), and one of the newest fork; two deltas, with or without a new validator, so that the second meets what the first has left; one panic of an accessor, at any field of either |
| `state_incomplete` | Does `apply` validate that the fork's fields are present (`lib.rs:391-396`)? No. | one delta |

### Properties

- `RootsRestored`, `MixesRestored`, `EpochListsRestored`: the
  reader's field is the checkpoint's after any number of deltas.
- `SlashingsConfined`: what `diff_slashings` loses stays in the entries of base
  epochs. `VotesRestoredUnlessRegrown`: votes are wrong only from a delta over a
  reset and regrowth until the next delta that replaces them; `VotesCountRestored`
  says that their number is right all the while, so that no length check of the
  reader would notice. `LogRestoredAwayFromBoundary`, `PanicsOnlyAtBoundary`:
  the historical log is wrong only if a checkpoint fell on a slot where the count and
  the log disagree, which for a log from genesis is the last of a period, and for a log
  from a fork slot that is not aligned part of each period; the encoder panics only for
  the former. These state the exact extent of a failure the violation runs show.
- `QueueRestoredUnlessNarrowed`: the reader's queue is the checkpoint's, but for one cause.
  The narrowing at `pending_queue.rs:201` spoils it, exactly from a delta that emptied a queue of too many bytes until a delta that
  replaces it; items are left behind at the front, and no FIFO step takes them away.
- `ValidatorsRestored`, `BalancesRestored`, `FlagsRestored`, `ScoresRestored`: the same for
  the per-validator lists. `DeltaFitsReader`: no patch is skipped, no list filled
  up, no index out of bounds, no debug assertion on lengths fails.
  `SliceFormAgrees`: the slice functions of participation reconstruct as well.
  `PanicsOnlyBeyondSigned`: overflow checks fail only for balances of 2^63 or more.
  `RetryKeepsAllButBalances`: balance differences are relative, all else can be
  applied again unless the registry has grown.
- `RetryIsHarmless`: applying the last delta again does not change the rings. (The
  lists and queues have no such property: an append is appended twice.)
- `RestoreStaysInWindow`: an in-place update writes no ring entry outside the
  slots and epochs of the delta.
- `NeverOverdrained`: the fallback of `apply_queue` that clears a queue is never
  taken by deltas applied in order, even after a narrowed one.
  `PureFifoIsCompact`: without equal items a FIFO step is stored as one. (With equal items the first match may be the wrong
  one and a full replacement is stored; the reader's queue is right all the same.)
- `LostDeltasConfined`: whichever deltas are lost, roots and mixes are wrong only in
  the windows of the lost ones and only until a later delta overwrites the entry;
  it holds because a window starts at the `base_slot` of the delta and not at the
  reader's slot, which nothing compares. Slashing sums that are lost stay lost.
- `SpoiltUntilReplaced`: a delta that is lost or applied twice makes a list wrong exactly
  if it appends to it (or, lost, replaces it), and exactly until the next delta
  that replaces the list. A reader that missed a delta cannot wait for the error to go
  away where nothing is ever replaced, as in the historical logs.
- `ByteFormAgrees`: for buffers of complete records the byte form makes the same patches
  as the iterator form and restores the buffer of the target, public keys included.
- `ImplementsStateDelta`: from outside, a call of `apply` refuses and leaves the
  state as it was, updates all the fields, or panics having updated those before some
  point. The first matters to implementations of
  `DiffTarget` that wrap a mutable reference; one that owns its state loses it
  with the error.
- `WrongOnlyIfMissingOrRepeated`: a state that `apply` returned is wrong only in fields
  that a delta on the way lacked (never, in debug builds, those `create` asserts) or
  that an interrupted call had reached and the next call changed again: not the
  rings, committees and header, and of the per-validator lists other than the balances
  only if the delta adds validators.
- `PanicsExplained`: the only two ways to a panic of the library itself.
  `ForkBoundaryHolds`: no delta takes a state over a fork.
- `RetriesEndUnlessBlocked`: under the fairness above, a caller that tries a delta again
  after a panic gets past it without any snapshot, unless the delta is for another fork,
  has a field its fork does not have, or meets one of the two histories of
  `PanicsExplained`. So no other state that an interrupted `apply` leaves behind keeps
  the next call from ending well.
- `ImplementsArchive`: DeltaArchive as the refined specification, checked of rings, lists and
  the registry; of the queue, which implements it only if nothing is narrowed, it is proved.

### What the violation runs found

1. `slashings.rs:168`: a slashing in the epoch of the base checkpoint, after
   the checkpoint, is lost: the loop increments the epoch before its first look.
2. `eth1_data_votes.rs:57`: a reset list that has grown back to its former length
   is stored as an append.
3. `historical_log.rs:32`: in the last slot of a period `(slot + 1) / 8192` counts
   an item that the log gets one slot later; a delta that ends there panics or
   repeats an older item, a delta that starts there loses one. In the same
   function, line 31 counts from the fork slot, which is right only if that is
   a multiple of 8192, as the Capella slots of the public networks are; otherwise the
   count is one too low from each period's end until whole periods have passed since
   the fork, as `AwayFromBoundary` states.
4. `lib.rs:766-848`: a missing field is passed over and `apply` returns `Ok`.
5. `validators.rs:237-244`: `diff_validators` does not panic on a partial record at the
   end of a buffer, as line 222 says; `chunks_exact` drops it, and the target is restored
   without its last bytes.

No run is kept for the debug assertions at `lib.rs:594-655`, which ask nothing of
`historical_roots` and of the attestation lists: a debug build makes deltas with such a
field on a fork without it, and `apply` rejects them. The comment at `lib.rs:491-492` speaks
of "debug-only invariant checks to ensure that fork-specific fields are present exactly
when expected". ApplyInPlace has these deltas, among those its caller is `Blocked` by.

Of one more limit `QueueRestoredUnlessNarrowed` states the extent, and no comment denies it:
`pending_queue.rs:201` narrows the length in bytes to `u32` before it divides, so a
queue of 2^32 bytes (22.4 million deposits, of the at most 2^27 the list may have) that
is emptied within one delta is not emptied by the reader. The protocol takes 16 deposits
from the queue in an epoch, so a delta would have to span more than a million epochs.

A consequence of the fourth finding that no comment denies: a release build whose
`DiffSource` leaves out `inactivity_scores` once, while validators are added, makes
`apply` panic on a later delta, when most of the state is already written. `PanicsExplained`
says that there is no other way to it.

## Proofs

Proved for every value of the constants that satisfies the named assumptions of the
modules: positive capacities, lengths of epochs and periods, word sizes; a queue has at most as
many items as a `u32` counts (the limits of the protocol are 2^27 and 2^18); the bounds on
slots, checkpoints, changes and interruptions may be any numbers.

| Module | Theorems | Assumed beyond that |
|---|---|---|
| RingArchiveProofs | `TypeCorrect`, `Invariance`, `RootsAreRestored`, `MixesAreRestored`, `SlashingsAreConfined`, `RetryingIsHarmless`, `RestoringStaysInWindow`, `LostDeltasAreConfined`, `RingsImplementArchive` | the slashing ring fits its `u16` index, which the code does not check and the protocol's 8192 satisfies |
| QueueArchiveProofs | `Invariance`, `QueueIsRestoredUnlessNarrowed`, `QueueIsNeverOverdrained`, `PureFifoIsFound`; `QueueIsRestored`, `QueueImplementsArchive` | nothing; for the last two `Fits`: the longest queue in bytes fits a `u32` |
| ListArchiveProofs | `Invariance`, `TypeCorrect`, `EpochListsAreRestored`, `VotesCountIsRestored`, `VotesAreRestoredUnlessRegrown`, `LogIsRestoredAwayFromBoundary`, `PanicsAtBoundaryOnly`, `SpoiltListsStaySpoilt`, `ListsImplementArchive` | nothing |
| RegistryArchiveProofs | `Invariance`, `ReaderInvariance`, `ValidatorsAreRestored`, `BalancesAreRestored`, `FlagsAreRestored`, `ScoresAreRestored`, `TypeCorrect`, `DeltasFitTheReader`, `SlicesAgree`, `ByteFormsAgree`, `RetriesKeepAllButBalances`, `PanicsAreBeyondSigned`, `RegistryImplementsArchive` | `EpochsFit`: the epochs a client may set are below `u64::MAX`, which stands for never |
| ApplyInPlaceProofs | `Invariance`, `TypeCorrect`, `ForkBoundaryIsKept`, `WrongOnlyWhereExplained`, `PanicsAreExplained`, `CallsImplementStateDelta` | nothing |

**Rings.** The properties are not inductive, because a delta is applied long after it was
made. `IInv` adds that the archive holds the delta of each pair of neighbouring checkpoints
(`ArchiveComplete`) and that of two neighbours, and of the last checkpoint and the live
state, the later one differs from the earlier only in entries that a slot or epoch of the
window between them maps to (`CheckpointsFollow`). The client keeps the second part
(`ClientStep`, with one step per action), a checkpoint keeps both, and a restore then relies
on a lemma on rings alone, `WriteOfRead`: reading a window from the target and writing it
to the base, with wrap-around and overwriting, gives the target if the two agree outside
the window. `UpdatesAreExact` and `SlashingsStep` are its counterparts for the index/value
pairs. Lost deltas need an induction over the checkpoints that follow: `StatesWithout` is
the recursive function the property uses for a reader that skips some deltas, and the claim
for checkpoint k+1 follows from that for k because the window of an applied delta is
overwritten and outside of it base and target agree. The library's induction theorems
take an operator as a parameter, which none of the provers can instantiate; `SetInduction`
of RecursionProofs says the same of a set.

**Queues.** `QueueStep` follows a delta case by case on a reader that is at least as long
as the base: a replacement gives the target; a FIFO step drains no more than the base has
and keeps what the reader has beyond it, and adds to that exactly if the count was narrowed,
because fewer items are then counted than there are (`NarrowedIsLess`). It rests on facts
on subsequences (`DropFacts`), the arithmetic of the narrowed count (`AllConsumedIsLength`)
and the existence of the first match (`LeastExists`). So `QueueRestoredUnlessNarrowed` is
inductive once the archive is known to be complete (`ArchiveComplete`): `LeftBehindGoesOn`
says that items are left behind after a restore exactly if its delta was a FIFO step and
they were before, or it was narrowed itself. If the longest queue fits (`Fits`), nothing is
ever narrowed (`NothingIsNarrowed`), and the queue is always restored.
`PureFifoIsFound` says what the round trip cannot: that with distinct items the first
candidate that matches is the true overlap (`OverlapIsFound`), so nothing is replaced that
could be appended to.

**Scheduled lists.** `IInv` says that the historical log of any state is a function of its
slot (`LogAt`), that of two neighbouring checkpoints the later one is ahead in slots and
in the same voting period keeps the votes as a prefix (`Follows`, in `ScheduleKept`), and
that the archive is complete. `LogCountIsLength` then shows that what `calculate_log_count`
computes from a slot alone is the length of the log at the slots `AwayFromBoundary` names,
and never above it for a log from a fork (`PeriodsBetween` compares the periods passed
since the fork with the ends of periods since then); `VotesStep` that an append leads to the length of the target even where its contents are
wrong.

What `SpoiltUntilReplaced` says is about archives the machine never applies, so `IInv` also
ties the reader to the fold the property uses: its lists are the snapshot's after
the deltas so far (`ReaderReplays`). `RebuiltIsRun` turns the fold, a recursion on sets
of positions, into a `Run`, the sequence of lists between the deltas. The rest is about two
runs under the same deltas from different lists: `RunsMeet` shows by induction that they end
equal exactly if they began equal or a delta replaces, because an append cancels
(`AppendCancels`). `LostDelta` and `RepeatedDelta` apply it to a run and the same run without
its m-th delta or with it twice, which differ after it unless the delta was inert. A lost
replacement needs one fact about the formats: it is stored only where the new list is not
the one before (`ArchivedDelta`). That holds of the list the reader has, not
just of the checkpoint's, because the reader's votes are as many as the checkpoint's even
where they are wrong and a reset changes their number (`RunReachesCheckpoints`).

**The registry.** The decoder derives the withdrawable epoch of a validator from its exit
epoch unless it is slashed at the time of the patch. That is right because of two facts
about the client, which the inductive invariant states of every checkpoint and of each pair
of neighbours: a validator that is not slashed has the withdrawable epoch that would be
derived (`Lawful`), and one that was slashed stays so (`StaysSlashed`). `RecordRoundTrip`
shows that they suffice, following a record through the seven patches as a mixture of the
old and the new one. With the lists below, `StateIsRebuilt` says that a delta applied to its
base gives the target, whole; the other theorems on the reader follow from that.
A repeated delta finds its patches and values in place (`RegistryRepeats`; for sparse lists
the round trips are proved from any list between base and target, of which the target
is one). For the byte form, `ChunksAreRecords` finds the
records of a buffer again, and `BytesRoundTrip` goes through it cell by cell.

**Packing.** Varints, tags and gaps are defined by functions that recur over numbers and
sequences. `RecursionHasSolution` shows once that such a function exists if its argument
descends in rank, and `RankInduction` proves facts about it; from them follow the equations
of `Varint`, of the reader's cursor, of the packed byte and of the places the gaps lead to
(`VarintEquation`, `NumbersEquation`, `PackedEquation`, `PlaceEquation`).
`VarintsRoundTrip` and `TagsRoundTrip` say that what was packed is unpacked, for any base
and any number of tags in a byte, and `GapsLeadToPlaces` that the sums of the gaps are the
indices that differ. Balances add that the value at the rank of an index is that of the
index (`RankFacts`, `RankOfNth`); each tag is then a case of its own, and
`WrappedDifference` shows that wrapping twice is harmless modulo the number of values.

**Apply in place.** A call may end after any field, so the invariant speaks of every point
of a call. Its conjuncts: what `create` has made sure of in every delta (`ArchiveKept`); a
running call has passed the checks of `apply`, and its delta passes them again after a panic
(`CallValid`); a field the call has gone past and updated is the target's if it was fit
for the delta, and any other is what it was when the call began (`WrittenKept`); interrupted
calls are of the current delta or of earlier ones (`InterruptedKept`); a field that is not
the checkpoint's was lacking in a delta on the way, or an interrupted call had touched it,
or calls cannot get past a list they panic at (`WrongnessExplained`); and a list is no
shorter than the registry unless a delta that adds validators lacked its entries
(`LengthsKept`). The refinement maps
every write to a stutter and the end of a call to the one step of StateDelta; a call that
panics had updated the fields of `AsTarget`, which is the witness for the set StateDelta
leaves open.

Every invariant, action property and refinement of a passing run is proved. Only
model-checked are `RetriesEndUnlessBlocked`, which is liveness under fairness and out of the
prover's reach, and what the runs find violated.

## Not modelled

The derived
`rkyv` codecs are generated code of a dependency; a delta is read back as it was
written, so `MalformedDelta` does not occur, and an `expect` on deserialization
is no different from a panic of the accessor called just before it. Code of the client
is called inside some decoders too, for each element of a list (`get_mut`, `push`,
the setters of a validator); a panic there would leave one list partly written, and
the models have it before or after the whole list. `base_slot` is not compared
with the reader's slot by the code and no property pretends it is; what follows when
deltas are lost or repeated is checked for the rings, the lists and the per-validator
fields, and left open (`Garbled`) for queues. The clients only go forward from
their last checkpoint; a delta between two branches of the chain would be right for the
formats that compare contents, which are checked for targets that share nothing with
their base, and cannot be for rings, votes, logs and derived epochs. The
forks Bellatrix, Deneb and those after Electra have the fields of the fork before them and
are left out of the runs, not of the definitions. Of the
per-validator deltas two things are left out: where in a byte buffer an archived patch
or score begins; and the narrowing of validator indices to `u32`, which a registry of
less than 2^32 validators does not meet.

## Plan

1. *Done*: rings, queues, scheduled lists, orchestration; proofs for rings and
   queues.
2. *Done*: the per-validator fields, as modules and runs.
3. *Done*: proofs for validators, balances, flags and scores, packing included, and for
   the byte form of the registry.
4. *Done*: `apply` field by field, with panics, retries, recovery and liveness; lost and
   repeated deltas; the byte form of the registry.
5. *Done*: proofs for lost and repeated deltas of the rings, for the scheduled lists, and for
   `apply` in place with its refinement.
6. *Done*: proof of `SpoiltUntilReplaced` for lost and repeated deltas of the lists, so that
   every safety property of a passing run has its theorem.
