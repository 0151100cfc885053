---------------------------- MODULE ApplyInPlace ----------------------------
(***************************************************************************)
(* `apply` as it runs: it checks the fork and the fields of a delta, then  *)
(* writes the state in place, one field after the other, while code that   *)
(* is not its own (the accessors of DiffTarget) is called in between.  A   *)
(* panic, of the library on a list of the wrong length or of an accessor,  *)
(* leaves whatever was written so far.  The state survives where M borrows *)
(* it; the caller may then call again, or load a full state.  A caller     *)
(* whose M owned the state has only the latter choice.                     *)
(*                                                                         *)
(* StateDelta, where a call is one step, is the specification this module  *)
(* implements; the client's side and the refusals are taken from there.    *)
(* Versions of fields do not say how long a list is, which decides about   *)
(* the panics of the library: `lengths` does, for the two lists concerned. *)
(*                                                                         *)
(* The client and the reader share nothing but the archive, of which a     *)
(* call reads one delta that no longer changes.  So it is enough to let    *)
(* the client act between two calls.                                       *)
(***************************************************************************)
EXTENDS StateFields, FiniteSetsExt

CONSTANTS
  MaxDeposits,   \* bound on the validators added between two checkpoints
  MaxInterrupts  \* bound on the panics of accessors

ASSUME InterruptAssumption == MaxDeposits \in Nat /\ MaxInterrupts \in Nat

VARIABLES
  debug, fork, forks, archive, position, result,  \* as in StateDelta
  replica,     \* the reader's state, written in place
  before,      \* the reader's state when the last call began or ended
  sizes,       \* sizes[k]: the number of validators at checkpoint k
  lengths,     \* the lengths of the reader's balances and inactivity scores
  step,        \* the field to be written next, or 0 between two calls
  beyond,      \* the last delta that indexed a list beyond its end
  interrupted  \* the calls that an accessor ended: of which delta, and where

\* What the outside sees of a call is the state it leaves.
Atomic == INSTANCE StateDelta WITH replica <- before

client == <<debug, fork, forks, archive, sizes>>
all == <<client, position, result, replica, before, lengths, step, beyond,
         interrupted>>

Counted == {"balances", "inactivity_scores"}

Done == Len(Order) + 1

\* A length no checkpoint has.  A list that long stays too long, whatever is
\* pushed to it, so it is not counted any further.
TooLong == sizes[1] + MaxDeposits * MaxCheckpoints

TypeOK ==
  /\ Atomic!TypeOK
  /\ replica.values \in [FieldsOf(replica.fork) -> Nat \cup {Garbled}]
  /\ sizes \in Seq(Nat) /\ Len(sizes) = Len(forks)
  /\ lengths \in [Counted \cap FieldsOf(replica.fork) -> 1..TooLong]
  /\ step \in 0..Done
  /\ beyond \in 0..position
  /\ interrupted \in Seq([delta: Nat, at: 1..Done])

-----------------------------------------------------------------------------
(* Between two calls.                                                      *)

Fork ==
  /\ step = 0
  /\ Atomic!Fork
  /\ UNCHANGED <<sizes, replica, lengths, step, beyond, interrupted>>

\* The registry only grows.
Checkpoint(fields, added) ==
  /\ step = 0
  /\ Atomic!Create(fields)
  /\ sizes' = Append(sizes, sizes[Len(sizes)] + added)
  /\ UNCHANGED <<replica, lengths, step, beyond, interrupted>>

Refuse ==
  /\ step = 0
  /\ Atomic!RejectFork \/ Atomic!RejectField
  /\ UNCHANGED <<sizes, replica, lengths, step, beyond, interrupted>>

LoadSnapshot ==
  /\ step = 0
  /\ Atomic!LoadSnapshot
  /\ replica' = before'
  /\ lengths' = [f \in Counted \cap FieldsOf(forks[position + 1]) |->
                   sizes[position + 1]]
  /\ UNCHANGED <<sizes, step, beyond, interrupted>>

-----------------------------------------------------------------------------
(* A call.                                                                 *)

\* A faulty variant: a field that follows at once is passed over.
FollowingButOne(i) ==
  Min({Done} \cup {j \in (i + 2)..Len(Order) : Order[j] \in Atomic!Updated})

\* The fields the delta and the state have are written, in the order of the
\* code; the others are passed over.
Following(i) ==
  Min({Done} \cup {j \in (i + 1)..Len(Order) : Order[j] \in Atomic!Updated})

\* A faulty variant: the fork of the state is not compared with the delta's.
BeginOnAnyFork ==
  /\ step = 0
  /\ Atomic!InOrder
  /\ Atomic!Delta.fields \subseteq FieldsOf(Atomic!Delta.fork)
  /\ step' = Following(0)
  /\ UNCHANGED <<client, position, result, replica, before, lengths,
                 beyond, interrupted>>

\* Nothing is written before the delta has passed the checks.
Begin ==
  /\ step = 0
  /\ Atomic!Valid
  /\ step' = Following(0)
  /\ UNCHANGED <<client, position, result, replica, before, lengths,
                 beyond, interrupted>>

Writing == step \in 1..Len(Order)

Field == Order[step]

\* The validators the delta of checkpoint k adds.
Added(k) == sizes[k + 1] - sizes[k]

\* Writing the field gives it the contents of the next checkpoint: it has
\* those the delta was made from, or it has the new ones already and its
\* delta format overwrites them.
Sound ==
  \/ replica.values[Field] = position
  \/ Field = "scalar_header"
  \/ /\ replica.values[Field] = position + 1
     /\ \/ Field \in Overwriting
        \/ Field \in OverwritingUnlessGrown /\ Added(position) = 0

\* A faulty variant: the scores of new validators are not appended.
NewLengthsUnextended ==
  {IF Field = "balances" THEN Min({lengths[Field] + Added(position), TooLong})
   ELSE lengths[Field]}

\* The lengths writing the field may leave it with.  Appended entries are
\* pushed to whatever is there; only zero scores, AllZeros, start afresh.
NewLengths ==
  {Min({lengths[Field] + Added(position), TooLong})}
    \cup (IF Field = "inactivity_scores" THEN {sizes[position + 1]} ELSE {})

\* A faulty variant: the length is compared with the one the delta leads to.
AssertionFailsOnGrowth ==
  debug /\ Field = "balances" /\ lengths[Field] # sizes[position + 1]

\* apply_balances_iter compares the length with that of its tags.
AssertionFails ==
  debug /\ Field = "balances" /\ lengths[Field] # sizes[position]

\* Both lists are indexed, perhaps beyond the end of a short one; a delta that
\* does so once does it again.
MayLackEntries ==
  /\ Field \in Counted
  /\ lengths[Field] < sizes[position]
  /\ ~AssertionFails

Write ==
  /\ Writing
  /\ ~AssertionFails
  /\ ~(MayLackEntries /\ beyond = position)
  /\ replica' = [replica EXCEPT !.values[Field] =
                   IF Sound THEN position + 1 ELSE Garbled]
  /\ IF Field \in Counted
     THEN \E n \in NewLengths : lengths' = [lengths EXCEPT ![Field] = n]
     ELSE UNCHANGED lengths
  /\ step' = Following(step)
  /\ UNCHANGED <<client, position, result, before, beyond, interrupted>>

Return ==
  /\ step = Done
  /\ position' = position + 1
  /\ result' = "Ok"
  /\ before' = replica
  /\ step' = 0
  /\ UNCHANGED <<client, replica, lengths, beyond, interrupted>>

EndInPanic ==
  /\ result' = "Panicked"
  /\ before' = replica'
  /\ step' = 0
  /\ UNCHANGED <<client, position, lengths>>

\* A faulty variant: what a panic has written is taken for a result.
LibraryPanicsUnnoticed ==
  /\ Writing
  /\ \/ AssertionFails /\ UNCHANGED <<replica, beyond>>
     \/ /\ MayLackEntries
        /\ replica' = [replica EXCEPT !.values[Field] = Garbled]
        /\ beyond' = position
  /\ position' = position + 1
  /\ result' = "Ok"
  /\ before' = replica'
  /\ step' = 0
  /\ UNCHANGED <<client, lengths, interrupted>>

\* The assertion comes before any balance is written, an index out of bounds
\* after some of the entries.
LibraryPanics ==
  /\ Writing
  /\ \/ AssertionFails /\ UNCHANGED <<replica, beyond>>
     \/ /\ MayLackEntries
        /\ replica' = [replica EXCEPT !.values[Field] = Garbled]
        /\ beyond' = position
  /\ EndInPanic
  /\ UNCHANGED interrupted

\* An accessor panics: one is called for every field, written or not.  At a
\* pending queue so does the expect of apply_queue, for a delta it cannot
\* deserialize, before anything is written.
AccessorPanics ==
  /\ Len(interrupted) < MaxInterrupts
  /\ \/ Writing
     \/ step = Done /\ Order[Len(Order)] \notin Atomic!Updated
  /\ interrupted' = Append(interrupted, [delta |-> position, at |-> step])
  /\ UNCHANGED <<replica, beyond>>
  /\ EndInPanic

-----------------------------------------------------------------------------
Init ==
  /\ Atomic!Init
  /\ replica = before
  /\ sizes = <<1>>
  /\ lengths = [f \in Counted \cap FieldsOf(fork) |-> 1]
  /\ step = 0
  /\ beyond = 0
  /\ interrupted = <<>>

Next ==
  \/ Fork
  \/ \E fields \in Atomic!Presented(fork), added \in 0..MaxDeposits :
       Checkpoint(fields, added)
  \/ Refuse
  \/ Begin
  \/ Write
  \/ Return
  \/ LibraryPanics
  \/ AccessorPanics
  \/ LoadSnapshot

\* A call goes on: nothing in apply waits.  The caller goes through the
\* archive and tries a delta again when its call failed.  It need not ever
\* load a snapshot.
Fairness ==
  /\ WF_all(Write \/ Return \/ LibraryPanics)
  /\ WF_all(Refuse \/ Begin)

Spec == Init /\ [][Next]_all /\ Fairness

-----------------------------------------------------------------------------
(* Properties.                                                             *)

\* Seen from outside, a call of apply is one step: it refuses and leaves the
\* state as it was, it updates every field the delta and the state share, or
\* it panics having written those before some point (lib.rs: "Fork and field
\* validation occurs before state components are modified").
ImplementsStateDelta == Atomic!Spec

\* A delta on the way to the reader's checkpoint lacked the field.  No debug
\* build makes one for the fields its create asserts.
WasMissing(f) ==
  /\ ~(debug /\ f \in Asserted)
  /\ \E k \in 1..(position - 1) : f \notin archive[k].fields

\* A delta was applied to the field a second time, after a call that an
\* accessor ended, and its format is not one that overwrites.
WasRepeated(f) ==
  /\ f \notin Overwriting \cup {"scalar_header"}
  /\ \E i \in DOMAIN interrupted :
       LET call == interrupted[i]
       IN  /\ call.delta < position
           /\ f \in archive[call.delta].fields
           /\ \E n \in 1..(call.at - 1) : Order[n] = f
           /\ f \in OverwritingUnlessGrown => Added(call.delta) > 0

\* A state that calls of apply ended well with is wrong only in fields that a
\* delta lacked, or that a delta whose application was interrupted and begun
\* again changes twice: the other fields survive both.
WrongOnlyIfMissingOrRepeated ==
  step = 0 /\ result # "Panicked" =>
    \A f \in DOMAIN replica.values :
      replica.values[f] # position => WasMissing(f) \/ WasRepeated(f)

\* The two histories behind a panic of apply itself.  With debug assertions, an
\* earlier call for the same delta, which adds validators, was interrupted after
\* the balances; without, a delta that added validators lacked their scores.
PanicIsDue ==
  IF debug
  THEN /\ Added(position) > 0
       /\ \E i \in DOMAIN interrupted :
            /\ interrupted[i].delta = position
            /\ \E n \in 1..(interrupted[i].at - 1) : Order[n] = "balances"
  ELSE \E k \in 1..(position - 1) :
         /\ Added(k) > 0
         /\ "inactivity_scores" \notin archive[k].fields

\* apply itself panics on a state only in these two cases.
PanicsExplained == [][LibraryPanics => PanicIsDue]_all

\* The only reasons why no later call can apply the reader's next delta.
Blocked ==
  /\ Atomic!InOrder
  /\ \/ replica.fork # Atomic!Delta.fork
     \/ ~(Atomic!Delta.fields \subseteq FieldsOf(Atomic!Delta.fork))
     \/ PanicIsDue

\* A caller that tries again after a panic gets past the delta, without any
\* snapshot, unless the delta is for another fork, holds a field its fork does
\* not have, or meets one of the two histories behind a panic: no other state
\* that an interrupted apply leaves behind keeps the next call from ending well.
RetriesEndUnlessBlocked ==
  \A k \in 1..(MaxCheckpoints - 1) :
    position = k /\ Len(forks) > k ~> position > k \/ Blocked

\* A delta over a fork boundary is never applied: the reader's fork is that
\* of the checkpoint it has reached.
ForkBoundaryHolds == replica.fork = forks[position]

-----------------------------------------------------------------------------
(* The inductive invariant of the proofs.                                  *)

\* The fields the call that is running has gone past.
Past == {Order[n] : n \in 1..(step - 1)}

\* What create has made sure of.
ArchiveKept ==
  /\ Len(forks) <= MaxCheckpoints
  /\ \A k \in 1..(Len(forks) - 1) :
       /\ archive[k].fork = forks[k + 1]
       /\ Universal \subseteq archive[k].fields
       /\ debug => \A f \in Asserted :
                     f \in archive[k].fields <=> f \in FieldsOf(forks[k + 1])
  /\ sizes[1] > 0
  /\ \A k \in 1..(Len(forks) - 1) : Added(k) \in 0..MaxDeposits

\* The delta of a call has passed the checks, and passes them again when the
\* caller tries again.
CallValid ==
  /\ \A state \in {replica, before} :
       state = [fork |-> replica.fork, values |-> state.values]
  /\ step # 0 \/ result = "Panicked" => Atomic!Valid
  /\ Writing => Field \in Atomic!Updated

\* Between two calls the state is what the last one left; during a call the
\* fields it has gone past and updated are those of the next checkpoint if
\* they were fit for the delta.
WrittenKept ==
  IF step = 0 THEN replica = before
  ELSE \A f \in DOMAIN before.values :
         IF f \in Past /\ f \in Atomic!Updated
         THEN \/ /\ replica.values[f] = position + 1
                 /\ f \in Atomic!Sound \cup Atomic!PerhapsSound
              \/ replica.values[f] = Garbled /\ f \notin Atomic!Sound
         ELSE replica.values[f] = before.values[f]

\* Only calls of the current delta are still open.
InterruptedKept ==
  \A i \in DOMAIN interrupted :
    /\ interrupted[i].delta \in 1..position
    /\ interrupted[i].delta = position => result = "Panicked"

\* An interrupted call of the current delta had gone past the field.
Touched(f) ==
  \E i \in DOMAIN interrupted :
    /\ interrupted[i].delta = position
    /\ \E n \in 1..(interrupted[i].at - 1) : Order[n] = f

\* Every call of the current delta panics at the field, if not before it.
StuckAt(f) ==
  /\ result = "Panicked"
  /\ f \in (Counted \cap Atomic!Updated) \ Past
  /\ \/ debug /\ f = "balances" /\ lengths[f] # sizes[position]
     \/ lengths[f] < sizes[position] /\ beyond = position

\* What may be the matter with a field that is not of the reader's
\* checkpoint, at any point of a call.
Explained(f) ==
  \/ replica.values[f] = position
  \/ WasMissing(f) \/ WasRepeated(f)
  \/ f \in Past /\ f \in Atomic!Updated /\ replica.values[f] = position + 1
  \/ /\ Touched(f) /\ f \in Atomic!Updated
     /\ \/ replica.values[f] = position + 1
        \/ /\ f \notin Overwriting \cup {"scalar_header"}
           /\ f \in OverwritingUnlessGrown => Added(position) > 0
  \/ \E stuck \in Counted : StuckAt(stuck)

WrongnessExplained == \A f \in DOMAIN replica.values : Explained(f)

\* A list is no shorter than the registry, unless a delta lacked the entries
\* to append.
LongEnough(f) ==
  \/ lengths[f] >= sizes[IF f \in Past /\ f \in Atomic!Updated
                         THEN position + 1 ELSE position]
  \/ /\ ~debug
     /\ \E k \in 1..(position - 1) :
          Added(k) > 0 /\ f \notin archive[k].fields

\* No balance is appended twice under the assertion.
LengthsKept ==
  /\ \A f \in DOMAIN lengths : LongEnough(f)
  /\ debug => lengths["balances"]
               = sizes[IF "balances" \in Past \/ Touched("balances")
                       THEN position + 1 ELSE position]

IInv ==
  /\ TypeOK
  /\ ArchiveKept
  /\ CallValid
  /\ WrittenKept
  /\ ForkBoundaryHolds
  /\ InterruptedKept
  /\ WrongnessExplained
  /\ LengthsKept
=============================================================================
