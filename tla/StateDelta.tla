----------------------------- MODULE StateDelta -----------------------------
(***************************************************************************)
(* The orchestration of lib.rs as its callers should see it: `create`      *)
(* collects the deltas of the fields a DiffSource presents, `apply`        *)
(* refuses a delta or updates the fields the state and the delta share, or *)
(* panics somewhere on the way.  ApplyInPlace implements it.               *)
(*                                                                         *)
(* A field is reduced to the version, that is the checkpoint, its contents *)
(* belong to; what a delta of one field does to it is the business of the  *)
(* other modules.  The client decides when its chain forks, when to take a *)
(* checkpoint and which fields its DiffSource presents, by mistake perhaps *)
(* too many or too few; that part is external to the repository.           *)
(***************************************************************************)
EXTENDS StateFields, FiniteSetsExt

VARIABLES
  debug,     \* the build of the crate, fixed from the start
  fork,      \* the fork of the client's chain
  forks,     \* forks[k]: the fork of checkpoint k
  archive,   \* archive[k]: the delta from checkpoint k to checkpoint k+1
  position,  \* the checkpoint the reader has reached
  replica,   \* the reader's state: its fork and the version of each field
  result     \* how the last apply ended

vars == <<debug, fork, forks, archive, position, replica, result>>
client == <<debug, fork, forks, archive>>

Refusals == {"ForkMismatch", "InvalidFieldForFork"}

TypeOK ==
  /\ debug \in Builds
  /\ fork \in Forks
  /\ forks \in Seq(Forks)
  /\ archive \in Seq(Deltas) /\ Len(archive) = Len(forks) - 1
  /\ position \in 1..Len(forks)
  /\ replica.fork \in Forks
  /\ replica.values \in [FieldsOf(replica.fork) -> Nat \cup {Garbled}]
  /\ result \in {"none", "Ok", "Panicked"} \cup Refusals

-----------------------------------------------------------------------------
(* The client's chain and its checkpoints.                                 *)

Fork ==
  /\ \E later \in Forks : later > fork
  /\ fork' = Min({later \in Forks : later > fork})
  /\ UNCHANGED <<debug, forks, archive, position, replica, result>>

\* The field sets a DiffSource of the fork may present: a slip leaves out a
\* field of the fork or adds one the fork does not have.
Presented(f) ==
  {SymDiff(FieldsOf(f), slip) :
     slip \in {s \in SUBSET Slips : Cardinality(s) <= MaxMistakes}}

\* create: the delta is stamped with the fork of the target and holds what
\* the DiffSource presents.  The debug assertions may fail; then there is no
\* delta, and no checkpoint.
Create(fields) ==
  /\ Len(forks) < MaxCheckpoints
  /\ debug =>
       \A f \in Asserted : f \in fields <=> f \in FieldsOf(fork)
  /\ forks' = Append(forks, fork)
  /\ archive' = Append(archive, [fork |-> fork, fields |-> fields])
  /\ UNCHANGED <<debug, fork, position, replica, result>>

-----------------------------------------------------------------------------
(* apply.                                                                  *)

Delta == archive[position]

InOrder == position < Len(forks)

\* The state belongs to another fork: nothing else is looked at.
RejectFork ==
  /\ InOrder
  /\ replica.fork # Delta.fork
  /\ result' = "ForkMismatch"
  /\ UNCHANGED <<client, position, replica>>

\* The delta holds a field its fork does not have.
RejectField ==
  /\ InOrder
  /\ replica.fork = Delta.fork
  /\ ~(Delta.fields \subseteq FieldsOf(Delta.fork))
  /\ result' = "InvalidFieldForFork"
  /\ UNCHANGED <<client, position, replica>>

Valid ==
  /\ InOrder
  /\ replica.fork = Delta.fork
  /\ Delta.fields \subseteq FieldsOf(Delta.fork)

\* The fields apply updates: those that both the state and the delta have.
Updated == DOMAIN replica.values \cap Delta.fields

\* A delta needs the base it was made from, except the header's, which
\* replaces; or the target, for the formats that overwrite, when an earlier
\* call that panicked has got that far.
Sound ==
  {f \in Updated : \/ replica.values[f] = position
                   \/ f = "scalar_header"
                   \/ f \in Overwriting /\ replica.values[f] = position + 1}

\* Fields for which that depends on whether their delta appends anything.
PerhapsSound ==
  {f \in Updated \cap OverwritingUnlessGrown :
     replica.values[f] = position + 1}

\* The state after the fields written were updated, and those of sound well.
After(written, sound) ==
  [replica EXCEPT !.values =
     [f \in DOMAIN @ |-> IF f \notin written THEN @[f]
                         ELSE IF f \in sound THEN position + 1
                         ELSE Garbled]]

\* Every field the state and the delta have is updated, any other is passed
\* over.
ApplyFields ==
  /\ Valid
  /\ position' = position + 1
  /\ \E more \in SUBSET PerhapsSound :
       replica' = After(Updated, Sound \cup more)
  /\ result' = "Ok"
  /\ UNCHANGED client

\* apply panics with a field it was to write, or had begun to.
ApplyPanics ==
  /\ Valid
  /\ \E n \in 1..Len(Order), more \in SUBSET PerhapsSound :
       LET written == {Order[i] : i \in 1..(n - 1)} \cap Updated
       IN  \/ replica' = After(written, Sound \cup more)
           \/ replica' = After(written \cup ({Order[n]} \cap Updated),
                               (Sound \cup more) \ {Order[n]})
  /\ result' = "Panicked"
  /\ UNCHANGED <<client, position>>

\* A reader whose call failed needs a full state to go on from.
LoadSnapshot ==
  /\ result \in Refusals \cup {"Panicked"}
  /\ InOrder
  /\ position' = position + 1
  /\ replica' = [fork |-> forks[position + 1],
                 values |-> [f \in FieldsOf(forks[position + 1]) |->
                               position + 1]]
  /\ result' = "none"
  /\ UNCHANGED client

-----------------------------------------------------------------------------
\* The snapshot may be taken on any fork.
Init ==
  /\ debug \in Builds
  /\ fork \in Forks
  /\ forks = <<fork>>
  /\ archive = <<>>
  /\ position = 1
  /\ replica = [fork |-> fork, values |-> [f \in FieldsOf(fork) |-> 1]]
  /\ result = "none"

Next ==
  \/ Fork
  \/ \E fields \in Presented(fork) : Create(fields)
  \/ RejectFork
  \/ RejectField
  \/ ApplyFields
  \/ ApplyPanics
  \/ LoadSnapshot

Spec == Init /\ [][Next]_vars

-----------------------------------------------------------------------------
(* What the repository's docs say, and the code does not keep.             *)

\* lib.rs:387-396: the fields of a fork are present on it, and apply
\* validates it, so an apply that succeeds updated every field.
OkMeansComplete ==
  result = "Ok" =>
    \A f \in DOMAIN replica.values : replica.values[f] = position
=============================================================================
