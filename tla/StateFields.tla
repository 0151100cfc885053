---------------------------- MODULE StateFields -----------------------------
(***************************************************************************)
(* The fields of a delta, the forks that have them and the order in which  *)
(* `apply` writes them, for the two modules on lib.rs: StateDelta, where a *)
(* call of `apply` is one step, and ApplyInPlace, where it is many.        *)
(***************************************************************************)
EXTENDS Integers, Sequences, FiniteSets

CONSTANTS
  Builds,          \* the builds looked at: TRUE has debug_assert enabled
  Forks,           \* the forks the client's chain goes through
  Slips,           \* the fields a DiffSource may present wrongly
  MaxMistakes,     \* bound on the fields presented wrongly in one delta
  MaxCheckpoints,  \* bound on the number of checkpoints
  Garbled          \* contents of which nothing is promised

\* ForkName, by discriminant; Heze is the last.
Altair == 1
Capella == 3
Electra == 5
Heze == 8

-----------------------------------------------------------------------------
Universal ==
  {"scalar_header", "balances", "validators", "block_roots", "state_roots",
   "randao_mixes", "slashings", "eth1_data_votes"}

UntilAltair == {"previous_epoch_attestations", "current_epoch_attestations"}

UntilCapella == {"historical_roots"}

SinceAltair ==
  {"previous_participation", "current_participation", "inactivity_scores",
   "current_sync_committee", "next_sync_committee"}

SinceCapella == {"historical_summaries"}

SinceElectra ==
  {"pending_deposits", "pending_partial_withdrawals", "pending_consolidations"}

Optional ==
  UntilAltair \cup UntilCapella \cup SinceAltair \cup SinceCapella
    \cup SinceElectra

ASSUME DeltaAssumption ==
  /\ Builds \subseteq BOOLEAN
  /\ Forks \subseteq 0..Heze
  /\ Slips \subseteq Optional
  /\ MaxMistakes \in Nat
  /\ MaxCheckpoints \in Nat \ {0}
  /\ Garbled \notin Nat

\* The fields that apply accepts in a delta of the fork, by the checks of
\* validate_field and validate_removed_field.
FieldsOf(fork) ==
  Universal
    \cup (IF fork < Capella THEN UntilCapella ELSE {})
    \cup (IF fork < Altair THEN UntilAltair ELSE {})
    \cup (IF fork >= Altair THEN SinceAltair ELSE {})
    \cup (IF fork >= Capella THEN SinceCapella ELSE {})
    \cup (IF fork >= Electra THEN SinceElectra ELSE {})

\* The fields whose presence the debug assertions of create compare with the
\* fork: neither historical_roots nor the attestations are among them.
Asserted == SinceAltair \cup SinceCapella \cup SinceElectra

\* The order in which apply writes the fields.
Order ==
  <<"scalar_header", "balances", "validators", "block_roots", "state_roots",
    "randao_mixes", "slashings", "eth1_data_votes", "historical_roots",
    "previous_epoch_attestations", "current_epoch_attestations",
    "previous_participation", "current_participation", "inactivity_scores",
    "current_sync_committee", "next_sync_committee", "historical_summaries",
    "pending_deposits", "pending_partial_withdrawals",
    "pending_consolidations">>

\* Delta formats that say what an entry is to be and not how it changes, for
\* lists of a fixed length: applied to the target they leave it alone.
Overwriting ==
  {"block_roots", "state_roots", "randao_mixes", "slashings",
   "current_sync_committee", "next_sync_committee"}

\* The lists with an entry for each validator whose deltas do the same, as
\* long as they append nothing.
OverwritingUnlessGrown ==
  {"validators", "previous_participation", "current_participation",
   "inactivity_scores"}

Deltas == [fork: Forks, fields: SUBSET (Universal \cup Optional)]
=============================================================================
