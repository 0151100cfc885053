--------------------------- MODULE ValidatorBytes ---------------------------
(***************************************************************************)
(* The registry as one buffer of SSZ records (validators.rs): the byte     *)
(* form of the delta, which reads and writes the fields of a record at     *)
(* fixed offsets.                                                          *)
(*                                                                         *)
(* A field is one cell of the buffer, whatever its width in bytes; a       *)
(* record is RecordSize cells in the place of VALIDATOR_SSZ_SIZE bytes.    *)
(***************************************************************************)
EXTENDS ValidatorDeltas, SequencesExt

\* The fields in the order of their offsets.  The public key is the only one
\* that is never compared or patched.
Layout ==
  <<"pubkey", "withdrawal_credentials", "effective_balance", "slashed",
    "activation_eligibility_epoch", "activation_epoch", "exit_epoch",
    "withdrawable_epoch">>

RecordSize == Len(Layout)

\* The complete records of a buffer: what remains at its end is left out.
Chunks(bytes) ==
  [i \in 1..(Len(bytes) \div RecordSize) |->
     SubSeq(bytes, (i - 1) * RecordSize + 1, i * RecordSize)]

\* ByteValidator: the fields of a record.
FieldsAt(chunk) ==
  [field \in Range(Tail(Layout)) |->
     chunk[CHOOSE p \in 1..RecordSize : Layout[p] = field]]

DiffValidatorsBytes(base, target) ==
  LET b == Chunks(base)
      t == Chunks(target)
      views(chunks) == [i \in DOMAIN chunks |-> FieldsAt(chunks[i])]
  IN  [patches |-> DiffValidators(views(b), views(t)).patches,
       appended_validators |-> FlattenSeq(SubSeq(t, Len(b) + 1, Len(t)))]

\* ByteValidatorMut: the record with the fields patched, in place.
Patched(chunk, patches) ==
  LET v == ApplyPatches(FieldsAt(chunk), patches)
  IN  [p \in 1..RecordSize |-> IF p = 1 THEN chunk[1] ELSE v[Layout[p]]]

\* A faulty variant for the mutation runs: the end must lie before the last
\* byte.
HasBeforeEnd(bytes, i) == i * RecordSize < Len(bytes)

\* ByteValidatorTarget: the index of a record that lies within the buffer,
\* by its end.
Has(bytes, i) == i * RecordSize <= Len(bytes)

\* New records are pushed whole, whatever the buffer ends with.
ApplyValidatorsBytes(bytes, delta) ==
  [p \in DOMAIN bytes |->
     LET i == ((p - 1) \div RecordSize) + 1
     IN  IF i \in DOMAIN delta.patches /\ Has(bytes, i)
         THEN Patched(Chunks(bytes)[i], delta.patches[i])
                [((p - 1) % RecordSize) + 1]
         ELSE bytes[p]]
    \o FlattenSeq(Chunks(delta.appended_validators))
=============================================================================
