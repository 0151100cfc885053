------------------------- MODULE ListArchiveProofs --------------------------
(***************************************************************************)
(* What the reader of ListArchive holds, for every length of the periods,  *)
(* every kind of items and every fork slot.                                *)
(***************************************************************************)
EXTENDS ListArchive, RecursionProofs, SequenceTheorems

-----------------------------------------------------------------------------
(* The schedule.                                                           *)

\* Voting periods are naturals and grow with the slot.
LEMMA VotingPeriodFacts ==
  ASSUME NEW s \in Nat, NEW t \in Nat, s <= t
  PROVE  /\ VotingPeriod(s) \in Nat /\ VotingPeriod(t) \in Nat
         /\ VotingPeriod(s) <= VotingPeriod(t)
<1>1. Epoch(s) \in Nat /\ Epoch(t) \in Nat /\ Epoch(s) <= Epoch(t)
  BY ScheduleAssumption DEF Epoch
<1> HIDE DEF Epoch
<1> QED BY <1>1, ScheduleAssumption DEF VotingPeriod

\* The slot that ends a voting period begins another one.
LEMMA ResetBeginsPeriod ==
  ASSUME NEW s \in Nat, (s + 1) % SlotsPerEpoch = 0,
         Epoch(s + 1) % EpochsPerVotingPeriod = 0
  PROVE  VotingPeriod(s + 1) # VotingPeriod(s)
<1>1. Epoch(s) \in Nat /\ Epoch(s + 1) = Epoch(s) + 1
  BY ScheduleAssumption DEF Epoch
<1> HIDE DEF Epoch
<1> QED BY <1>1, ScheduleAssumption DEF VotingPeriod

\* A historical period ends where the slot is a multiple of its length.
LEMMA HistoricalPeriodFacts ==
  ASSUME NEW s \in Nat
  PROVE  /\ s \div SlotsPerHistoricalPeriod \in Nat
         /\ (s + 1) \div SlotsPerHistoricalPeriod
              = IF (s + 1) % SlotsPerHistoricalPeriod = 0
                THEN s \div SlotsPerHistoricalPeriod + 1
                ELSE s \div SlotsPerHistoricalPeriod
BY PeriodAssumption

\* Where the log of the state begins.
Start == IF activation = None THEN 0 ELSE activation

LEMMA StartFacts ==
  ASSUME activation \in Activations
  PROVE  Start \in Nat
BY ScheduleAssumption DEF Start

\* The log of a slot has one root for each period since it began.
LEMMA LogAtFacts ==
  ASSUME activation \in Activations, NEW s \in Nat, Start <= s
  PROVE  /\ LogAt(s) \in Seq(Nat)
         /\ Len(LogAt(s)) = s \div SlotsPerHistoricalPeriod
                              - Start \div SlotsPerHistoricalPeriod
         /\ \A i \in 1..Len(LogAt(s)) :
              LogAt(s)[i] = Start \div SlotsPerHistoricalPeriod + i
<1> DEFINE p == s \div SlotsPerHistoricalPeriod
           q == Start \div SlotsPerHistoricalPeriod
<1>1. p \in Nat /\ q \in Nat /\ q <= p
  BY StartFacts, PeriodAssumption
<1>2. LogAt(s) = [i \in 1..(p - q) |-> q + i]
  BY DEF LogAt, Start
<1> HIDE DEF p, q
<1>3. \A i \in 1..(p - q) : q + i \in Nat
  BY <1>1
<1>4. p - q \in Nat
  BY <1>1
<1> QED BY <1>2, <1>3, <1>4 DEF p, q

\* process_slots extends the log by the root of the period that ends.
LEMMA LogAtGrows ==
  ASSUME activation \in Activations, NEW s \in Nat, Start <= s
  PROVE  LogAt(s + 1)
           = IF (s + 1) % SlotsPerHistoricalPeriod = 0
             THEN Append(LogAt(s), (s + 1) \div SlotsPerHistoricalPeriod)
             ELSE LogAt(s)
<1> DEFINE p == s \div SlotsPerHistoricalPeriod
           next == (s + 1) \div SlotsPerHistoricalPeriod
           q == Start \div SlotsPerHistoricalPeriod
           ends == (s + 1) % SlotsPerHistoricalPeriod = 0
<1>1. p \in Nat /\ q \in Nat /\ q <= p /\ Start \in Nat /\ Start <= s + 1
  BY StartFacts, PeriodAssumption
<1>2. next = IF ends THEN p + 1 ELSE p
  BY HistoricalPeriodFacts
<1>3. /\ LogAt(s) = [i \in 1..(p - q) |-> q + i]
      /\ LogAt(s + 1) = [i \in 1..(next - q) |-> q + i]
  BY DEF LogAt, Start
<1> HIDE DEF p, q, next
<1>4. CASE ends
  <2> DEFINE longer == Append(LogAt(s), next)
  <2>1. next = p + 1
    BY <1>2, <1>4
  <2>2. next \in Nat /\ next = q + (p - q + 1) /\ p - q \in Nat
    BY <1>1, <2>1
  <2>3. LogAt(s) \in Seq(Nat) /\ Len(LogAt(s)) = p - q
    BY <1>1, LogAtFacts DEF p, q
  <2>4. /\ longer \in Seq(Nat) /\ Len(longer) = p - q + 1
        /\ \A i \in 1..(p - q) : longer[i] = q + i
        /\ longer[p - q + 1] = next
    BY <1>1, <1>3, <2>2, <2>3, AppendProperties
  <2> HIDE DEF longer
  <2>5. longer = [i \in 1..(p - q + 1) |-> longer[i]]
    BY <2>4
  <2>6. \A i \in 1..(p - q + 1) : longer[i] = q + i
    BY <1>1, <2>2, <2>4
  <2>7. longer = [i \in 1..(p - q + 1) |-> q + i]
    BY <2>5, <2>6
  <2>8. next - q = p - q + 1
    BY <1>1, <2>1
  <2> QED BY <1>3, <1>4, <2>7, <2>8 DEF longer, next
<1>5. CASE ~ends
  BY <1>2, <1>3, <1>5
<1> QED BY <1>4, <1>5

-----------------------------------------------------------------------------
(* The deltas.                                                             *)

\* A list is its first n items and the items after them.
LEMMA AfterFacts ==
  ASSUME NEW T, NEW items \in Seq(T), NEW n \in 0..Len(items)
  PROVE  /\ After(items, n) \in Seq(T)
         /\ Len(After(items, n)) = Len(items) - n
         /\ SubSeq(items, 1, n) \o After(items, n) = items
<1>1. After(items, n) \in Seq(T) /\ Len(After(items, n)) = Len(items) - n
  BY DEF After
<1>2. SubSeq(items, 1, n) \o SubSeq(items, n + 1, Len(items)) = items
  <2>1. SubSeq(items, 1, n) \o SubSeq(items, n + 1, Len(items))
          = SubSeq(items, 1, Len(items))
    <3>1. /\ 1 \in 1..(Len(items) + 1) /\ n \in (1 - 1)..Len(items)
          /\ Len(items) \in n..Len(items)
      OBVIOUS
    <3> QED BY <3>1, ConcatAdjacentSubSeq, Zenon
  <2> QED BY <2>1, SubSeqFull
<1> QED BY <1>1, <1>2 DEF After

\* Appending what comes after a prefix completes the list.
LEMMA PrefixCompleted ==
  ASSUME NEW T, NEW base \in Seq(T), NEW target \in Seq(T),
         IsPrefix(base, target)
  PROVE  base \o After(target, Len(base)) = target
<1>1. Len(base) \in 0..Len(target)
      /\ base = SubSeq(target, 1, Len(base))
  BY SubSeqFull DEF IsPrefix
<1> QED BY <1>1, AfterFacts

\* The three cases of the apply functions.
LEMMA ApplyListCases ==
  ASSUME NEW base, NEW items
  PROVE  /\ ApplyList(base, Unchanged) = base
         /\ ApplyList(base, Appended(items)) = base \o items
         /\ ApplyList(base, Replaced(items)) = items
BY DEF ApplyList, Unchanged, Appended, Replaced

\* diff_attestations and apply_attestations: the base becomes the target.
LEMMA AttestationsStep ==
  ASSUME NEW base \in Seq(Attestations), NEW target \in Seq(Attestations)
  PROVE  ApplyList(base, DiffAttestations(base, target)) = target
<1>1. CASE base = target
  BY <1>1, ApplyListCases DEF DiffAttestations
<1>2. CASE base # target /\ IsPrefix(base, target)
  BY <1>2, ApplyListCases, PrefixCompleted DEF DiffAttestations
<1>3. CASE base # target /\ ~IsPrefix(base, target)
  BY <1>3, ApplyListCases DEF DiffAttestations
<1> QED BY <1>1, <1>2, <1>3

\* diff_sync_committee and apply_sync_committee.
LEMMA CommitteeStep ==
  ASSUME NEW base, NEW target
  PROVE  ApplyList(base, DiffSyncCommittee(base, target)) = target
BY ApplyListCases DEF DiffSyncCommittee

\* diff_eth1_votes and apply_eth1_votes, on votes that are as many as the
\* base's: as many as the target's come out, and others only by an append,
\* to votes that are not the base's or that the target does not begin with.
LEMMA VotesStep ==
  ASSUME NEW base \in Seq(Votes), NEW target \in Seq(Votes),
         NEW votes \in Seq(Votes), Len(votes) = Len(base), NEW after,
         after = ApplyList(votes, DiffEth1Votes(base, target))
  PROVE  /\ after \in Seq(Votes)
         /\ Len(after) = Len(target)
         /\ after # target =>
              /\ DiffEth1Votes(base, target).kind = "Append"
              /\ Len(target) >= Len(base)
              /\ votes = base => ~IsPrefix(base, target)
<1>1. CASE Len(target) >= Len(base)
  <2>1. DiffEth1Votes(base, target) = Appended(After(target, Len(base)))
    BY <1>1 DEF DiffEth1Votes
  <2>2. after = votes \o After(target, Len(base))
    BY <2>1, ApplyListCases
  <2>3. /\ After(target, Len(base)) \in Seq(Votes)
        /\ Len(After(target, Len(base))) = Len(target) - Len(base)
    BY <1>1, AfterFacts
  <2>4. after \in Seq(Votes) /\ Len(after) = Len(target)
    <3> DEFINE new == After(target, Len(base))
    <3> HIDE DEF new
    <3>1. /\ votes \o new \in Seq(Votes)
          /\ Len(votes \o new) = Len(votes) + Len(new)
      BY <2>3, ConcatProperties DEF new
    <3> QED BY <2>2, <2>3, <3>1 DEF new
  <2>5. votes = base /\ IsPrefix(base, target) => after = target
    BY <2>2, PrefixCompleted
  <2> QED BY <1>1, <2>1, <2>4, <2>5 DEF Appended
<1>2. CASE Len(target) < Len(base)
  BY <1>2, ApplyListCases DEF DiffEth1Votes
<1> QED BY <1>1, <1>2

\* What diff_historical_log makes of the counts.
LEMMA LogDelta ==
  ASSUME NEW b, NEW t, NEW items \in Seq(Nat), NEW new \in Int,
         new = LogCount(t, activation) - LogCount(b, activation),
         DiffHistoricalLog(b, t, items, activation) # Panic
  PROVE  \/ new = 0 /\ DiffHistoricalLog(b, t, items, activation) = Unchanged
         \/ /\ new # 0 /\ new <= Len(items)
            /\ DiffHistoricalLog(b, t, items, activation)
                 = Appended(After(items, Len(items) - new))
BY DEF DiffHistoricalLog

\* Counts never fall.
LEMMA LogCountFacts ==
  ASSUME activation \in Activations, NEW s \in Nat, NEW t \in Nat,
         Start <= s, s <= t
  PROVE  /\ LogCount(s, activation) \in Nat /\ LogCount(t, activation) \in Nat
         /\ LogCount(s, activation) <= LogCount(t, activation)
<1>1. CASE activation = None
  BY <1>1, StartFacts, PeriodAssumption DEF LogCount
<1>2. CASE activation # None
  <2>1. /\ activation \in Nat /\ activation <= s
        /\ s - activation \in Nat /\ t - activation \in Nat
        /\ s - activation <= t - activation
    BY <1>2, ScheduleAssumption DEF Start
  <2>2. /\ LogCount(s, activation) = (s - activation) \div SlotsPerHistoricalPeriod
        /\ LogCount(t, activation) = (t - activation) \div SlotsPerHistoricalPeriod
    BY <1>2, <2>1, PeriodAssumption DEF LogCount
  <2> QED BY <2>1, <2>2, PeriodAssumption
<1> QED BY <1>1, <1>2

\* The log of a slot begins with the log of an earlier slot.
LEMMA LogAtPrefix ==
  ASSUME activation \in Activations, NEW s \in Nat, NEW t \in Nat,
         Start <= s, s <= t
  PROVE  Len(LogAt(s)) <= Len(LogAt(t)) /\ IsPrefix(LogAt(s), LogAt(t))
<1> DEFINE p == s \div SlotsPerHistoricalPeriod
           r == t \div SlotsPerHistoricalPeriod
           q == Start \div SlotsPerHistoricalPeriod
           earlier == LogAt(s)
           later == LogAt(t)
<1>1. p \in Nat /\ q \in Nat /\ r \in Nat /\ q <= p /\ p <= r /\ Start <= t
  BY StartFacts, PeriodAssumption
<1>2. /\ earlier \in Seq(Nat) /\ Len(earlier) = p - q
      /\ \A i \in 1..(p - q) : earlier[i] = q + i
      /\ later \in Seq(Nat) /\ Len(later) = r - q
      /\ \A i \in 1..(r - q) : later[i] = q + i
  BY <1>1, LogAtFacts
<1> HIDE DEF p, q, r, earlier, later
<1>3. Len(earlier) <= Len(later)
  BY <1>1, <1>2
<1>4. SubSeq(later, 1, Len(earlier)) = SubSeq(earlier, 1, Len(earlier))
  BY <1>1, <1>2
<1> QED BY <1>3, <1>4 DEF earlier, later, IsPrefix

\* The whole periods between two slots, and the ends of periods between them.
LEMMA PeriodsBetween ==
  ASSUME NEW a \in Nat, NEW s \in Nat, a <= s
  PROVE  (s - a) \div SlotsPerHistoricalPeriod
           = IF s % SlotsPerHistoricalPeriod >= a % SlotsPerHistoricalPeriod
             THEN s \div SlotsPerHistoricalPeriod
                    - a \div SlotsPerHistoricalPeriod
             ELSE s \div SlotsPerHistoricalPeriod
                    - a \div SlotsPerHistoricalPeriod - 1
<1> DEFINE P == SlotsPerHistoricalPeriod
<1>1. /\ P \in Nat \ {0} /\ s - a \in Nat
      /\ s % P \in 0..(P - 1) /\ a % P \in 0..(P - 1)
  BY PeriodAssumption
<1>2. s = P * (s \div P) + (s % P) /\ a = P * (a \div P) + (a % P)
  BY PeriodAssumption
<1> QED BY <1>1, <1>2, PeriodAssumption

\* A count is the length of the log at the slots AwayFromBoundary names, and never
\* above it for a log that starts at a fork.
LEMMA LogCountIsLength ==
  ASSUME activation \in Activations, NEW state, NEW s \in Nat, state.slot = s,
         Start <= s
  PROVE  /\ AwayFromBoundary(state) => LogCount(s, activation) = Len(LogAt(s))
         /\ activation # None => LogCount(s, activation) <= Len(LogAt(s))
<1> DEFINE P == SlotsPerHistoricalPeriod
<1>1. Len(LogAt(s)) = s \div P - Start \div P
  BY LogAtFacts
<1>2. CASE activation = None
  <2>1. Start = 0 /\ Start \div P = 0
    BY <1>2, PeriodAssumption DEF Start
  <2>2. AwayFromBoundary(state) => LogCount(s, activation) = s \div P
    BY <1>2, HistoricalPeriodFacts DEF LogCount, AwayFromBoundary
  <2>3. s \div P \in Int
    BY PeriodAssumption
  <2> HIDE DEF P
  <2> QED BY <1>1, <1>2, <2>1, <2>2, <2>3
<1>3. CASE activation # None
  <2>1. Start = activation /\ activation \in Nat /\ activation <= s
    BY <1>3, StartFacts DEF Start
  <2>2. LogCount(s, activation) = (s - activation) \div P
    BY <1>3, <2>1, PeriodAssumption DEF LogCount
  <2>3. (s - activation) \div P = IF s % P >= activation % P
                                  THEN s \div P - activation \div P
                                  ELSE s \div P - activation \div P - 1
    BY <2>1, PeriodsBetween
  <2>4. s \div P \in Int /\ activation \div P \in Int
    BY <2>1, PeriodAssumption
  <2>5. AwayFromBoundary(state) <=> s % P >= activation % P
    BY <1>3 DEF AwayFromBoundary
  <2> HIDE DEF P
  <2> QED BY <1>1, <2>1, <2>2, <2>3, <2>4, <2>5
<1> QED BY <1>2, <1>3

\* diff_historical_log and apply_historical_log, where the counts are the
\* lengths.
LEMMA LogStep ==
  ASSUME activation \in Activations, NEW b \in Nat, NEW t \in Nat,
         Start <= b, b <= t,
         LogCount(b, activation) = Len(LogAt(b)),
         LogCount(t, activation) = Len(LogAt(t))
  PROVE  ApplyList(LogAt(b), DiffHistoricalLog(b, t, LogAt(t), activation))
           = LogAt(t)
<1> DEFINE base == LogAt(b)
           target == LogAt(t)
           new == LogCount(t, activation) - LogCount(b, activation)
<1>1. /\ base \in Seq(Nat) /\ target \in Seq(Nat)
      /\ Len(base) <= Len(target) /\ IsPrefix(base, target)
  <2>1. Start \in Nat /\ Start <= t
    BY StartFacts
  <2> QED BY <2>1, LogAtFacts, LogAtPrefix
<1>2. /\ new \in Int /\ new = Len(target) - Len(base) /\ new <= Len(target)
      /\ Len(target) - new = Len(base)
  BY <1>1
<1> HIDE DEF base, target
<1>3. base \o After(target, Len(base)) = target
  BY <1>1, PrefixCompleted
<1>4. CASE new = 0
  <2>1. SubSeq(target, 1, Len(target)) = SubSeq(base, 1, Len(base))
    BY <1>1, <1>2, <1>4 DEF IsPrefix
  <2>2. base = target
    BY <1>1, <2>1, SubSeqFull
  <2> QED BY <1>4, <2>2, ApplyListCases DEF DiffHistoricalLog, base, target
<1>5. CASE new # 0
  <2>1. DiffHistoricalLog(b, t, target, activation)
          = Appended(After(target, Len(base)))
    <3> HIDE DEF new
    <3>1. ~(Len(target) < new)
      BY <1>1, <1>2
    <3> QED BY <1>2, <1>5, <3>1 DEF DiffHistoricalLog, new
  <2> QED BY <1>3, <2>1, ApplyListCases, SMTT(30) DEF base, target
<1> QED BY <1>4, <1>5

\* Whatever the counts, a delta that does not panic makes a list of roots
\* out of one.
LEMMA LogTyped ==
  ASSUME activation \in Activations, NEW b \in Nat, NEW t \in Nat,
         Start <= b, b <= t, NEW log \in Seq(Nat), NEW items \in Seq(Nat),
         DiffHistoricalLog(b, t, items, activation) # Panic
  PROVE  ApplyList(log, DiffHistoricalLog(b, t, items, activation)) \in Seq(Nat)
<1> DEFINE new == LogCount(t, activation) - LogCount(b, activation)
           delta == DiffHistoricalLog(b, t, items, activation)
           added == After(items, Len(items) - new)
<1>1. new \in Nat
  BY LogCountFacts
<1>2. \/ new = 0 /\ delta = Unchanged
      \/ new # 0 /\ new <= Len(items) /\ delta = Appended(added)
  BY <1>1, LogDelta
<1> HIDE DEF new, delta
<1>3. CASE new = 0 /\ delta = Unchanged
  BY <1>3, ApplyListCases DEF delta
<1>4. CASE new <= Len(items) /\ delta = Appended(added)
  <2>1. Len(items) - new \in 0..Len(items)
    BY <1>1, <1>4
  <2>2. added \in Seq(Nat)
    BY <2>1, AfterFacts
  <2> HIDE DEF added
  <2>3. log \o added \in Seq(Nat)
    BY <2>2, ConcatProperties
  <2>4. ApplyList(log, delta) = log \o added
    BY <1>4, ApplyListCases
  <2> QED BY <2>3, <2>4 DEF delta
<1> QED BY <1>2, <1>3, <1>4

-----------------------------------------------------------------------------
(* A list under a sequence of deltas.                                      *)

\* A delta that makes a list in V of every list in V.
Suits(delta, V) ==
  \/ delta = Unchanged
  \/ delta.kind = "Replace" /\ delta.items \in V
  \/ delta.kind = "Append" /\ \E T : V = Seq(T) /\ delta.items \in Seq(T)

LEMMA SuitedDeltaKeeps ==
  ASSUME NEW V, NEW items \in V, NEW delta, Suits(delta, V)
  PROVE  ApplyList(items, delta) \in V
<1>1. CASE delta = Unchanged
  BY <1>1, ApplyListCases
<1>2. CASE delta.kind = "Replace" /\ delta.items \in V
  BY <1>2 DEF ApplyList
<1>3. CASE delta.kind = "Append" /\ \E T : V = Seq(T) /\ delta.items \in Seq(T)
  <2>1. PICK T : V = Seq(T) /\ delta.items \in Seq(T)
    BY <1>3
  <2>2. items \o delta.items \in V
    BY <2>1, ConcatProperties
  <2> QED BY <1>3, <2>2 DEF ApplyList
<1> QED BY <1>1, <1>2, <1>3 DEF Suits

\* n deltas that do.
AllSuit(deltas, n, V) ==
  DOMAIN deltas = 1..n /\ \A k \in 1..n : Suits(deltas[k], V)

\* A list and what n deltas make of it, one after the other.
Run(run, n, V, deltas) ==
  /\ run \in [0..n -> V]
  /\ \A k \in 1..n : run[k] = ApplyList(run[k - 1], deltas[k])

\* The function that the fold of Rebuilt looks up.
FoldOf(items, deltas) ==
  CHOOSE g : g = [s \in SUBSET DOMAIN deltas |->
                    IF s = {} THEN items
                    ELSE ApplyList(g[s \ {Max(s)}], deltas[Max(s)])]

LEMMA RebuiltIsFold ==
  ASSUME NEW items, NEW deltas
  PROVE  Rebuilt(items, deltas) = FoldOf(items, deltas)[DOMAIN deltas]
BY DEF Rebuilt, FoldLeft, MapThenFoldSet, FoldOf

SolvesFold(g, items, n, deltas) ==
  \A s \in SUBSET (1..n) :
    g[s] = IF s = {} THEN items ELSE ApplyList(g[s \ {Max(s)}], deltas[Max(s)])

\* Its equation has a solution: every set leads to one with a smaller greatest
\* element.
LEMMA FoldEquation ==
  ASSUME NEW V, NEW items \in V, NEW n \in Nat, NEW deltas, AllSuit(deltas, n, V)
  PROVE  SolvesFold(FoldOf(items, deltas), items, n, deltas)
<1> DEFINE D == SUBSET (1..n)
           stop == {{}}
           rank == [s \in D |-> IF s = {} THEN 0 ELSE Max(s)]
           first == [s \in stop |-> items]
           prev == [s \in D \ stop |-> s \ {Max(s)}]
           next == [s \in D \ stop |->
                      [v \in V |-> ApplyList(v, deltas[Max(s)])]]
<1>1. DOMAIN deltas = 1..n /\ \A k \in 1..n : Suits(deltas[k], V)
  BY DEF AllSuit
<1>2. \A s \in D \ stop : Max(s) \in s /\ \A k \in s : k <= Max(s)
  <2> SUFFICES ASSUME NEW s \in D \ stop
               PROVE  Max(s) \in s /\ \A k \in s : k <= Max(s)
    OBVIOUS
  <2>1. s \subseteq 0..((n + 1) - 1) /\ s # {} /\ n + 1 \in Nat
    OBVIOUS
  <2> QED BY <2>1, GreatestExists
<1>3. \A s \in D \ stop : Max(s) \in 1..n /\ s \ {Max(s)} \in D
  BY <1>2
<1>4. rank \in [D -> Nat] /\ stop \in SUBSET D /\ first \in [stop -> V]
  <2>1. \A s \in D : (IF s = {} THEN 0 ELSE Max(s)) \in Nat
    BY <1>3
  <2> QED BY <2>1
<1>5. /\ prev \in [D \ stop -> D]
      /\ \A s \in D \ stop : rank[prev[s]] < rank[s]
  <2>1. ASSUME NEW s \in D \ stop
        PROVE  rank[s \ {Max(s)}] < rank[s]
    <3>1. rank[s] = Max(s) /\ Max(s) \in 1..n
      BY <1>3
    <3>2. CASE s \ {Max(s)} = {}
      <4>1. rank[{}] = 0
        OBVIOUS
      <4> QED BY <3>1, <3>2, <4>1
    <3>3. CASE s \ {Max(s)} # {}
      <4> DEFINE r == s \ {Max(s)}
      <4>1. r \in D \ stop /\ \A k \in r : k \in s /\ k # Max(s)
        BY <1>3, <3>3
      <4> HIDE DEF r
      <4>2. Max(r) \in r /\ rank[r] = Max(r) /\ Max(r) \in 1..n
        BY <1>2, <1>3, <4>1
      <4>3. Max(r) <= Max(s) /\ Max(r) # Max(s)
        BY <1>2, <4>1, <4>2
      <4> QED BY <3>1, <4>2, <4>3 DEF r
    <3> QED BY <3>2, <3>3
  <2> QED BY <1>3, <2>1
<1>6. next \in [D \ stop -> [V -> V]]
  <2>1. ASSUME NEW s \in D \ stop, NEW v \in V
        PROVE  ApplyList(v, deltas[Max(s)]) \in V
    BY <1>1, <1>3, SuitedDeltaKeeps
  <2> QED BY <2>1
<1>7. Recursion(D, V, rank, stop, first, prev, next)
  <2> HIDE DEF D, rank, stop, first, prev, next
  <2> QED BY <1>4, <1>5, <1>6 DEF Recursion
<1>8. PICK f \in [D -> V] : Solves(f, D, stop, first, prev, next)
  <2> HIDE DEF D, rank, stop, first, prev, next
  <2> QED BY <1>7, RecursionHasSolution
<1>9. ASSUME NEW s \in D
      PROVE  f[s] = IF s = {} THEN items
                    ELSE ApplyList(f[s \ {Max(s)}], deltas[Max(s)])
  <2>1. CASE s = {}
    BY <1>8, <2>1 DEF Solves
  <2>2. CASE s # {}
    <3>1. f[s] = next[s][f[prev[s]]] /\ prev[s] = s \ {Max(s)}
      BY <1>8, <2>2 DEF Solves
    <3>2. f[s \ {Max(s)}] \in V
      BY <1>3, <2>2
    <3> QED BY <2>2, <3>1, <3>2
  <2> QED BY <2>1, <2>2
<1>10. f = [s \in SUBSET DOMAIN deltas |->
             IF s = {} THEN items
             ELSE ApplyList(f[s \ {Max(s)}], deltas[Max(s)])]
  BY <1>1, <1>9
<1> DEFINE g == FoldOf(items, deltas)
<1>11. g = [s \in SUBSET DOMAIN deltas |->
              IF s = {} THEN items
              ELSE ApplyList(g[s \ {Max(s)}], deltas[Max(s)])]
  BY <1>10, Zenon DEF FoldOf
<1> HIDE DEF g
<1>12. ASSUME NEW s \in SUBSET (1..n)
       PROVE  g[s] = IF s = {} THEN items
                     ELSE ApplyList(g[s \ {Max(s)}], deltas[Max(s)])
  BY <1>1, <1>11
<1> QED BY <1>12 DEF g, SolvesFold

\* What Rebuilt makes of a list is the end of a run.
LEMMA RebuiltIsRun ==
  ASSUME NEW V, NEW items \in V, NEW n \in Nat, NEW deltas, AllSuit(deltas, n, V)
  PROVE  \E run : /\ Run(run, n, V, deltas)
                  /\ run[0] = items /\ run[n] = Rebuilt(items, deltas)
<1> DEFINE g == FoldOf(items, deltas)
           run == [k \in 0..n |-> g[1..k]]
<1>1. DOMAIN deltas = 1..n /\ \A k \in 1..n : Suits(deltas[k], V)
  BY DEF AllSuit
<1>2. SolvesFold(g, items, n, deltas)
  BY FoldEquation
<1> HIDE DEF g
<1>3. run[0] = items
  <2>1. 1..0 = {} /\ {} \in SUBSET (1..n)
    OBVIOUS
  <2>2. g[{}] = items
    BY <1>2, <2>1, Zenon DEF SolvesFold
  <2> QED BY <2>1, <2>2
<1>4. ASSUME NEW k \in 1..n
      PROVE  run[k] = ApplyList(run[k - 1], deltas[k])
  <2>1. /\ 1..k \in SUBSET (1..n) /\ 1..k # {}
        /\ k - 1 \in 0..n /\ (1..k) \ {k} = 1..(k - 1)
    OBVIOUS
  <2>2. Max(1..k) = k
    <3>1. 1..k \subseteq 0..((k + 1) - 1) /\ k + 1 \in Nat
      OBVIOUS
    <3>2. Max(1..k) \in 1..k /\ \A j \in 1..k : j <= Max(1..k)
      BY <2>1, <3>1, GreatestExists
    <3> QED BY <3>2
  <2>3. g[1..k] = ApplyList(g[(1..k) \ {Max(1..k)}], deltas[Max(1..k)])
    BY <1>2, <2>1 DEF SolvesFold
  <2>4. run[k] = g[1..k] /\ run[k - 1] = g[1..(k - 1)]
    BY <2>1
  <2> HIDE DEF run
  <2> QED BY <2>1, <2>2, <2>3, <2>4
<1> HIDE DEF run
<1> DEFINE S == {k \in Nat : k <= n => run[k] \in V}
<1>5. Nat \subseteq S
  <2>1. 0 \in S
    BY <1>3
  <2>2. ASSUME NEW k \in Nat, k \in S
        PROVE  k + 1 \in S
    <3> SUFFICES ASSUME k + 1 <= n PROVE run[k + 1] \in V
      OBVIOUS
    <3>1. k + 1 \in 1..n /\ (k + 1) - 1 = k /\ run[k] \in V
      BY <2>2
    <3>2. run[k + 1] = ApplyList(run[k], deltas[k + 1])
      BY <1>4, <3>1
    <3> QED BY <1>1, <3>1, <3>2, SuitedDeltaKeeps
  <2> HIDE DEF S
  <2> QED BY <2>1, <2>2, SetInduction
<1>6. run \in [0..n -> V]
  <2>1. \A k \in 0..n : run[k] \in V
    BY <1>5
  <2>2. run = [k \in 0..n |-> run[k]]
    BY DEF run
  <2> QED BY <2>1, <2>2
<1>7. run[n] = Rebuilt(items, deltas)
  BY <1>1, RebuiltIsFold DEF run, g
<1> QED BY <1>3, <1>4, <1>6, <1>7 DEF Run

\* Appending the same items to two lists keeps them as different as they are.
LEMMA AppendCancels ==
  ASSUME NEW T, NEW a \in Seq(T), NEW b \in Seq(T), NEW items \in Seq(T),
         a \o items = b \o items
  PROVE  a = b
<1>1. /\ Len(a \o items) = Len(a) + Len(items)
      /\ Len(b \o items) = Len(b) + Len(items)
      /\ \A k \in 1..Len(a) : (a \o items)[k] = a[k]
      /\ \A k \in 1..Len(b) : (b \o items)[k] = b[k]
  BY ConcatProperties
<1>2. Len(a) = Len(b) /\ \A k \in 1..Len(a) : a[k] = b[k]
  BY <1>1
<1> QED BY <1>2, SeqEqual

\* A delta that does not replace leaves a list alone only if it has no items.
LEMMA InertDelta ==
  ASSUME NEW V, NEW items \in V, NEW delta, Suits(delta, V),
         delta.kind # "Replace"
  PROVE  ApplyList(items, delta) = items <=> delta.items = <<>>
<1>1. CASE delta = Unchanged
  BY <1>1, ApplyListCases DEF Unchanged
<1>2. CASE delta.kind = "Append" /\ \E T : V = Seq(T) /\ delta.items \in Seq(T)
  <2>1. PICK T : V = Seq(T) /\ delta.items \in Seq(T)
    BY <1>2
  <2>2. ApplyList(items, delta) = items \o delta.items
    BY <1>2 DEF ApplyList
  <2>3. items \in Seq(T) /\ Len(items \o delta.items) = Len(items) + Len(delta.items)
    BY <2>1, ConcatProperties
  <2>4. CASE delta.items = <<>>
    BY <2>2, <2>3, <2>4, ConcatEmptySeq
  <2>5. CASE delta.items # <<>>
    <3>1. Len(delta.items) # 0 /\ Len(delta.items) \in Nat /\ Len(items) \in Nat
      BY <2>1, <2>3, <2>5, EmptySeq
    <3> QED BY <2>2, <2>3, <2>5, <3>1
  <2> QED BY <2>4, <2>5
<1> QED BY <1>1, <1>2 DEF Suits

\* A delta makes two lists equal only if they are or it replaces them.
LEMMA OneDeltaMeets ==
  ASSUME NEW V, NEW a \in V, NEW b \in V, NEW delta, Suits(delta, V)
  PROVE  ApplyList(a, delta) = ApplyList(b, delta)
           <=> a = b \/ delta.kind = "Replace"
<1>1. CASE delta = Unchanged
  <2>1. ApplyList(a, delta) = a /\ ApplyList(b, delta) = b
    BY <1>1, ApplyListCases
  <2>2. delta.kind = "Unchanged"
    BY <1>1 DEF Unchanged
  <2> QED BY <2>1, <2>2
<1>2. CASE delta.kind = "Replace"
  BY <1>2 DEF ApplyList
<1>3. CASE delta.kind = "Append" /\ \E T : V = Seq(T) /\ delta.items \in Seq(T)
  <2>1. PICK T : V = Seq(T) /\ delta.items \in Seq(T)
    BY <1>3
  <2>2. /\ ApplyList(a, delta) = a \o delta.items
        /\ ApplyList(b, delta) = b \o delta.items
    BY <1>3 DEF ApplyList
  <2>3. a \o delta.items = b \o delta.items => a = b
    BY <2>1, AppendCancels
  <2> QED BY <1>3, <2>2, <2>3
<1> QED BY <1>1, <1>2, <1>3 DEF Suits

\* The l deltas after place a of one sequence and place b of another.
Shared(d1, a, d2, b, l, V) ==
  \A k \in 1..l : Suits(d1[a + k], V) /\ d2[b + k] = d1[a + k]

\* One of the l deltas after place a replaces.
SomeReplaces(deltas, a, l) == \E k \in 1..l : deltas[a + k].kind = "Replace"

\* Two runs, from some place in each, under the same deltas: they end equal
\* only if they begin equal or one of the deltas replaces.
LEMMA RunsMeet ==
  ASSUME NEW V, NEW n1 \in Nat, NEW n2 \in Nat, NEW d1, NEW d2, NEW r, NEW s,
         Run(r, n1, V, d1), Run(s, n2, V, d2),
         NEW a \in Nat, NEW b \in Nat, NEW l \in Nat,
         a + l <= n1, b + l <= n2, Shared(d1, a, d2, b, l, V)
  PROVE  r[a + l] = s[b + l] <=> r[a] = s[b] \/ SomeReplaces(d1, a, l)
<1> USE DEF Shared, SomeReplaces
<1> DEFINE replaced(m) == \E k \in 1..m : d1[a + k].kind = "Replace"
           S == {m \in Nat : m <= l => (r[a + m] = s[b + m]
                                          <=> r[a] = s[b] \/ replaced(m))}
<1>1. 0 \in S
  <2>1. a + 0 = a /\ b + 0 = b
    OBVIOUS
  <2> QED BY <2>1
<1>2. ASSUME NEW m \in Nat, m \in S
      PROVE  m + 1 \in S
  <2> SUFFICES ASSUME m + 1 <= l
               PROVE  r[a + (m + 1)] = s[b + (m + 1)]
                        <=> r[a] = s[b] \/ replaced(m + 1)
    OBVIOUS
  <2>1. /\ m + 1 \in 1..l /\ a + m \in 0..n1 /\ b + m \in 0..n2
        /\ a + (m + 1) \in 1..n1 /\ b + (m + 1) \in 1..n2
        /\ (a + (m + 1)) - 1 = a + m /\ (b + (m + 1)) - 1 = b + m
    OBVIOUS
  <2>2. r[a + m] \in V /\ s[b + m] \in V
    BY <2>1 DEF Run
  <2>3. /\ r[a + (m + 1)] = ApplyList(r[a + m], d1[a + (m + 1)])
        /\ s[b + (m + 1)] = ApplyList(s[b + m], d1[a + (m + 1)])
    BY <2>1 DEF Run
  <2>4. r[a + (m + 1)] = s[b + (m + 1)]
          <=> r[a + m] = s[b + m] \/ d1[a + (m + 1)].kind = "Replace"
    BY <2>1, <2>2, <2>3, OneDeltaMeets
  <2>5. r[a + m] = s[b + m] <=> r[a] = s[b] \/ replaced(m)
    BY <1>2, <2>1
  <2>6. replaced(m + 1) <=> replaced(m) \/ d1[a + (m + 1)].kind = "Replace"
    <3>1. \A k : k \in 1..(m + 1) <=> k \in 1..m \/ k = m + 1
      OBVIOUS
    <3> QED BY <3>1
  <2> HIDE DEF replaced
  <2> QED BY <2>4, <2>5, <2>6
<1>3. Nat \subseteq S
  <2> HIDE DEF S
  <2> QED BY <1>1, <1>2, SetInduction
<1> QED BY <1>3

\* A replacement after the m-th delta, counted from there or from the first.
LEMMA LaterReplacement ==
  ASSUME NEW n \in Nat, NEW m \in 0..n, NEW deltas
  PROVE  SomeReplaces(deltas, m, n - m)
           <=> \E l \in (m + 1)..n : deltas[l].kind = "Replace"
<1>1. ASSUME NEW k \in 1..(n - m), deltas[m + k].kind = "Replace"
      PROVE  \E l \in (m + 1)..n : deltas[l].kind = "Replace"
  <2>1. m + k \in (m + 1)..n
    OBVIOUS
  <2> QED BY <1>1, <2>1
<1>2. ASSUME NEW l \in (m + 1)..n, deltas[l].kind = "Replace"
      PROVE  \E k \in 1..(n - m) : deltas[m + k].kind = "Replace"
  <2>1. l - m \in 1..(n - m) /\ m + (l - m) = l
    OBVIOUS
  <2> QED BY <1>2, <2>1
<1> QED BY <1>1, <1>2 DEF SomeReplaces

\* A sequence without its m-th element, and with its m-th element twice.
LEMMA RemoveAtFacts ==
  ASSUME NEW D, NEW s \in Seq(D), NEW m \in 1..Len(s)
  PROVE  /\ RemoveAt(s, m) \in Seq(D) /\ Len(RemoveAt(s, m)) = Len(s) - 1
         /\ \A k \in 1..(Len(s) - 1) :
              RemoveAt(s, m)[k] = IF k < m THEN s[k] ELSE s[k + 1]
<1> DEFINE before == SubSeq(s, 1, m - 1)
           after == SubSeq(s, m + 1, Len(s))
<1>1. /\ before \in Seq(D) /\ Len(before) = m - 1
      /\ \A k \in 1..(m - 1) : before[k] = s[k]
  OBVIOUS
<1>2. /\ after \in Seq(D) /\ Len(after) = Len(s) - m
      /\ \A k \in 1..(Len(s) - m) : after[k] = s[m + k]
  OBVIOUS
<1>3. RemoveAt(s, m) = before \o after
  BY DEF RemoveAt
<1> HIDE DEF before, after
<1>4. /\ before \o after \in Seq(D)
      /\ Len(before \o after) = Len(before) + Len(after)
      /\ \A k \in 1..(Len(before) + Len(after)) :
           (before \o after)[k] = IF k <= Len(before) THEN before[k]
                                  ELSE after[k - Len(before)]
  BY <1>1, <1>2, ConcatProperties
<1>5. ASSUME NEW k \in 1..(Len(s) - 1)
      PROVE  (before \o after)[k] = IF k < m THEN s[k] ELSE s[k + 1]
  <2>1. CASE k < m
    BY <1>1, <1>2, <1>4, <2>1
  <2>2. CASE ~(k < m)
    <3>1. /\ k - (m - 1) \in 1..(Len(s) - m) /\ m + (k - (m - 1)) = k + 1
          /\ ~(k <= m - 1) /\ k \in 1..((m - 1) + (Len(s) - m))
      BY <2>2
    <3> QED BY <1>1, <1>2, <1>4, <2>2, <3>1
  <2> QED BY <2>1, <2>2
<1> QED BY <1>1, <1>2, <1>3, <1>4, <1>5

LEMMA InsertAtFacts ==
  ASSUME NEW D, NEW s \in Seq(D), NEW m \in 1..Len(s), NEW e \in D
  PROVE  /\ InsertAt(s, m, e) \in Seq(D)
         /\ Len(InsertAt(s, m, e)) = Len(s) + 1
         /\ \A k \in 1..(Len(s) + 1) :
              InsertAt(s, m, e)[k]
                = IF k < m THEN s[k] ELSE IF k = m THEN e ELSE s[k - 1]
<1> DEFINE before == SubSeq(s, 1, m - 1)
           after == SubSeq(s, m, Len(s))
           upto == before \o <<e>>
<1>1. /\ before \in Seq(D) /\ Len(before) = m - 1
      /\ \A k \in 1..(m - 1) : before[k] = s[k]
  OBVIOUS
<1>2. /\ after \in Seq(D) /\ Len(after) = Len(s) - m + 1
      /\ \A k \in 1..(Len(s) - m + 1) : after[k] = s[m + k - 1]
  OBVIOUS
<1>3. InsertAt(s, m, e) = upto \o after
  BY DEF InsertAt
<1> HIDE DEF before, after
<1>4. /\ upto \in Seq(D) /\ Len(upto) = m
      /\ \A k \in 1..m : upto[k] = IF k < m THEN s[k] ELSE e
  <2>1. /\ <<e>> \in Seq(D) /\ Len(<<e>>) = 1 /\ <<e>>[1] = e
    OBVIOUS
  <2> DEFINE one == <<e>>
  <2> HIDE DEF one
  <2>2. /\ before \o one \in Seq(D)
        /\ Len(before \o one) = Len(before) + Len(one)
        /\ \A k \in 1..(Len(before) + Len(one)) :
             (before \o one)[k] = IF k <= Len(before) THEN before[k]
                                  ELSE one[k - Len(before)]
    BY <1>1, <2>1, ConcatProperties DEF one
  <2>3. Len(one) = 1 /\ one[1] = e
    BY <2>1 DEF one
  <2>4. ASSUME NEW k \in 1..m
        PROVE  (before \o one)[k] = IF k < m THEN s[k] ELSE e
    <3>1. CASE k < m
      BY <1>1, <2>2, <2>3, <3>1
    <3>2. CASE k = m
      BY <1>1, <2>2, <2>3, <3>2
    <3>3. k < m \/ k = m
      OBVIOUS
    <3> QED BY <3>1, <3>2, <3>3, Zenon
  <2> QED BY <1>1, <2>2, <2>3, <2>4 DEF one
<1> HIDE DEF upto
<1>5. /\ upto \o after \in Seq(D)
      /\ Len(upto \o after) = Len(upto) + Len(after)
      /\ \A k \in 1..(Len(upto) + Len(after)) :
           (upto \o after)[k] = IF k <= Len(upto) THEN upto[k]
                                ELSE after[k - Len(upto)]
  BY <1>2, <1>4, ConcatProperties
<1>6. ASSUME NEW k \in 1..(Len(s) + 1)
      PROVE  (upto \o after)[k]
               = IF k < m THEN s[k] ELSE IF k = m THEN e ELSE s[k - 1]
  <2>1. CASE k <= m
    BY <1>2, <1>4, <1>5, <2>1
  <2>2. CASE ~(k <= m)
    <3>1. /\ k - m \in 1..(Len(s) - m + 1) /\ m + (k - m) - 1 = k - 1
          /\ ~(k < m) /\ k # m /\ k \in 1..(m + (Len(s) - m + 1))
      BY <2>2
    <3> QED BY <1>2, <1>4, <1>5, <2>2, <3>1
  <2> QED BY <2>1, <2>2
<1> QED BY <1>2, <1>3, <1>4, <1>5, <1>6

\* A run without its m-th delta ends where it ended only if a later delta
\* replaces or the lost one did nothing.
LEMMA LostDelta ==
  ASSUME NEW V, NEW D, NEW deltas \in Seq(D), NEW r, NEW m \in 1..Len(deltas),
         \A k \in 1..Len(deltas) : Suits(deltas[k], V),
         Run(r, Len(deltas), V, deltas),
         deltas[m].kind = "Replace" => r[m] # r[m - 1]
  PROVE  Rebuilt(r[0], RemoveAt(deltas, m)) = r[Len(deltas)]
           <=> \/ \E l \in (m + 1)..Len(deltas) : deltas[l].kind = "Replace"
               \/ deltas[m].kind # "Replace" /\ deltas[m].items = <<>>
<1> DEFINE n == Len(deltas)
           received == RemoveAt(deltas, m)
<1>1. /\ n \in Nat /\ m \in 1..n
      /\ n - 1 \in Nat /\ m - 1 \in Nat /\ n - m \in Nat
      /\ m - 1 \in 0..n /\ m \in 0..n /\ 0 \in 0..n
  OBVIOUS
<1>2. /\ received \in Seq(D) /\ Len(received) = n - 1
      /\ \A k \in 1..(n - 1) :
           received[k] = IF k < m THEN deltas[k] ELSE deltas[k + 1]
  BY RemoveAtFacts
<1> HIDE DEF n, received
<1>3. \A k \in 1..n : Suits(deltas[k], V)
  BY DEF n
<1>4. Run(r, n, V, deltas)
  BY DEF n
<1>5. AllSuit(received, n - 1, V)
  <2>1. \A k \in 1..(n - 1) : k \in 1..n /\ k + 1 \in 1..n
    BY <1>1
  <2> QED BY <1>2, <1>3, <2>1 DEF AllSuit
<1>6. r[0] \in V /\ r[m - 1] \in V /\ r[m] = ApplyList(r[m - 1], deltas[m])
  BY <1>1, <1>4 DEF Run
<1>7. PICK g : /\ Run(g, n - 1, V, received)
               /\ g[0] = r[0] /\ g[n - 1] = Rebuilt(r[0], received)
  BY <1>1, <1>5, <1>6, RebuiltIsRun
\* They agree before the lost delta.
<1>8. g[m - 1] = r[m - 1]
  <2>1. /\ 0 + (m - 1) <= n /\ 0 + (m - 1) <= n - 1 /\ 0 \in Nat
        /\ 0 + (m - 1) = m - 1
        /\ \A k \in 1..(m - 1) :
             k \in 1..(n - 1) /\ k < m /\ 0 + k = k /\ k \in 1..n
    BY <1>1
  <2>2. Shared(deltas, 0, received, 0, m - 1, V)
    BY <1>2, <1>3, <2>1 DEF Shared
  <2>3. r[0 + (m - 1)] = g[0 + (m - 1)]
    BY <1>1, <1>4, <1>7, <2>1, <2>2, RunsMeet
  <2> QED BY <2>1, <2>3
\* After it they meet if they have met or a delta replaces.
<1>9. g[n - 1] = r[n]
        <=> r[m] = r[m - 1]
            \/ \E l \in (m + 1)..n : deltas[l].kind = "Replace"
  <2>1. /\ m + (n - m) <= n /\ (m - 1) + (n - m) <= n - 1 /\ m \in Nat
        /\ m + (n - m) = n /\ (m - 1) + (n - m) = n - 1
        /\ \A k \in 1..(n - m) :
             /\ (m - 1) + k \in 1..(n - 1) /\ ~((m - 1) + k < m)
             /\ ((m - 1) + k) + 1 = m + k /\ m + k \in 1..n
    BY <1>1
  <2>2. Shared(deltas, m, received, m - 1, n - m, V)
    BY <1>2, <1>3, <2>1 DEF Shared
  <2>3. r[m + (n - m)] = g[(m - 1) + (n - m)]
          <=> r[m] = g[m - 1] \/ SomeReplaces(deltas, m, n - m)
    BY <1>1, <1>4, <1>7, <2>1, <2>2, RunsMeet
  <2>4. SomeReplaces(deltas, m, n - m)
          <=> \E l \in (m + 1)..n : deltas[l].kind = "Replace"
    BY <1>1, LaterReplacement, Zenon
  <2> QED BY <1>8, <2>1, <2>3, <2>4
<1>10. r[m] = r[m - 1]
         <=> deltas[m].kind # "Replace" /\ deltas[m].items = <<>>
  <2>1. CASE deltas[m].kind = "Replace"
    BY <2>1
  <2>2. CASE deltas[m].kind # "Replace"
    <3>1. Suits(deltas[m], V)
      BY <1>1, <1>3
    <3> QED BY <1>6, <2>2, <3>1, InertDelta
  <2> QED BY <2>1, <2>2
<1> QED BY <1>7, <1>9, <1>10 DEF n, received

\* A run that meets its m-th delta twice ends where it ended only if that or
\* a later delta replaces or the repeated one does nothing.
LEMMA RepeatedDelta ==
  ASSUME NEW V, NEW D, NEW deltas \in Seq(D), NEW r, NEW m \in 1..Len(deltas),
         \A k \in 1..Len(deltas) : Suits(deltas[k], V),
         Run(r, Len(deltas), V, deltas)
  PROVE  Rebuilt(r[0], InsertAt(deltas, m, deltas[m])) = r[Len(deltas)]
           <=> \/ \E l \in (m + 1)..Len(deltas) : deltas[l].kind = "Replace"
               \/ deltas[m].kind # "Replace" /\ deltas[m].items = <<>>
               \/ deltas[m].kind = "Replace"
<1> DEFINE n == Len(deltas)
           received == InsertAt(deltas, m, deltas[m])
<1>1. /\ n \in Nat /\ m \in 1..n
      /\ n + 1 \in Nat /\ m - 1 \in Nat /\ n - m \in Nat
      /\ m \in 0..n /\ 0 \in 0..n /\ m \in 1..(n + 1) /\ m + 1 \in 1..(n + 1)
      /\ m \in Nat /\ (m + 1) - 1 = m /\ ~(m + 1 < m) /\ m + 1 # m
      /\ m - 1 \in 0..n
  OBVIOUS
<1>2. /\ received \in Seq(D) /\ Len(received) = n + 1
      /\ \A k \in 1..(n + 1) :
           received[k] = IF k < m THEN deltas[k]
                         ELSE IF k = m THEN deltas[m] ELSE deltas[k - 1]
  <2>1. deltas[m] \in D
    OBVIOUS
  <2> QED BY <2>1, InsertAtFacts
<1> HIDE DEF n, received
<1>3. \A k \in 1..n : Suits(deltas[k], V)
  BY DEF n
<1>4. Run(r, n, V, deltas)
  BY DEF n
<1>5. AllSuit(received, n + 1, V)
  <2>1. ASSUME NEW k \in 1..(n + 1)
        PROVE  Suits(received[k], V)
    <3>1. CASE k < m
      <4>1. k \in 1..n
        BY <1>1, <3>1
      <4> QED BY <1>2, <1>3, <3>1, <4>1
    <3>2. CASE k = m
      BY <1>1, <1>2, <1>3, <3>2
    <3>3. CASE ~(k < m) /\ k # m
      <4>1. k - 1 \in 1..n
        BY <1>1, <3>3
      <4> QED BY <1>2, <1>3, <3>3, <4>1
    <3> QED BY <3>1, <3>2, <3>3
  <2> QED BY <1>2, <2>1 DEF AllSuit
<1>6. r[0] \in V /\ r[m - 1] \in V /\ r[m] \in V
        /\ r[m] = ApplyList(r[m - 1], deltas[m])
  BY <1>1, <1>4 DEF Run
<1>7. PICK g : /\ Run(g, n + 1, V, received)
               /\ g[0] = r[0] /\ g[n + 1] = Rebuilt(r[0], received)
  BY <1>1, <1>5, <1>6, RebuiltIsRun
\* They agree until the delta is repeated.
<1>8. g[m] = r[m]
  <2>1. /\ 0 + m <= n /\ 0 + m <= n + 1 /\ 0 \in Nat /\ 0 + m = m
        /\ \A k \in 1..m : /\ k \in 1..(n + 1) /\ k \in 1..n /\ 0 + k = k
                           /\ k < m \/ k = m
    BY <1>1
  <2>2. Shared(deltas, 0, received, 0, m, V)
    BY <1>2, <1>3, <2>1 DEF Shared
  <2>3. r[0 + m] = g[0 + m]
    BY <1>1, <1>4, <1>7, <2>1, <2>2, RunsMeet
  <2> QED BY <2>1, <2>3
<1>9. g[m + 1] = ApplyList(r[m], deltas[m])
  <2>1. received[m + 1] = deltas[m]
    BY <1>1, <1>2
  <2> QED BY <1>1, <1>7, <1>8, <2>1 DEF Run
\* After it they meet if they have met or a delta replaces.
<1>10. g[n + 1] = r[n]
         <=> r[m] = g[m + 1]
             \/ \E l \in (m + 1)..n : deltas[l].kind = "Replace"
  <2>1. /\ m + (n - m) <= n /\ (m + 1) + (n - m) <= n + 1 /\ m + 1 \in Nat
        /\ m + (n - m) = n /\ (m + 1) + (n - m) = n + 1
        /\ \A k \in 1..(n - m) :
             /\ (m + 1) + k \in 1..(n + 1) /\ ~((m + 1) + k < m)
             /\ (m + 1) + k # m
             /\ ((m + 1) + k) - 1 = m + k /\ m + k \in 1..n
    BY <1>1
  <2>2. Shared(deltas, m, received, m + 1, n - m, V)
    BY <1>2, <1>3, <2>1 DEF Shared
  <2>3. r[m + (n - m)] = g[(m + 1) + (n - m)]
          <=> r[m] = g[m + 1] \/ SomeReplaces(deltas, m, n - m)
    BY <1>1, <1>4, <1>7, <2>1, <2>2, RunsMeet
  <2>4. SomeReplaces(deltas, m, n - m)
          <=> \E l \in (m + 1)..n : deltas[l].kind = "Replace"
    BY <1>1, LaterReplacement, Zenon
  <2> QED BY <2>1, <2>3, <2>4
<1>11. r[m] = g[m + 1]
         <=> \/ deltas[m].kind # "Replace" /\ deltas[m].items = <<>>
             \/ deltas[m].kind = "Replace"
  <2>1. CASE deltas[m].kind = "Replace"
    <3>1. ApplyList(r[m], deltas[m]) = deltas[m].items
            /\ ApplyList(r[m - 1], deltas[m]) = deltas[m].items
      BY <2>1 DEF ApplyList
    <3> QED BY <1>6, <1>9, <2>1, <3>1
  <2>2. CASE deltas[m].kind # "Replace"
    <3>1. Suits(deltas[m], V)
      BY <1>1, <1>3
    <3>2. ApplyList(r[m], deltas[m]) = r[m] <=> deltas[m].items = <<>>
      BY <1>6, <2>2, <3>1, InertDelta
    <3> QED BY <1>9, <2>2, <3>2
  <2> QED BY <2>1, <2>2
<1> QED BY <1>7, <1>10, <1>11 DEF n, received

\* One more delta is applied to what the others have rebuilt.
LEMMA RebuiltExtends ==
  ASSUME NEW V, NEW items \in V, NEW n \in Nat, NEW before, NEW after,
         AllSuit(before, n, V), AllSuit(after, n + 1, V),
         \A k \in 1..n : after[k] = before[k]
  PROVE  Rebuilt(items, after) = ApplyList(Rebuilt(items, before), after[n + 1])
<1>1. PICK r : /\ Run(r, n, V, before)
               /\ r[0] = items /\ r[n] = Rebuilt(items, before)
  BY RebuiltIsRun
<1>2. n + 1 \in Nat
  OBVIOUS
<1>3. PICK s : /\ Run(s, n + 1, V, after)
               /\ s[0] = items /\ s[n + 1] = Rebuilt(items, after)
  BY <1>2, RebuiltIsRun
<1>4. Shared(before, 0, after, 0, n, V)
  BY DEF Shared, AllSuit
<1>5. 0 \in Nat /\ 0 + n <= n /\ 0 + n <= n + 1 /\ 0 + n = n
  OBVIOUS
<1>6. r[0 + n] = s[0 + n] <=> r[0] = s[0] \/ SomeReplaces(before, 0, n)
  BY <1>1, <1>2, <1>3, <1>4, <1>5, RunsMeet
<1>7. r[n] = s[n]
  BY <1>1, <1>3, <1>5, <1>6
<1>8. s[n + 1] = ApplyList(s[n], after[n + 1])
  <2>1. n + 1 \in 1..(n + 1) /\ (n + 1) - 1 = n
    OBVIOUS
  <2> QED BY <1>3, <2>1 DEF Run
<1> QED BY <1>1, <1>3, <1>7, <1>8

\* Without deltas the list stays.
LEMMA NothingRebuilt ==
  ASSUME NEW items
  PROVE  Rebuilt(items, <<>>) = items
<1>1. AllSuit(<<>>, 0, {items})
  BY DEF AllSuit
<1>2. PICK r : /\ Run(r, 0, {items}, <<>>)
               /\ r[0] = items /\ r[0] = Rebuilt(items, <<>>)
  <2>1. items \in {items} /\ 0 \in Nat
    OBVIOUS
  <2> QED BY <1>1, <2>1, RebuiltIsRun
<1> QED BY <1>2

-----------------------------------------------------------------------------
(* The lists of a state and of a delta.                                    *)

\* What a list of a state holds.
Values(list) ==
  IF list[1] = "votes" THEN Seq(Votes)
  ELSE IF list[1] = "log" THEN Seq(Nat)
  ELSE IF list[1] = "committees" THEN Committees
  ELSE Seq(Attestations)

LEMMA PartTyped ==
  ASSUME NEW state \in States, Len(state.committees) = 2, NEW list \in Lists
  PROVE  Part(state, list) \in Values(list)
<1>1. /\ state.votes \in Seq(Votes) /\ state.log \in Seq(Nat)
      /\ state.previous \in Seq(Attestations)
      /\ state.current \in Seq(Attestations)
      /\ state.committees \in Seq(Committees)
  BY DEF States
<1>2. \A i \in 1..2 : state.committees[i] \in Committees
  BY <1>1
<1>3. \A i \in {1, 2} : i \in 1..2
  OBVIOUS
<1> QED BY <1>1, <1>2, <1>3 DEF Lists, Part, Values

\* apply treats every list as ApplyList does.
LEMMA PartOfApply ==
  ASSUME NEW state, NEW delta, NEW list \in Lists
  PROVE  Part(Apply(state, delta), list)
           = ApplyList(Part(state, list), Part(delta, list))
<1> DEFINE after == Apply(state, delta)
<1>1. /\ after.votes = ApplyList(state.votes, delta.votes)
      /\ after.log = ApplyList(state.log, delta.log)
      /\ after.previous = ApplyList(state.previous, delta.previous)
      /\ after.current = ApplyList(state.current, delta.current)
      /\ \A i \in 1..2 :
           after.committees[i]
             = ApplyList(state.committees[i], delta.committees[i])
  BY DEF Apply
<1> HIDE DEF after
<1>2. \A i \in {1, 2} : i \in 1..2
  OBVIOUS
<1> QED BY <1>1, <1>2 DEF Lists, Part, after

\* The deltas of two states of the client suit the lists, and a replacement
\* changes what it replaces: votes in their number.
LEMMA DeltasSuit ==
  ASSUME activation \in Activations,
         NEW base \in States, NEW target \in States,
         Scheduled(base), Scheduled(target), Follows(base, target),
         Create(base, target).log # Panic, NEW list \in Lists
  PROVE  LET delta == Part(Create(base, target), list) IN
         /\ Suits(delta, Values(list))
         /\ delta.kind = "Replace" =>
              /\ list # <<"log", 0>>
              /\ list = <<"votes", 0>> => Len(base.votes) # Len(target.votes)
              /\ list # <<"votes", 0>> => Part(base, list) # Part(target, list)
<1> DEFINE made == Create(base, target)
           delta == Part(made, list)
<1>1. /\ base.votes \in Seq(Votes) /\ target.votes \in Seq(Votes)
      /\ base.log \in Seq(Nat) /\ target.log \in Seq(Nat)
      /\ base.previous \in Seq(Attestations)
      /\ target.previous \in Seq(Attestations)
      /\ base.current \in Seq(Attestations)
      /\ target.current \in Seq(Attestations)
      /\ target.committees \in Seq(Committees) /\ Len(target.committees) = 2
      /\ base.slot \in Nat /\ target.slot \in Nat /\ base.slot <= target.slot
  BY DEF States, Scheduled, Follows
<1>2. Start <= base.slot
  BY <1>1 DEF Scheduled, Start
<1>3. /\ made.votes = DiffEth1Votes(base.votes, target.votes)
      /\ made.log = DiffHistoricalLog(base.slot, target.slot, target.log,
                                      activation)
      /\ made.previous = DiffAttestations(base.previous, target.previous)
      /\ made.current = DiffAttestations(base.current, target.current)
      /\ \A i \in 1..2 :
           made.committees[i]
             = DiffSyncCommittee(base.committees[i], target.committees[i])
  BY DEF Create
<1> HIDE DEF made
<1>4. ASSUME NEW T, NEW items \in Seq(T)
      PROVE  /\ Suits(Appended(items), Seq(T))
             /\ Suits(Replaced(items), Seq(T))
             /\ Appended(items).kind # "Replace"
  BY DEF Suits, Appended, Replaced
<1>5. \A V : Suits(Unchanged, V) /\ Unchanged.kind # "Replace"
  BY DEF Suits, Unchanged
<1>6. CASE list = <<"votes", 0>>
  <2>1. /\ delta = DiffEth1Votes(base.votes, target.votes)
        /\ Values(list) = Seq(Votes)
    BY <1>3, <1>6 DEF Part, Values
  <2>2. CASE Len(target.votes) >= Len(base.votes)
    <3>1. delta = Appended(After(target.votes, Len(base.votes)))
      BY <2>1, <2>2 DEF DiffEth1Votes
    <3>2. After(target.votes, Len(base.votes)) \in Seq(Votes)
      BY <1>1, <2>2, AfterFacts
    <3> HIDE DEF delta
    <3> QED BY <1>4, <2>1, <3>1, <3>2 DEF delta, made
  <2>3. CASE ~(Len(target.votes) >= Len(base.votes))
    <3>1. delta = Replaced(target.votes)
      BY <2>1, <2>3 DEF DiffEth1Votes
    <3>2. Len(base.votes) # Len(target.votes)
      BY <1>1, <2>3
    <3>3. list # <<"log", 0>>
      BY <1>6
    <3> HIDE DEF delta
    <3> QED BY <1>1, <1>4, <1>6, <2>1, <3>1, <3>2, <3>3 DEF delta, made
  <2> QED BY <2>2, <2>3
<1>7. CASE list = <<"log", 0>>
  <2>1. delta = made.log /\ Values(list) = Seq(Nat)
    BY <1>7 DEF Part, Values
  <2> DEFINE new == LogCount(target.slot, activation)
                      - LogCount(base.slot, activation)
             added == After(target.log, Len(target.log) - new)
  <2>2. new \in Nat
    BY <1>1, <1>2, LogCountFacts
  <2>3. \/ new = 0 /\ made.log = Unchanged
        \/ new # 0 /\ new <= Len(target.log) /\ made.log = Appended(added)
    <3>1. made.log # Panic
      BY DEF made
    <3> QED BY <1>1, <1>3, <2>2, <3>1, LogDelta, SMTT(30)
  <2> HIDE DEF new
  <2>4. CASE made.log = Unchanged
    BY <1>5, <2>1, <2>4 DEF made
  <2>5. CASE new <= Len(target.log) /\ made.log = Appended(added)
    <3>1. Len(target.log) - new \in 0..Len(target.log)
      BY <1>1, <2>2, <2>5
    <3>2. added \in Seq(Nat)
      BY <1>1, <3>1, AfterFacts
    <3> HIDE DEF added
    <3> QED BY <1>4, <2>1, <2>5, <3>2 DEF made
  <2> QED BY <2>3, <2>4, <2>5
\* The attestations of either epoch.
<1>8. ASSUME NEW b \in Seq(Attestations), NEW t \in Seq(Attestations)
      PROVE  /\ Suits(DiffAttestations(b, t), Seq(Attestations))
             /\ DiffAttestations(b, t).kind = "Replace" => b # t
  <2>1. CASE b = t
    BY <1>5, <2>1 DEF DiffAttestations
  <2>2. CASE b # t /\ IsPrefix(b, t)
    <3>1. Len(b) \in 0..Len(t)
      BY <2>2 DEF IsPrefix
    <3>2. After(t, Len(b)) \in Seq(Attestations)
      BY <3>1, AfterFacts
    <3> QED BY <1>4, <2>2, <3>2 DEF DiffAttestations
  <2>3. CASE b # t /\ ~IsPrefix(b, t)
    BY <1>4, <2>3 DEF DiffAttestations
  <2> QED BY <2>1, <2>2, <2>3
<1>9. CASE list = <<"previous", 0>>
  <2>1. /\ delta = DiffAttestations(base.previous, target.previous)
        /\ Values(list) = Seq(Attestations)
        /\ Part(base, list) = base.previous
        /\ Part(target, list) = target.previous
        /\ list # <<"log", 0>> /\ list # <<"votes", 0>>
    BY <1>3, <1>9 DEF Part, Values
  <2> HIDE DEF delta
  <2> QED BY <1>1, <1>8, <2>1 DEF delta, made
<1>10. CASE list = <<"current", 0>>
  <2>1. /\ delta = DiffAttestations(base.current, target.current)
        /\ Values(list) = Seq(Attestations)
        /\ Part(base, list) = base.current
        /\ Part(target, list) = target.current
        /\ list # <<"log", 0>> /\ list # <<"votes", 0>>
    BY <1>3, <1>10 DEF Part, Values
  <2> HIDE DEF delta
  <2> QED BY <1>1, <1>8, <2>1 DEF delta, made
<1>11. ASSUME NEW i \in 1..2, list = <<"committees", i>>
       PROVE  /\ Suits(delta, Values(list))
              /\ delta.kind = "Replace" =>
                   Part(base, list) # Part(target, list)
              /\ list # <<"log", 0>> /\ list # <<"votes", 0>>
  <2> DEFINE b == base.committees[i]
             t == target.committees[i]
  <2>1. /\ delta = DiffSyncCommittee(b, t) /\ Values(list) = Committees
        /\ Part(base, list) = b /\ Part(target, list) = t
        /\ list # <<"log", 0>> /\ list # <<"votes", 0>>
    BY <1>3, <1>11 DEF Part, Values
  <2>2. t \in Committees
    BY <1>1
  <2> HIDE DEF b, t, delta
  <2>3. CASE b = t
    BY <1>5, <2>1, <2>3 DEF DiffSyncCommittee
  <2>4. CASE b # t
    <3>1. delta = Replaced(t)
      BY <2>1, <2>4 DEF DiffSyncCommittee
    <3>2. Suits(Replaced(t), Committees)
      BY <2>2 DEF Suits, Replaced
    <3> QED BY <2>1, <2>4, <3>1, <3>2
  <2> QED BY <2>3, <2>4
<1>12. \/ list \in {<<"votes", 0>>, <<"log", 0>>, <<"previous", 0>>,
                    <<"current", 0>>}
       \/ \E i \in 1..2 : list = <<"committees", i>>
  <2>1. \A i \in {1, 2} : i \in 1..2
    OBVIOUS
  <2> QED BY <2>1 DEF Lists
<1> HIDE DEF delta
<1> QED BY <1>6, <1>7, <1>9, <1>10, <1>11, <1>12 DEF delta, made

\* A list that is the one of a state, the votes as far as their number goes.
Reaches(items, state, list) ==
  IF list = <<"votes", 0>> THEN Len(items) = Len(state.votes)
  ELSE items = Part(state, list)

\* Such a list of the base becomes one of the target, and the historical log
\* is the only list of which this may fail.
LEMMA DeltaReaches ==
  ASSUME NEW base \in States, NEW target \in States,
         Len(base.committees) = 2, Len(target.committees) = 2,
         NEW list \in Lists, list # <<"log", 0>>,
         NEW items \in Values(list), Reaches(items, base, list)
  PROVE  Reaches(ApplyList(items, Part(Create(base, target), list)),
                 target, list)
<1> DEFINE made == Create(base, target)
<1>1. /\ made.votes = DiffEth1Votes(base.votes, target.votes)
      /\ made.previous = DiffAttestations(base.previous, target.previous)
      /\ made.current = DiffAttestations(base.current, target.current)
      /\ \A i \in 1..2 :
           made.committees[i]
             = DiffSyncCommittee(base.committees[i], target.committees[i])
  BY DEF Create
<1>2. /\ base.votes \in Seq(Votes) /\ target.votes \in Seq(Votes)
      /\ base.previous \in Seq(Attestations)
      /\ target.previous \in Seq(Attestations)
      /\ base.current \in Seq(Attestations)
      /\ target.current \in Seq(Attestations)
  BY DEF States
<1> HIDE DEF made
<1>3. CASE list = <<"votes", 0>>
  <2>1. items \in Seq(Votes) /\ Len(items) = Len(base.votes)
    BY <1>3 DEF Values, Reaches
  <2>2. Part(made, list) = DiffEth1Votes(base.votes, target.votes)
    BY <1>1, <1>3 DEF Part
  <2>3. Len(ApplyList(items, DiffEth1Votes(base.votes, target.votes)))
          = Len(target.votes)
    BY <1>2, <2>1, VotesStep
  <2> QED BY <1>3, <2>2, <2>3 DEF Reaches, made
<1>4. CASE list = <<"previous", 0>>
  <2>1. items = base.previous /\ Part(target, list) = target.previous
    BY <1>4 DEF Reaches, Part
  <2>2. Part(made, list) = DiffAttestations(base.previous, target.previous)
    BY <1>1, <1>4 DEF Part
  <2>3. ApplyList(items, Part(made, list)) = target.previous
    BY <1>2, <2>1, <2>2, AttestationsStep
  <2> QED BY <1>4, <2>1, <2>3 DEF Reaches, made
<1>5. CASE list = <<"current", 0>>
  <2>1. items = base.current /\ Part(target, list) = target.current
    BY <1>5 DEF Reaches, Part
  <2>2. Part(made, list) = DiffAttestations(base.current, target.current)
    BY <1>1, <1>5 DEF Part
  <2>3. ApplyList(items, Part(made, list)) = target.current
    BY <1>2, <2>1, <2>2, AttestationsStep
  <2> QED BY <1>5, <2>1, <2>3 DEF Reaches, made
<1>6. ASSUME NEW i \in 1..2, list = <<"committees", i>>
      PROVE  Reaches(ApplyList(items, Part(made, list)), target, list)
  <2>1. /\ Part(target, list) = target.committees[i]
        /\ Part(made, list)
             = DiffSyncCommittee(base.committees[i], target.committees[i])
        /\ list # <<"votes", 0>> /\ items = base.committees[i]
    BY <1>1, <1>6 DEF Part, Reaches
  <2>2. ApplyList(items, Part(made, list)) = target.committees[i]
    BY <2>1, CommitteeStep
  <2> QED BY <2>1, <2>2 DEF Reaches
<1>7. \A i \in {1, 2} : i \in 1..2
  OBVIOUS
<1>8. \/ list \in {<<"votes", 0>>, <<"previous", 0>>, <<"current", 0>>}
      \/ \E i \in 1..2 : list = <<"committees", i>>
  BY <1>7 DEF Lists
<1> QED BY <1>3, <1>4, <1>5, <1>6, <1>8 DEF made

-----------------------------------------------------------------------------
(* The inductive invariant.                                                *)

LEMMA InitIInv == Init => IInv
<1> SUFFICES ASSUME Init PROVE IInv
  OBVIOUS
<1>1. PICK c \in Committees :
        live = [slot |-> IF activation = None THEN 0 ELSE activation,
                proposed |-> activation = None,
                votes |-> <<>>, log |-> <<>>,
                previous |-> <<>>, current |-> <<>>,
                committees |-> <<c, c>>]
  BY DEF Init
<1>2. /\ activation \in Activations /\ checkpoints = <<live>>
      /\ archive = <<>> /\ position = 1 /\ replica = live /\ panicked = FALSE
  BY DEF Init
<1>3. /\ live.slot = Start /\ live.slot \in Nat /\ live.log = <<>>
      /\ Len(live.committees) = 2
  BY <1>1, <1>2, StartFacts DEF Start
<1>4. live \in States
  BY <1>1, <1>3 DEF States
<1>5. TypeOK
  <2>1. /\ checkpoints \in Seq(States) /\ Len(checkpoints) = 1
        /\ Len(archive) = 0
    BY <1>2, <1>4
  <2>2. panicked \in BOOLEAN
    BY <1>2, Zenon
  <2>3. position \in 1..Len(checkpoints) /\ Len(archive) = Len(checkpoints) - 1
    BY <1>2, <2>1
  <2> QED BY <1>2, <1>4, <2>1, <2>2, <2>3, Zenon DEF TypeOK
<1>6. Scheduled(live)
  <2>1. LogAt(live.slot) \in Seq(Nat) /\ Len(LogAt(live.slot)) = 0
    <3>1. live.slot \in Nat /\ Start <= live.slot
            /\ live.slot \div SlotsPerHistoricalPeriod \in Int
      BY <1>3, PeriodAssumption
    <3> QED BY <1>2, <1>3, <3>1, LogAtFacts
  <2>2. LogAt(live.slot) = <<>>
    BY <2>1
  <2> QED BY <1>3, <2>2 DEF Scheduled, Start
<1>7. Follows(live, live)
  BY <1>3, <1>4 DEF Follows, IsPrefix, States
<1>8. ScheduleKept
  <2>1. /\ Len(checkpoints) = 1 /\ checkpoints[1] = live
        /\ Last(checkpoints) = live
    BY <1>2 DEF Last
  <2> QED BY <1>6, <1>7, <2>1 DEF ScheduleKept
<1>9. ArchiveComplete
  BY <1>2 DEF ArchiveComplete
<1>10. /\ SlotRestored /\ EpochListsRestored /\ VotesCountRestored
       /\ VotesRestoredUnlessRegrown /\ LogRestoredAwayFromBoundary
  BY <1>2 DEF SlotRestored, EpochListsRestored, VotesCountRestored,
              VotesRestoredUnlessRegrown, LogRestoredAwayFromBoundary, Target
<1>11. ReaderReplays
  <2>1. ASSUME NEW list \in Lists
        PROVE  [k \in 1..(position - 1) |-> Part(archive[k], list)] = <<>>
    BY <1>2
  <2>2. checkpoints[1] = replica
    BY <1>2
  <2> QED BY <2>1, <2>2, NothingRebuilt DEF ReaderReplays
<1> QED BY <1>5, <1>8, <1>9, <1>10, <1>11 DEF IInv

\* What the invariant says of the checkpoints and of the live state.
LEMMA CheckpointFacts ==
  ASSUME IInv
  PROVE  /\ activation \in Activations
         /\ live \in States /\ replica \in States
         /\ Len(checkpoints) \in Nat \ {0}
         /\ \A k \in 1..Len(checkpoints) : checkpoints[k] \in States
         /\ position \in 1..Len(checkpoints)
         /\ Last(checkpoints) = checkpoints[Len(checkpoints)]
         /\ Last(checkpoints) \in States
         /\ \A state \in States : Scheduled(state) => Start <= state.slot
<1>1. /\ activation \in Activations
      /\ live \in States /\ replica \in States
      /\ checkpoints \in Seq(States) /\ position \in 1..Len(checkpoints)
  BY DEF IInv, TypeOK
<1>2. /\ Len(checkpoints) \in Nat \ {0}
      /\ \A k \in 1..Len(checkpoints) : checkpoints[k] \in States
  BY <1>1
<1>3. ASSUME NEW state \in States, Scheduled(state)
      PROVE  Start <= state.slot
  <2>1. state.slot \in Nat
    BY DEF States
  <2> QED BY <1>3, <2>1 DEF Scheduled, Start
<1> QED BY <1>1, <1>2, <1>3 DEF Last

\* No list is one of both states.
Apart(base, target, list) ==
  \A a, b : Reaches(a, base, list) /\ Reaches(b, target, list) => a # b

\* What it says of an archived delta.
LEMMA ArchivedDelta ==
  ASSUME IInv, NEW k \in 1..(Len(checkpoints) - 1), NEW list \in Lists
  PROVE  LET delta == Part(archive[k], list) IN
         /\ Suits(delta, Values(list))
         /\ delta.kind = "Replace" =>
              /\ list # <<"log", 0>>
              /\ Apart(checkpoints[k], checkpoints[k + 1], list)
         /\ \A items \in Values(list) :
              list # <<"log", 0>> /\ Reaches(items, checkpoints[k], list)
                => Reaches(ApplyList(items, delta), checkpoints[k + 1], list)
<1> DEFINE base == checkpoints[k]
           target == checkpoints[k + 1]
           delta == Part(Create(base, target), list)
<1>1. k \in 1..Len(checkpoints) /\ k + 1 \in 1..Len(checkpoints)
  BY CheckpointFacts
<1>2. activation \in Activations /\ base \in States /\ target \in States
  BY <1>1, CheckpointFacts
<1>3. /\ Scheduled(base) /\ Scheduled(target) /\ Follows(base, target)
      /\ archive[k] = Create(base, target) /\ Create(base, target).log # Panic
  BY <1>1 DEF IInv, ScheduleKept, ArchiveComplete
<1> HIDE DEF base, target
<1>4. /\ Suits(delta, Values(list))
      /\ delta.kind = "Replace" =>
           /\ list # <<"log", 0>>
           /\ list = <<"votes", 0>> => Len(base.votes) # Len(target.votes)
           /\ list # <<"votes", 0>> => Part(base, list) # Part(target, list)
  BY <1>2, <1>3, DeltasSuit
<1>5. \A items \in Values(list) :
        list # <<"log", 0>> /\ Reaches(items, base, list)
          => Reaches(ApplyList(items, delta), target, list)
  BY <1>2, <1>3, DeltaReaches DEF Scheduled
<1>6. delta.kind = "Replace" => Apart(base, target, list)
  BY <1>4 DEF Apart, Reaches
<1> HIDE DEF delta
<1> QED BY <1>3, <1>4, <1>5, <1>6 DEF base, target, delta

\* The deltas of a list suit it, as many as one takes.
LEMMA ArchiveSuits ==
  ASSUME IInv, NEW n \in 0..(Len(checkpoints) - 1), NEW list \in Lists
  PROVE  /\ n \in Nat
         /\ Part(checkpoints[1], list) \in Values(list)
         /\ AllSuit([k \in 1..n |-> Part(archive[k], list)], n, Values(list))
<1>1. /\ n \in Nat
      /\ 1 \in 1..Len(checkpoints)
      /\ \A k \in 1..n : k \in 1..(Len(checkpoints) - 1)
  BY CheckpointFacts
<1>2. checkpoints[1] \in States /\ Len(checkpoints[1].committees) = 2
  BY <1>1, CheckpointFacts DEF IInv, ScheduleKept, Scheduled
<1>3. Part(checkpoints[1], list) \in Values(list)
  BY <1>2, PartTyped
<1>4. \A k \in 1..n : Suits(Part(archive[k], list), Values(list))
  BY <1>1, ArchivedDelta
<1> QED BY <1>1, <1>3, <1>4 DEF AllSuit

\* A step of the client leaves the archive and the reader alone.
LEMMA ClientKeepsIInv ==
  ASSUME IInv,
         UNCHANGED <<activation, checkpoints, archive, position, replica>>,
         panicked' \in BOOLEAN, live' \in States, Scheduled(live)', Follows(Last(checkpoints), live')
  PROVE  IInv'
<1>1. TypeOK'
  BY DEF IInv, TypeOK
<1>2. ScheduleKept'
  <2>1. ASSUME NEW k \in 1..Len(checkpoints)
        PROVE  Scheduled(checkpoints[k])'
    BY DEF IInv, ScheduleKept, Scheduled, LogAt
  <2> QED BY <2>1 DEF IInv, ScheduleKept
<1>3. ArchiveComplete'
  BY DEF IInv, ArchiveComplete, Create
<1>4. (SlotRestored /\ EpochListsRestored /\ VotesCountRestored)'
  BY DEF IInv, SlotRestored, EpochListsRestored, VotesCountRestored, Target
<1>5. VotesRestoredUnlessRegrown'
  BY DEF IInv, VotesRestoredUnlessRegrown, Regrown, Target
<1>6. LogRestoredAwayFromBoundary'
  BY DEF IInv, LogRestoredAwayFromBoundary, AwayFromBoundary, Target
<1>7. ReaderReplays'
  BY DEF IInv, ReaderReplays
<1> QED BY <1>1, <1>2, <1>3, <1>4, <1>5, <1>6, <1>7 DEF IInv

\* The slot advances: a voting period that goes on leaves the votes alone.
LEMMA SlotKeepsIInv ==
  ASSUME IInv, NEW c \in Committees, ProcessSlot(c)
  PROVE  IInv'
<1> DEFINE slot == live.slot + 1
           last == Last(checkpoints)
<1>1. /\ activation \in Activations /\ live \in States /\ last \in States
      /\ Scheduled(live) /\ Follows(last, live)
  BY CheckpointFacts DEF IInv, ScheduleKept
<1>2. /\ live.slot \in Nat /\ slot \in Nat /\ last.slot \in Nat
      /\ Start <= live.slot /\ last.slot <= live.slot
      /\ live.log \in Seq(Nat) /\ live.votes \in Seq(Votes)
      /\ live.previous \in Seq(Attestations)
      /\ live.current \in Seq(Attestations)
      /\ live.committees \in Seq(Committees) /\ Len(live.committees) = 2
  <2>1. /\ live.slot \in Nat /\ last.slot \in Nat
        /\ live.log \in Seq(Nat) /\ live.votes \in Seq(Votes)
        /\ live.previous \in Seq(Attestations)
        /\ live.current \in Seq(Attestations)
        /\ live.committees \in Seq(Committees)
    BY <1>1 DEF States
  <2>2. Start <= live.slot
    BY <1>1, CheckpointFacts
  <2>3. last.slot <= live.slot /\ Len(live.committees) = 2
    BY <1>1 DEF Follows, Scheduled
  <2> QED BY <2>1, <2>2, <2>3
<1>3. /\ UNCHANGED <<activation, checkpoints, archive, position, replica>>
      /\ panicked' \in BOOLEAN
  BY DEF ProcessSlot, IInv, TypeOK
<1>4. live'.slot = slot /\ live'.log = LogAt(slot)
  <2>1. live.log = LogAt(live.slot)
    BY <1>1 DEF Scheduled
  <2>2. /\ live'.slot = slot
        /\ live'.log = IF slot % SlotsPerHistoricalPeriod = 0
                       THEN Append(live.log, slot \div SlotsPerHistoricalPeriod)
                       ELSE live.log
    BY DEF ProcessSlot
  <2> QED BY <1>1, <1>2, <2>1, <2>2, LogAtGrows
<1>5. /\ Len(live'.committees) = 2 /\ live'.committees \in Seq(Committees)
  <2>1. live'.committees \in {<<live.committees[2], c>>, live.committees}
    BY DEF ProcessSlot
  <2>2. live.committees[2] \in Committees
    BY <1>2
  <2>3. /\ <<live.committees[2], c>> \in Seq(Committees)
        /\ Len(<<live.committees[2], c>>) = 2
    BY <2>2
  <2> QED BY <1>2, <2>1, <2>3
<1>6. live' \in States
  <2>1. LogAt(slot) \in Seq(Nat)
    BY <1>1, <1>2, StartFacts, LogAtFacts
  <2>2. /\ live'.proposed = FALSE
        /\ live'.votes \in {<<>>, live.votes}
        /\ live'.previous \in {live.current, live.previous}
        /\ live'.current \in {<<>>, live.current}
        /\ live' = [slot |-> live'.slot, proposed |-> live'.proposed,
                    votes |-> live'.votes, log |-> live'.log,
                    previous |-> live'.previous, current |-> live'.current,
                    committees |-> live'.committees]
    BY DEF ProcessSlot
  <2>3. /\ live'.slot \in Nat /\ live'.proposed \in BOOLEAN
        /\ live'.votes \in Seq(Votes) /\ live'.log \in Seq(Nat)
        /\ live'.previous \in Seq(Attestations)
        /\ live'.current \in Seq(Attestations)
    <3>1. live'.proposed \in BOOLEAN
      BY <2>2, Zenon
    <3>2. <<>> \in Seq(Votes) /\ <<>> \in Seq(Attestations)
      OBVIOUS
    <3>3. live'.slot \in Nat /\ live'.log \in Seq(Nat)
      BY <1>2, <1>4, <2>1
    <3>4. /\ live'.votes \in Seq(Votes)
          /\ live'.previous \in Seq(Attestations)
          /\ live'.current \in Seq(Attestations)
      BY <1>2, <2>2, <3>2
    <3> QED BY <3>1, <3>3, <3>4
  <2> QED BY <1>5, <2>2, <2>3 DEF States
<1>7. Scheduled(live)'
  BY <1>1, <1>2, <1>3, <1>4, <1>5, StartFacts DEF Scheduled, Start, LogAt
<1>8. Follows(last, live')
  <2>1. ASSUME VotingPeriod(last.slot) = VotingPeriod(slot)
        PROVE  IsPrefix(last.votes, live'.votes)
    <3>1. VotingPeriod(last.slot) = VotingPeriod(live.slot)
      <4>1. /\ VotingPeriod(last.slot) <= VotingPeriod(live.slot)
            /\ VotingPeriod(live.slot) <= VotingPeriod(slot)
            /\ VotingPeriod(last.slot) \in Nat
            /\ VotingPeriod(live.slot) \in Nat /\ VotingPeriod(slot) \in Nat
        <5>1. live.slot <= slot
          BY <1>2
        <5> HIDE DEF slot, last
        <5> QED BY <1>2, <5>1, VotingPeriodFacts
      <4> HIDE DEF slot, last
      <4> QED BY <2>1, <4>1
    <3>2. ~(slot % SlotsPerEpoch = 0 /\ Epoch(slot) % EpochsPerVotingPeriod = 0)
      BY <1>2, <2>1, <3>1, ResetBeginsPeriod
    <3>3. live'.votes = live.votes
      BY <3>2 DEF ProcessSlot
    <3> QED BY <1>1, <3>1, <3>3 DEF Follows
  <2> QED BY <1>2, <1>4, <2>1 DEF Follows
<1> QED BY <1>3, <1>6, <1>7, <1>8, ClientKeepsIInv

\* A list is a prefix of every list that continues it.
LEMMA PrefixContinued ==
  ASSUME NEW T, NEW base \in Seq(T), NEW target \in Seq(T), NEW item \in T,
         IsPrefix(base, target)
  PROVE  IsPrefix(base, Append(target, item))
<1> DEFINE longer == Append(target, item)
<1>1. /\ longer \in Seq(T) /\ Len(longer) = Len(target) + 1
      /\ \A i \in 1..Len(target) : longer[i] = target[i]
  BY AppendProperties
<1>2. /\ Len(base) \in Nat /\ Len(base) <= Len(target)
      /\ SubSeq(base, 1, Len(base)) = SubSeq(target, 1, Len(base))
  BY DEF IsPrefix
<1> HIDE DEF longer
<1>3. SubSeq(longer, 1, Len(base)) = SubSeq(target, 1, Len(base))
  BY <1>1, <1>2
<1> QED BY <1>1, <1>2, <1>3 DEF IsPrefix, longer

\* A block adds a vote.
LEMMA BlockKeepsIInv ==
  ASSUME IInv, NEW vote \in Votes,
         NEW forCurrent \in {<<>>} \cup {<<a>> : a \in Attestations},
         NEW forPrevious \in {<<>>} \cup {<<a>> : a \in Attestations},
         ProcessBlock(vote, forCurrent, forPrevious)
  PROVE  IInv'
<1> DEFINE last == Last(checkpoints)
<1>1. /\ activation \in Activations /\ live \in States /\ last \in States
      /\ Scheduled(live) /\ Follows(last, live)
  BY CheckpointFacts DEF IInv, ScheduleKept
<1>2. /\ UNCHANGED <<activation, checkpoints, archive, position, replica>>
      /\ panicked' \in BOOLEAN
  BY DEF ProcessBlock, IInv, TypeOK
<1>3. /\ live'.slot = live.slot /\ live'.log = live.log
      /\ live'.committees = live.committees
      /\ live'.votes = Append(live.votes, vote)
      /\ live' \in States
  <2>1. forCurrent \in Seq(Attestations) /\ forPrevious \in Seq(Attestations)
    <3>1. /\ <<>> \in Seq(Attestations)
          /\ \A a \in Attestations : <<a>> \in Seq(Attestations)
      OBVIOUS
    <3> QED BY <3>1
  <2>2. /\ live.votes \in Seq(Votes) /\ live.previous \in Seq(Attestations)
        /\ live.current \in Seq(Attestations)
    BY <1>1 DEF States
  <2>3. /\ Append(live.votes, vote) \in Seq(Votes)
        /\ live.current \o forCurrent \in Seq(Attestations)
        /\ live.previous \o forPrevious \in Seq(Attestations)
    BY <2>1, <2>2, AppendProperties, ConcatProperties
  <2>4. live' = [live EXCEPT !.proposed = TRUE,
                             !.votes = Append(live.votes, vote),
                             !.current = live.current \o forCurrent,
                             !.previous = live.previous \o forPrevious]
    BY DEF ProcessBlock
  <2> QED BY <1>1, <2>3, <2>4 DEF States
<1>4. Scheduled(live)'
  BY <1>1, <1>2, <1>3 DEF Scheduled, LogAt
<1>5. Follows(last, live')
  <2>1. last.votes \in Seq(Votes) /\ live.votes \in Seq(Votes)
    BY <1>1 DEF States
  <2>2. IsPrefix(last.votes, live.votes) => IsPrefix(last.votes, live'.votes)
    BY <1>3, <2>1, PrefixContinued
  <2> QED BY <1>1, <1>3, <2>2 DEF Follows
<1> QED BY <1>2, <1>3, <1>4, <1>5, ClientKeepsIInv

\* A delta that is archived is the one between the last two checkpoints.
LEMMA CheckpointKeepsIInv ==
  ASSUME IInv, Checkpoint
  PROVE  IInv'
<1> DEFINE n == Len(checkpoints)
           Deltas == {Create(b, t) : b \in States, t \in States}
           new == Create(checkpoints[n], live)
<1>1. /\ live \in States /\ checkpoints \in Seq(States)
      /\ position \in 1..n /\ replica \in States
      /\ n \in Nat \ {0} /\ Last(checkpoints) = checkpoints[n]
      /\ \A k \in 1..n : checkpoints[k] \in States
  BY CheckpointFacts DEF IInv, TypeOK
<1>2. archive \in Seq(Deltas) /\ Len(archive) = n - 1
  <2>1. archive = [k \in 1..(n - 1) |->
                     Create(checkpoints[k], checkpoints[k + 1])]
    BY DEF IInv, ArchiveComplete
  <2>2. \A k \in 1..(n - 1) :
          Create(checkpoints[k], checkpoints[k + 1]) \in Deltas
    <3>1. \A k \in 1..(n - 1) : checkpoints[k] \in States
                            /\ checkpoints[k + 1] \in States
      BY <1>1
    <3> QED BY <3>1
  <2> HIDE DEF Deltas
  <2> QED BY <1>1, <2>1, <2>2
<1>3. /\ checkpoints' = Append(checkpoints, live)
      /\ archive' = Append(archive, new) /\ new.log # Panic
      /\ UNCHANGED <<activation, live, position, replica, panicked>>
  BY <1>1 DEF Checkpoint
<1>4. /\ checkpoints' \in Seq(States) /\ Len(checkpoints') = n + 1
      /\ \A k \in 1..n : checkpoints'[k] = checkpoints[k]
      /\ checkpoints'[n + 1] = live
      /\ Last(checkpoints') = live
  BY <1>1, <1>3, AppendProperties DEF Last
<1>5. /\ archive' \in Seq(Deltas) /\ Len(archive') = n
      /\ \A k \in 1..(n - 1) : archive'[k] = archive[k]
      /\ archive'[n] = new
  <2>1. new \in Deltas
    BY <1>1
  <2> HIDE DEF new, Deltas
  <2>2. Len(archive) + 1 = n
    BY <1>1, <1>2
  <2> QED BY <1>2, <1>3, <2>1, <2>2, AppendProperties
<1>6. TypeOK'
  <2>1. /\ Len(archive') = Len(checkpoints') - 1
        /\ position' \in 1..Len(checkpoints')
    BY <1>1, <1>3, <1>4, <1>5
  <2>2. panicked' \in BOOLEAN /\ activation' \in Activations
    BY <1>3 DEF IInv, TypeOK
  <2> QED BY <1>1, <1>3, <1>4, <2>1, <2>2 DEF TypeOK
<1>7. ScheduleKept'
  <2>1. ASSUME NEW k \in 1..(n + 1)
        PROVE  Scheduled(checkpoints'[k])
    <3>1. CASE k = n + 1
      BY <1>4, <3>1 DEF IInv, ScheduleKept
    <3>2. CASE k # n + 1
      <4>1. k \in 1..n
        BY <1>1, <3>2
      <4> QED BY <1>4, <4>1 DEF IInv, ScheduleKept
    <3> QED BY <3>1, <3>2
  <2>2. ASSUME NEW k \in 1..n
        PROVE  Follows(checkpoints'[k], checkpoints'[k + 1])
    <3>1. CASE k = n
      BY <1>1, <1>4, <3>1 DEF IInv, ScheduleKept
    <3>2. CASE k # n
      <4>1. k \in 1..(n - 1) /\ k + 1 \in 1..n
        BY <1>1, <3>2
      <4> QED BY <1>4, <4>1 DEF IInv, ScheduleKept
    <3> QED BY <3>1, <3>2
  <2>3. Follows(live, live)
    BY <1>1 DEF Follows, IsPrefix, States
  <2>4. Scheduled(live)
    BY DEF IInv, ScheduleKept
  <2>5. \A k \in 1..Len(checkpoints') : Scheduled(checkpoints'[k])
    BY <1>4, <2>1
  <2>6. \A k \in 1..(Len(checkpoints') - 1) :
          Follows(checkpoints'[k], checkpoints'[k + 1])
    BY <1>1, <1>4, <2>2
  <2>7. Scheduled(live)'
    BY <1>3, <2>4 DEF Scheduled, LogAt
  <2>8. ASSUME NEW k \in 1..Len(checkpoints')
        PROVE  Scheduled(checkpoints[k])'
    BY <1>3, <2>5 DEF Scheduled, LogAt
  <2> QED BY <1>3, <1>4, <2>3, <2>6, <2>7, <2>8 DEF ScheduleKept
<1>8. ArchiveComplete'
  <2>1. \A k \in 1..(n - 1) :
          /\ archive[k] = Create(checkpoints[k], checkpoints[k + 1])
          /\ archive[k].log # Panic
    BY <1>1 DEF IInv, ArchiveComplete
  <2>2. ASSUME NEW k \in 1..n
        PROVE  /\ archive'[k] = Create(checkpoints'[k], checkpoints'[k + 1])
               /\ archive'[k].log # Panic
    <3>1. CASE k = n
      BY <1>1, <1>3, <1>4, <1>5, <3>1
    <3>2. CASE k # n
      <4>1. k \in 1..(n - 1) /\ k + 1 \in 1..n
        BY <1>1, <3>2
      <4> QED BY <1>4, <1>5, <2>1, <4>1
    <3> QED BY <3>1, <3>2
  <2>3. archive' = [k \in 1..n |-> archive'[k]]
    <3> HIDE DEF Deltas, new
    <3> QED BY <1>1, <1>5
  <2>4. Len(checkpoints') - 1 = n
    BY <1>1, <1>4
  <2>5. archive' = [k \in 1..n |->
                      Create(checkpoints'[k], checkpoints'[k + 1])]
    BY <2>2, <2>3
  <2> QED BY <1>3, <2>2, <2>4, <2>5 DEF ArchiveComplete, Create
<1>9. checkpoints'[position'] = checkpoints[position]
  BY <1>1, <1>3, <1>4
<1>10. (SlotRestored /\ EpochListsRestored /\ VotesCountRestored)'
  BY <1>3, <1>9 DEF IInv, SlotRestored, EpochListsRestored,
                    VotesCountRestored, Target
<1>11. VotesRestoredUnlessRegrown'
  <2>1. \A k \in 1..(position - 1) : Regrown(k) => Regrown(k)'
    <3>1. \A k \in 1..(position - 1) : k \in 1..n /\ k + 1 \in 1..n
      BY <1>1
    <3> QED BY <1>4, <3>1 DEF Regrown
  <2>2. \A k \in 1..(position - 1) : archive'[k] = archive[k]
    BY <1>1, <1>5
  <2>3. ASSUME replica.votes # checkpoints[position].votes
        PROVE  \E k \in 1..(position - 1) :
                 /\ Regrown(k)'
                 /\ \A l \in k..(position - 1) :
                      archive'[l].votes.kind = "Append"
    <3>1. PICK k \in 1..(position - 1) :
                 /\ Regrown(k)
                 /\ \A l \in k..(position - 1) :
                      archive[l].votes.kind = "Append"
      BY <2>3 DEF IInv, VotesRestoredUnlessRegrown, Target
    <3>2. \A l \in k..(position - 1) : l \in 1..(position - 1)
      BY <1>1
    <3> QED BY <2>1, <2>2, <3>1, <3>2
  <2> QED BY <1>3, <1>9, <2>3 DEF VotesRestoredUnlessRegrown, Target
<1>12. LogRestoredAwayFromBoundary'
  <2>1. \A k \in 1..position : checkpoints'[k] = checkpoints[k]
    BY <1>1, <1>4
  <2> QED BY <1>3, <1>9, <2>1
          DEF IInv, LogRestoredAwayFromBoundary, AwayFromBoundary, Target
<1>13. ReaderReplays'
  <2>1. checkpoints'[1] = checkpoints[1]
    BY <1>1, <1>4
  <2>2. \A k \in 1..(position - 1) : archive'[k] = archive[k]
    BY <1>1, <1>5
  <2>3. ASSUME NEW list \in Lists
        PROVE  [k \in 1..(position' - 1) |-> Part(archive'[k], list)]
                 = [k \in 1..(position - 1) |-> Part(archive[k], list)]
    BY <1>3, <2>2
  <2> QED BY <1>3, <2>1, <2>3 DEF IInv, ReaderReplays
<1> QED BY <1>6, <1>7, <1>8, <1>10, <1>11, <1>12, <1>13 DEF IInv

\* The delta between two states of the client, applied to a state that has
\* the lists of the base and as many votes.
LEMMA ApplyOfCreate ==
  ASSUME activation \in Activations,
         NEW base \in States, NEW target \in States, NEW state \in States,
         Scheduled(base), Scheduled(target), Follows(base, target),
         Create(base, target).log # Panic,
         state.previous = base.previous, state.current = base.current,
         state.committees = base.committees,
         Len(state.votes) = Len(base.votes)
  PROVE  LET after == Apply(state, Create(base, target)) IN
         /\ after \in States
         /\ after.slot = target.slot /\ after.proposed = target.proposed
         /\ after.previous = target.previous
         /\ after.current = target.current
         /\ after.committees = target.committees
         /\ Len(after.votes) = Len(target.votes)
         /\ after.votes # target.votes =>
              /\ Create(base, target).votes.kind = "Append"
              /\ Len(target.votes) >= Len(base.votes)
              /\ state.votes = base.votes =>
                   /\ VotingPeriod(base.slot) # VotingPeriod(target.slot)
                   /\ base.votes # <<>>
<1> DEFINE delta == DiffHistoricalLog(base.slot, target.slot, target.log,
                                      activation)
           votes == ApplyList(state.votes,
                              DiffEth1Votes(base.votes, target.votes))
           log == ApplyList(state.log, delta)
           after == Apply(state, Create(base, target))
<1>1. /\ base.slot \in Nat /\ target.slot \in Nat /\ base.slot <= target.slot
      /\ Start <= base.slot
      /\ base.votes \in Seq(Votes) /\ target.votes \in Seq(Votes)
      /\ state.votes \in Seq(Votes)
      /\ base.previous \in Seq(Attestations)
      /\ target.previous \in Seq(Attestations)
      /\ base.current \in Seq(Attestations)
      /\ target.current \in Seq(Attestations)
      /\ state.log \in Seq(Nat) /\ target.log \in Seq(Nat)
      /\ target.committees \in Seq(Committees) /\ Len(target.committees) = 2
  <2>1. Start <= base.slot
    <3>1. base.slot \in Nat
      BY DEF States
    <3> QED BY <3>1 DEF Scheduled, Start
  <2> QED BY <2>1 DEF States, Follows, Scheduled
<1>2. /\ votes \in Seq(Votes) /\ Len(votes) = Len(target.votes)
      /\ votes # target.votes =>
           /\ DiffEth1Votes(base.votes, target.votes).kind = "Append"
           /\ Len(target.votes) >= Len(base.votes)
           /\ state.votes = base.votes => ~IsPrefix(base.votes, target.votes)
  BY <1>1, VotesStep
<1>3. log \in Seq(Nat)
  <2>1. delta # Panic
    BY DEF Create
  <2> QED BY <1>1, <2>1, LogTyped
<1>4. /\ ApplyList(state.previous,
                   DiffAttestations(base.previous, target.previous))
           = target.previous
      /\ ApplyList(state.current,
                   DiffAttestations(base.current, target.current))
           = target.current
  BY <1>1, AttestationsStep
<1>5. [i \in 1..2 |-> ApplyList(state.committees[i],
                        DiffSyncCommittee(base.committees[i],
                                          target.committees[i]))]
        = target.committees
  <2>1. [i \in 1..2 |-> ApplyList(state.committees[i],
                          DiffSyncCommittee(base.committees[i],
                                            target.committees[i]))]
          = [i \in 1..2 |-> target.committees[i]]
    BY CommitteeStep
  <2>2. target.committees = [i \in 1..2 |-> target.committees[i]]
    <3> DEFINE c == target.committees
    <3>1. c \in Seq(Committees) /\ Len(c) = 2
      BY <1>1
    <3> HIDE DEF c
    <3>2. c = [i \in 1..2 |-> c[i]]
      BY <3>1
    <3> QED BY <3>2 DEF c
  <2> QED BY <2>1, <2>2
<1>6. after = [slot |-> target.slot, proposed |-> target.proposed,
               votes |-> votes, log |-> log,
               previous |-> target.previous, current |-> target.current,
               committees |-> target.committees]
  <2> HIDE DEF votes, log
  <2>1. after = [slot |-> target.slot, proposed |-> target.proposed,
                 votes |-> votes, log |-> log,
                 previous |-> ApplyList(state.previous,
                   DiffAttestations(base.previous, target.previous)),
                 current |-> ApplyList(state.current,
                   DiffAttestations(base.current, target.current)),
                 committees |-> [i \in 1..2 |->
                   ApplyList(state.committees[i],
                             DiffSyncCommittee(base.committees[i],
                                               target.committees[i]))]]
    BY DEF Apply, Create, votes, log
  <2> QED BY <1>4, <1>5, <2>1
<1> HIDE DEF votes, log
<1>7. after \in States
  BY <1>1, <1>2, <1>3, <1>6 DEF States
<1>8. Create(base, target).votes = DiffEth1Votes(base.votes, target.votes)
  BY DEF Create
<1>9. ~IsPrefix(base.votes, target.votes) =>
        /\ VotingPeriod(base.slot) # VotingPeriod(target.slot)
        /\ base.votes # <<>>
  BY <1>1 DEF Follows, IsPrefix
<1> QED BY <1>2, <1>6, <1>7, <1>8, <1>9

\* The reader moves from a base to the target of its next delta.
LEMMA RestoreKeepsIInv ==
  ASSUME IInv, Restore
  PROVE  IInv'
<1> DEFINE base == checkpoints[position]
           target == checkpoints[position + 1]
<1>1. /\ position' = position + 1
      /\ replica' = Apply(replica, archive[position])
      /\ UNCHANGED <<activation, live, checkpoints, archive, panicked>>
      /\ position < Len(checkpoints)
  BY DEF Restore
<1>2. /\ activation \in Activations
      /\ Len(checkpoints) \in Nat /\ position \in 1..(Len(checkpoints) - 1)
      /\ base \in States /\ target \in States /\ replica \in States
  BY <1>1, CheckpointFacts
<1>3. /\ Scheduled(base) /\ Scheduled(target) /\ Follows(base, target)
      /\ archive[position] = Create(base, target)
      /\ archive[position].log # Panic
  BY <1>2 DEF IInv, ScheduleKept, ArchiveComplete
<1>4. /\ replica.previous = base.previous /\ replica.current = base.current
      /\ replica.committees = base.committees
      /\ Len(replica.votes) = Len(base.votes)
  BY DEF IInv, EpochListsRestored, VotesCountRestored, Target
<1> HIDE DEF base, target
<1>5. /\ replica' \in States
      /\ replica'.slot = target.slot /\ replica'.proposed = target.proposed
      /\ replica'.previous = target.previous
      /\ replica'.current = target.current
      /\ replica'.committees = target.committees
      /\ Len(replica'.votes) = Len(target.votes)
      /\ replica'.votes # target.votes =>
           /\ archive[position].votes.kind = "Append"
           /\ Len(target.votes) >= Len(base.votes)
           /\ replica.votes = base.votes =>
                /\ VotingPeriod(base.slot) # VotingPeriod(target.slot)
                /\ base.votes # <<>>
  <2>1. replica' = Apply(replica, Create(base, target))
    BY <1>1, <1>3
  <2> QED BY <1>2, <1>3, <1>4, <2>1, ApplyOfCreate
<1>6. checkpoints'[position'] = target
  BY <1>1 DEF target
<1>7. TypeOK'
  BY <1>1, <1>2, <1>5 DEF IInv, TypeOK
<1>8. ScheduleKept'
  <2>1. Scheduled(live)'
    BY <1>1 DEF IInv, ScheduleKept, Scheduled, LogAt
  <2>2. ASSUME NEW k \in 1..Len(checkpoints)
        PROVE  Scheduled(checkpoints[k])'
    BY <1>1 DEF IInv, ScheduleKept, Scheduled, LogAt
  <2> QED BY <1>1, <2>1, <2>2 DEF IInv, ScheduleKept
<1>9. ArchiveComplete'
  BY <1>1 DEF IInv, ArchiveComplete, Create
<1>10. (SlotRestored /\ EpochListsRestored /\ VotesCountRestored)'
  BY <1>5, <1>6 DEF SlotRestored, EpochListsRestored, VotesCountRestored, Target
<1>11. VotesRestoredUnlessRegrown'
  <2>1. ASSUME replica'.votes # target.votes
        PROVE  \E k \in 1..position :
                 /\ Regrown(k)
                 /\ \A l \in k..position : archive[l].votes.kind = "Append"
    <3>1. CASE replica.votes = base.votes
      <4>1. Regrown(position)
        BY <1>5, <2>1, <3>1 DEF Regrown, base, target
      <4>2. position \in 1..position
              /\ \A l \in position..position : l = position
        BY <1>2
      <4> QED BY <1>5, <2>1, <4>1, <4>2
    <3>2. CASE replica.votes # base.votes
      <4>1. PICK k \in 1..(position - 1) :
              /\ Regrown(k)
              /\ \A l \in k..(position - 1) : archive[l].votes.kind = "Append"
        BY <3>2 DEF IInv, VotesRestoredUnlessRegrown, Target, base
      <4>2. k \in 1..position
              /\ \A l \in k..position : l \in k..(position - 1) \/ l = position
        BY <1>2
      <4> QED BY <1>5, <2>1, <4>1, <4>2
    <3> QED BY <3>1, <3>2
  <2>2. position' - 1 = position
    BY <1>1, <1>2
  <2>3. \A k : Regrown(k)' = Regrown(k)
    BY <1>1 DEF Regrown
  <2> QED BY <1>1, <1>6, <2>1, <2>2, <2>3
          DEF VotesRestoredUnlessRegrown, Target
<1>12. LogRestoredAwayFromBoundary'
  <2> SUFFICES
        ASSUME \A k \in 1..(position + 1) : AwayFromBoundary(checkpoints[k])
        PROVE  replica'.log = target.log
    BY <1>1, <1>6 DEF LogRestoredAwayFromBoundary, Target, AwayFromBoundary
  <2>1. AwayFromBoundary(base) /\ AwayFromBoundary(target)
    <3>1. position \in 1..(position + 1) /\ position + 1 \in 1..(position + 1)
      BY <1>2
    <3> QED BY <3>1 DEF base, target
  <2>2. replica.log = base.log
    <3>1. \A k \in 1..position : k \in 1..(position + 1)
      BY <1>2
    <3> QED BY <3>1 DEF IInv, LogRestoredAwayFromBoundary, Target, base
  <2>3. /\ base.slot \in Nat /\ target.slot \in Nat
        /\ Start <= base.slot /\ Start <= target.slot
        /\ base.slot <= target.slot
        /\ base.log = LogAt(base.slot) /\ target.log = LogAt(target.slot)
    <3>1. Start <= base.slot /\ Start <= target.slot
      BY <1>2, <1>3, CheckpointFacts
    <3> QED BY <1>2, <1>3, <3>1 DEF States, Scheduled, Follows
  <2>4. /\ LogCount(base.slot, activation) = Len(LogAt(base.slot))
        /\ LogCount(target.slot, activation) = Len(LogAt(target.slot))
    BY <1>2, <2>1, <2>3, LogCountIsLength
  <2>5. ApplyList(LogAt(base.slot),
          DiffHistoricalLog(base.slot, target.slot, LogAt(target.slot),
                            activation)) = LogAt(target.slot)
    BY <1>2, <2>3, <2>4, LogStep
  <2>6. replica'.log = ApplyList(replica.log,
          DiffHistoricalLog(base.slot, target.slot, target.log, activation))
    BY <1>1, <1>3 DEF Apply, Create
  <2> QED BY <2>2, <2>3, <2>5, <2>6
<1>13. ReaderReplays'
  <2>1. ASSUME NEW list \in Lists
        PROVE  Part(replica', list)
                 = Rebuilt(Part(checkpoints[1], list),
                           [k \in 1..position |-> Part(archive[k], list)])
    <3> DEFINE n == position - 1
               before == [k \in 1..n |-> Part(archive[k], list)]
               after == [k \in 1..(n + 1) |-> Part(archive[k], list)]
               items == Part(checkpoints[1], list)
    <3>1. /\ n \in 0..(Len(checkpoints) - 1) /\ n + 1 = position
          /\ n + 1 \in 0..(Len(checkpoints) - 1) /\ n + 1 \in 1..(n + 1)
          /\ \A k \in 1..n : k \in 1..(n + 1)
      BY <1>2
    <3>2. Part(replica, list) = Rebuilt(items, before)
      BY DEF IInv, ReaderReplays
    <3>3. /\ \A k \in 1..n : after[k] = before[k]
          /\ after[n + 1] = Part(archive[position], list)
      BY <3>1
    <3> HIDE DEF n
    <3>4. n \in Nat /\ items \in Values(list) /\ AllSuit(before, n, Values(list))
      BY <3>1, ArchiveSuits
    <3>5. AllSuit(after, n + 1, Values(list))
      BY <3>1, ArchiveSuits
    <3> HIDE DEF before, after, items
    <3>6. Rebuilt(items, after)
            = ApplyList(Rebuilt(items, before), after[n + 1])
      BY <3>3, <3>4, <3>5, RebuiltExtends
    <3>7. Part(replica', list)
            = ApplyList(Part(replica, list), Part(archive[position], list))
      BY <1>1, PartOfApply
    <3>8. after = [k \in 1..position |-> Part(archive[k], list)]
      BY <3>1 DEF after
    <3> QED BY <3>2, <3>3, <3>6, <3>7, <3>8 DEF items
  <2>2. position' - 1 = position
    BY <1>1, <1>2
  <2> QED BY <1>1, <2>1, <2>2 DEF ReaderReplays
<1> QED BY <1>7, <1>8, <1>9, <1>10, <1>11, <1>12, <1>13 DEF IInv

\* A reader that applies the whole archive has, after each delta, the list of
\* the checkpoint, the votes as far as their number goes.
LEMMA RunReachesCheckpoints ==
  ASSUME IInv, NEW list \in Lists, list # <<"log", 0>>, NEW n,
         n = Len(checkpoints) - 1, NEW r, NEW deltas,
         deltas = [k \in 1..n |-> Part(archive[k], list)],
         Run(r, n, Values(list), deltas), r[0] = Part(checkpoints[1], list)
  PROVE  \A k \in 0..n : Reaches(r[k], checkpoints[k + 1], list)
<1> DEFINE S == {k \in Nat : k <= n =>
                   Reaches(r[k], checkpoints[k + 1], list)}
<1>1. n \in Nat
  BY CheckpointFacts
<1>2. 0 \in S
  <2>1. 0 + 1 = 1
    OBVIOUS
  <2>2. list = <<"votes", 0>> => Part(checkpoints[1], list) = checkpoints[1].votes
    BY DEF Part
  <2>3. Reaches(r[0], checkpoints[1], list)
    BY <2>2 DEF Reaches
  <2> QED BY <2>1, <2>3
<1>3. ASSUME NEW k \in Nat, k \in S
      PROVE  k + 1 \in S
  <2> SUFFICES ASSUME k + 1 <= n
               PROVE  Reaches(r[k + 1], checkpoints[(k + 1) + 1], list)
    OBVIOUS
  <2>1. /\ k + 1 \in 1..n /\ (k + 1) - 1 = k /\ k \in 0..n /\ k <= n
        /\ k + 1 \in 1..(Len(checkpoints) - 1)
    BY <1>1
  <2>2. r[k] \in Values(list) /\ r[k + 1] = ApplyList(r[k], deltas[k + 1])
    BY <2>1 DEF Run
  <2>3. deltas[k + 1] = Part(archive[k + 1], list)
    BY <2>1
  <2>4. Reaches(r[k], checkpoints[k + 1], list)
    BY <1>3, <2>1
  <2> QED BY <2>1, <2>2, <2>3, <2>4, ArchivedDelta
<1>4. Nat \subseteq S
  <2> HIDE DEF S
  <2> QED BY <1>2, <1>3, SetInduction
<1> QED BY <1>1, <1>4

\* A reader that has applied the whole archive, and one that has lost or
\* repeated a delta of it.
LEMMA SpoiltReader ==
  ASSUME IInv, position = Len(checkpoints), NEW list \in Lists,
         NEW deltas, deltas = [k \in DOMAIN archive |-> Part(archive[k], list)],
         NEW m \in DOMAIN deltas
  PROVE  LET items == Part(checkpoints[1], list)
             later == \E l \in (m + 1)..Len(deltas) : deltas[l].kind = "Replace"
             inert == deltas[m].kind # "Replace" /\ deltas[m].items = <<>>
         IN  /\ Rebuilt(items, RemoveAt(deltas, m)) = Part(replica, list)
                  <=> later \/ inert
             /\ Rebuilt(items, InsertAt(deltas, m, deltas[m]))
                  = Part(replica, list)
                  <=> later \/ inert \/ deltas[m].kind = "Replace"
<1> DEFINE n == Len(checkpoints) - 1
           V == Values(list)
           D == {deltas[k] : k \in 1..n}
           items == Part(checkpoints[1], list)
<1>1. /\ n \in Nat /\ n \in 0..(Len(checkpoints) - 1)
      /\ DOMAIN archive = 1..n
  BY CheckpointFacts DEF IInv, ArchiveComplete
<1>2. /\ deltas = [k \in 1..n |-> Part(archive[k], list)]
      /\ DOMAIN deltas = 1..n
  BY <1>1
<1>3. deltas \in Seq(D) /\ Len(deltas) = n /\ m \in 1..n
  <2>1. \A k \in 1..n : deltas[k] \in D
    OBVIOUS
  <2>2. deltas = [k \in 1..n |-> deltas[k]]
    BY <1>2
  <2> HIDE DEF D, n
  <2> QED BY <1>1, <1>2, <2>1, <2>2
<1>4. items \in V /\ AllSuit(deltas, n, V)
  BY <1>1, <1>2, ArchiveSuits
<1>5. Rebuilt(items, deltas) = Part(replica, list)
  BY <1>2 DEF IInv, ReaderReplays
<1> HIDE DEF D, items, V
<1>6. PICK r : Run(r, n, V, deltas) /\ r[0] = items /\ r[n] = Rebuilt(items, deltas)
  <2>1. n \in Nat
    BY <1>1
  <2> HIDE DEF n
  <2> QED BY <1>4, <2>1, RebuiltIsRun
<1>7. deltas[m].kind = "Replace" => r[m] # r[m - 1]
  <2> SUFFICES ASSUME deltas[m].kind = "Replace"
               PROVE  r[m] # r[m - 1]
    OBVIOUS
  <2>1. /\ m \in 1..(Len(checkpoints) - 1) /\ m \in 0..n /\ m - 1 \in 0..n
        /\ (m - 1) + 1 = m
    BY <1>1, <1>3
  <2>2. deltas[m] = Part(archive[m], list)
    BY <1>2, <1>3
  <2>3. list # <<"log", 0>> /\ Apart(checkpoints[m], checkpoints[m + 1], list)
    BY <2>1, <2>2, ArchivedDelta
  <2>4. \A k \in 0..n : Reaches(r[k], checkpoints[k + 1], list)
    BY <1>2, <1>6, <2>3, RunReachesCheckpoints DEF V, items
  <2> QED BY <2>1, <2>3, <2>4 DEF Apart
<1>8. \A k \in 1..n : Suits(deltas[k], V)
  BY <1>4 DEF AllSuit
<1> HIDE DEF n
<1>9. Rebuilt(items, RemoveAt(deltas, m)) = r[n]
        <=> \/ \E l \in (m + 1)..Len(deltas) : deltas[l].kind = "Replace"
            \/ deltas[m].kind # "Replace" /\ deltas[m].items = <<>>
  BY <1>3, <1>6, <1>7, <1>8, LostDelta, ZenonT(40)
<1>10. Rebuilt(items, InsertAt(deltas, m, deltas[m])) = r[n]
         <=> \/ \E l \in (m + 1)..Len(deltas) : deltas[l].kind = "Replace"
             \/ deltas[m].kind # "Replace" /\ deltas[m].items = <<>>
             \/ deltas[m].kind = "Replace"
  <2>1. /\ \A k \in 1..Len(deltas) : Suits(deltas[k], V)
        /\ Run(r, Len(deltas), V, deltas) /\ m \in 1..Len(deltas)
    BY <1>3, <1>6, <1>8
  <2>2. Rebuilt(r[0], InsertAt(deltas, m, deltas[m])) = r[Len(deltas)]
          <=> \/ \E l \in (m + 1)..Len(deltas) : deltas[l].kind = "Replace"
              \/ deltas[m].kind # "Replace" /\ deltas[m].items = <<>>
              \/ deltas[m].kind = "Replace"
    BY <1>3, <2>1, RepeatedDelta, ZenonT(40)
  <2> QED BY <1>3, <1>6, <2>2
<1> QED BY <1>5, <1>6, <1>9, <1>10 DEF items

\* The invariant holds in every state of the machine.
THEOREM Invariance == Spec => []IInv
<1>1. Init => IInv
  BY InitIInv
<1>2. IInv /\ [Next]_vars => IInv'
  <2> SUFFICES ASSUME IInv, [Next]_vars PROVE IInv'
    OBVIOUS
  <2>1. CASE \E c \in Committees : ProcessSlot(c)
    BY <2>1, SlotKeepsIInv
  <2>2. CASE \E vote \in Votes :
               \E forCurrent, forPrevious
                    \in {<<>>} \cup {<<a>> : a \in Attestations} :
                 ProcessBlock(vote, forCurrent, forPrevious)
    BY <2>2, BlockKeepsIInv
  <2>3. CASE Checkpoint
    BY <2>3, CheckpointKeepsIInv
  <2>4. CASE CheckpointPanics \/ UNCHANGED vars
    <3>1. UNCHANGED <<activation, live, checkpoints, archive, position,
                      replica>>
      BY <2>4 DEF CheckpointPanics, vars
    <3>2. panicked' \in BOOLEAN
      <4>1. panicked' = TRUE \/ panicked' = panicked
        BY <2>4, Zenon DEF CheckpointPanics, vars
      <4>2. panicked \in BOOLEAN
        BY DEF IInv, TypeOK
      <4> QED BY <4>1, <4>2, Zenon
    <3>3. live' \in States /\ Scheduled(live)' /\ Follows(Last(checkpoints), live')
      BY <3>1 DEF IInv, TypeOK, ScheduleKept, Scheduled, LogAt
    <3> QED BY <3>1, <3>2, <3>3, ClientKeepsIInv
  <2>5. CASE Restore
    BY <2>5, RestoreKeepsIInv
  <2> QED BY <2>1, <2>2, <2>3, <2>4, <2>5 DEF Next
<1> QED BY <1>1, <1>2, PTL DEF Spec

\* Type correctness of the machine.
THEOREM TypeCorrect == Spec => []TypeOK
<1>1. IInv => TypeOK
  BY DEF IInv
<1> QED BY <1>1, Invariance, PTL

\* Attestations and committees are restored, whatever the schedule
\* (diff_attestations, diff_sync_committee).
THEOREM EpochListsAreRestored == Spec => []EpochListsRestored
<1>1. IInv => EpochListsRestored
  BY DEF IInv
<1> QED BY <1>1, Invariance, PTL

\* The number of votes is always right (diff_eth1_votes).
THEOREM VotesCountIsRestored == Spec => []VotesCountRestored
<1>1. IInv => VotesCountRestored
  BY DEF IInv
<1> QED BY <1>1, Invariance, PTL

\* Wrong votes have one cause: a list that was reset between two checkpoints
\* and grew back to its former length, with no replacement since
\* (diff_eth1_votes).
THEOREM VotesAreRestoredUnlessRegrown == Spec => []VotesRestoredUnlessRegrown
<1>1. IInv => VotesRestoredUnlessRegrown
  BY DEF IInv
<1> QED BY <1>1, Invariance, PTL

\* The historical log is restored if no checkpoint was taken at a slot where
\* calculate_log_count differs from the length of the log.
THEOREM LogIsRestoredAwayFromBoundary == Spec => []LogRestoredAwayFromBoundary
<1>1. IInv => LogRestoredAwayFromBoundary
  BY DEF IInv
<1> QED BY <1>1, Invariance, PTL

\* A delta that is lost, or applied twice, leaves the reader's list wrong
\* unless it did nothing, until a later delta replaces the list, which mends
\* it: apply never asks what a delta was made from.
THEOREM SpoiltListsStaySpoilt == Spec => []SpoiltUntilReplaced
<1>1. IInv => SpoiltUntilReplaced
  BY SpoiltReader DEF SpoiltUntilReplaced
<1> QED BY <1>1, Invariance, PTL

\* diff_historical_log panics only for a log from genesis and a target in the
\* last slot of a period: any other count is within the log.
THEOREM PanicsAtBoundaryOnly == Spec => PanicsOnlyAtBoundary
<1> DEFINE AtBoundary == activation = None /\ ~AwayFromBoundary(live)
<1>1. IInv /\ [Next]_vars => [panicked' /\ ~panicked => AtBoundary]_vars
  <2> SUFFICES ASSUME IInv, Next, panicked', ~panicked, ~AtBoundary
               PROVE  FALSE
    BY DEF vars
  <2> DEFINE last == Last(checkpoints)
             new == LogCount(live.slot, activation)
                      - LogCount(last.slot, activation)
  <2>1. CASE CheckpointPanics
    <3>1. /\ activation \in Activations /\ live \in States /\ last \in States
          /\ Scheduled(live) /\ Follows(last, live)
          /\ Start <= last.slot /\ Start <= live.slot
      <4>1. Scheduled(last)
        BY CheckpointFacts DEF IInv, ScheduleKept
      <4> QED BY <4>1, CheckpointFacts DEF IInv, ScheduleKept
    <3>2. /\ last.slot \in Nat /\ live.slot \in Nat /\ last.slot <= live.slot
          /\ live.log = LogAt(live.slot)
      BY <3>1 DEF States, Follows, Scheduled
    <3>3. /\ LogCount(last.slot, activation) \in Nat
          /\ LogCount(live.slot, activation) \in Nat
          /\ LogCount(live.slot, activation) <= Len(live.log)
          /\ live.log \in Seq(Nat)
      <4>1. live.log \in Seq(Nat)
        BY <3>1, <3>2, LogAtFacts
      <4>2. LogCount(live.slot, activation) <= Len(live.log)
        BY <3>1, <3>2, <4>1, LogCountFacts, LogCountIsLength
      <4> QED BY <3>1, <3>2, <4>1, <4>2, LogCountFacts
    <3>4. ~(Len(live.log) < new)
      BY <3>3
    <3>5. DiffHistoricalLog(last.slot, live.slot, live.log, activation) # Panic
      BY <3>4 DEF DiffHistoricalLog, Panic, Unchanged, Appended
    <3> QED BY <2>1, <3>5 DEF CheckpointPanics, Create
  <2>2. CASE ~CheckpointPanics
    BY <2>2 DEF Next, ProcessSlot, ProcessBlock, Checkpoint, Restore
  <2> QED BY <2>1, <2>2
<1> QED BY <1>1, Invariance, PTL DEF Spec, PanicsOnlyAtBoundary

\* The checkpoints as the archive sees them.
Viewed == [k \in 1..Len(checkpoints) |-> View(checkpoints[k])]

\* A checkpoint appends the view of the live state.
LEMMA CheckpointAppendsView ==
  ASSUME IInv, Checkpoint
  PROVE  Viewed' = Append(Viewed, View(live))
<1> DEFINE n == Len(checkpoints)
           Views == {View(state) : state \in States}
<1>1. n \in Nat /\ live \in States
      /\ \A k \in 1..n : checkpoints[k] \in States
  BY CheckpointFacts
<1>2. /\ Len(checkpoints') = n + 1
      /\ checkpoints'[n + 1] = live
      /\ \A k \in 1..n : checkpoints'[k] = checkpoints[k]
  BY DEF IInv, TypeOK, Checkpoint
<1>3. Viewed \in Seq(Views) /\ Len(Viewed) = n
  <2>1. \A k \in 1..n : View(checkpoints[k]) \in Views
    BY <1>1
  <2> HIDE DEF Views
  <2> QED BY <1>1, <2>1 DEF Viewed
<1>4. View(live) \in Views
  BY <1>1
<1>5. Append(Viewed, View(live)) =
        [k \in 1..(n + 1) |-> IF k = n + 1 THEN View(live) ELSE Viewed[k]]
  <2> HIDE DEF Views
  <2> DEFINE appended == Append(Viewed, View(live))
  <2>1. /\ appended \in Seq(Views)
        /\ Len(appended) = n + 1
        /\ \A k \in 1..n : appended[k] = Viewed[k]
        /\ appended[n + 1] = View(live)
    BY <1>3, <1>4, AppendProperties
  <2> HIDE DEF appended
  <2>2. appended = [k \in 1..(n + 1) |-> appended[k]]
    BY <1>1, <2>1
  <2>3. \A k \in 1..(n + 1) : appended[k] =
          IF k = n + 1 THEN View(live) ELSE Viewed[k]
    BY <1>1, <2>1
  <2> QED BY <2>2, <2>3 DEF appended
<1>6. ASSUME NEW k \in 1..(n + 1)
      PROVE  View(checkpoints'[k])
               = IF k = n + 1 THEN View(live) ELSE Viewed[k]
  <2>1. CASE k = n + 1
    BY <1>2, <2>1
  <2>2. CASE k # n + 1
    <3>1. k \in 1..n
      BY <1>1, <2>2
    <3> QED BY <1>2, <2>2, <3>1 DEF Viewed
  <2> QED BY <2>1, <2>2
<1>7. Viewed' = [k \in 1..(n + 1) |-> View(checkpoints'[k])]
  BY <1>2 DEF Viewed
<1> QED BY <1>5, <1>6, <1>7

\* The machine of the lists implements the archive, seen through the lists
\* whose deltas compare contents: the reader's attestations and committees
\* are at each position those of the checkpoint with that number, in order.
THEOREM ListsImplementArchive == Spec => ImplementsArchive
<1>1. Init => Promise!Init
  <2> SUFFICES ASSUME Init
               PROVE  Promise!Init
    OBVIOUS
  <2>1. Viewed = <<View(live)>>
    BY DEF Init, Viewed
  <2> QED BY <2>1 DEF Init, Viewed, Promise!Init
<1>2. IInv /\ IInv' /\ [Next]_vars => [Promise!Next]_(Promise!vars)
  <2> SUFFICES ASSUME IInv, IInv', [Next]_vars
               PROVE  [Promise!Next]_(Promise!vars)
    OBVIOUS
  <2>1. CASE UNCHANGED <<checkpoints, archive, position, replica>>
    BY <2>1 DEF Promise!Next, Promise!Advance
  <2>2. CASE Checkpoint
    <3>1. Viewed' = Append(Viewed, View(live))
      BY <2>2, CheckpointAppendsView
    <3>2. UNCHANGED <<live, position, replica>>
      BY <2>2 DEF Checkpoint
    <3>3. View(live)' = View(live) /\ View(replica)' = View(replica)
      BY <3>2
    <3> QED BY <3>1, <3>2, <3>3
            DEF Viewed, Promise!Next, Promise!Checkpoint
  <2>3. CASE Restore
    <3>1. /\ position \in 1..(Len(checkpoints) - 1)
          /\ position' = position + 1
          /\ UNCHANGED <<live, checkpoints>>
      BY <2>3 DEF IInv, TypeOK, Restore
    <3>2. View(replica') = View(checkpoints'[position'])
      BY DEF IInv, SlotRestored, EpochListsRestored, Target, View
    <3>3. /\ Len(Viewed) = Len(checkpoints)
          /\ View(replica') = Viewed[position + 1]
          /\ Viewed' = Viewed
          /\ View(live)' = View(live)
      BY <3>1, <3>2 DEF Viewed, IInv, TypeOK
    <3>4. position < Len(Viewed)
      BY <3>1, <3>3 DEF IInv, TypeOK
    <3> QED BY <3>1, <3>3, <3>4
            DEF Viewed, Promise!Next, Promise!Restore
  <2>4. CASE UNCHANGED vars
    BY <2>1, <2>4 DEF vars
  <2> QED BY <2>1, <2>2, <2>3, <2>4
          DEF Next, ProcessSlot, ProcessBlock, CheckpointPanics
<1> QED BY <1>1, <1>2, Invariance, PTL
        DEF Spec, ImplementsArchive, Promise!Spec
=============================================================================
