-------------------------- MODULE HeaderBuilderProofs --------------------------
(***************************************************************************)
(* Theorems about HeaderBuilder and MisbehaviourL1, for every length of a  *)
(* sync committee period and every number of periods: the shape of the two *)
(* chains of L1 headers while L1 goes on finalizing, and from it that a    *)
(* light client verifies them, that their slots are in order and that the  *)
(* state they leave is a function of the block.                            *)
(***************************************************************************)
EXTENDS MisbehaviourL1, NumberLemmas, SequenceTheorems

-----------------------------------------------------------------------------
(* The inductive invariant.                                                *)

\* The beacon node's update of a period finalizes a slot of that period.
UpdatesInPeriod ==
  \A q \in Periods :
    q <= Period(head) => Period(best[q]) = q /\ best[q] <= head

\* The client was created from the update of the agreed block's previous period,
\* which no longer changes unless that is the first period.
StoreShape ==
  pc # "create" =>
    /\ meta.agreed <= head
    /\ store \in ConsensusStates
    /\ store.cur = agreedPeriod /\ store.next = agreedPeriod + 1
    /\ Period(store.slot) = agreedPeriod
    /\ store.slot <= best[agreedPeriod]

\* The preimage lies between the agreed block and the finalized head it was derived
\* from, and its snapshot is an update of that head's period.
Derived == pc \notin {"create", "derive"}
MetaShape ==
  Derived =>
    /\ meta.agreed <= meta.claimed /\ meta.claimed <= meta.l1 /\ meta.l1 <= head
    /\ Period(meta.snapshot) = latestPeriod /\ meta.snapshot <= meta.l1

\* The update of a period, as an L1 header checked by that period's committee.
UpdateOf(h, q, slot) == h = L1Header(q, TRUE, q, slot, q + 1)

\* The deterministic header of the claimed block is the update of its previous
\* period, the one the beacon node still has unless that is the first period.
HasClaimed == pc \in {"account", "t2d", "bootstrap", "t2dLoop", "d2l", "d2lLoop", "preimage", "done"}
ClaimedShape ==
  HasClaimed =>
    /\ claimedL1 = L1Header(Nil, TRUE, claimedPeriod, claimedL1.slot, claimedPeriod + 1)
    /\ claimedL1.slot \in Slots /\ Period(claimedL1.slot) = claimedPeriod
    /\ claimedL1.slot <= best[claimedPeriod]
    /\ latestPeriod > 0 => claimedL1.slot = best[claimedPeriod]
    /\ store.slot <= claimedL1.slot

\* The chain from the agreed block while it is built: one update per period from
\* the one after the agreed block's on.
T2DUpdates(n) ==
  \A k \in 1..n : UpdateOf(t2d[k], agreedPeriod + k, best[agreedPeriod + k])
T2DShape ==
  /\ pc \in {"create", "derive", "finalized", "agreed", "claimed", "account", "t2d", "bootstrap"} =>
       t2d = <<>>
  /\ pc = "bootstrap" => agreedPeriod = claimedPeriod /\ Period(base) = agreedPeriod
  /\ pc = "t2dLoop" =>
       /\ agreedPeriod < claimedPeriod
       /\ p \in (agreedPeriod + 1)..(claimedPeriod + 1)
       /\ Len(t2d) = p - agreedPeriod - 1
       /\ T2DUpdates(Len(t2d))
       /\ trusted.next = p
       /\ p > agreedPeriod + 1 => trusted.cur = p - 1

\* Once complete it ends with the claimed header.
T2DComplete ==
  pc \in {"d2l", "d2lLoop", "preimage", "done"} =>
    /\ Len(t2d) = claimedPeriod - agreedPeriod + 1
    /\ T2DUpdates(Len(t2d) - 1)
    /\ t2d[Len(t2d)] = L1Header(claimedPeriod, FALSE, claimedPeriod, claimedL1.slot, claimedPeriod + 1)

\* The chain from the claimed block on: one update per period up to the latest, of
\* which it has the snapshot.
LatestSlot(q) == IF q = latestPeriod THEN meta.snapshot ELSE best[q]
D2LUpdates(n) ==
  \A k \in 1..n : UpdateOf(d2l[k], claimedPeriod + k, LatestSlot(claimedPeriod + k))
D2LShape ==
  /\ pc \notin {"d2lLoop", "preimage", "done", "error"} => d2l = <<>>
  /\ pc \in {"d2lLoop", "preimage", "done"} => claimedPeriod < latestPeriod
  /\ pc = "d2lLoop" =>
       /\ p \in (claimedPeriod + 1)..(latestPeriod + 1)
       /\ Len(d2l) = p - claimedPeriod - 1
       /\ D2LUpdates(Len(d2l))
       /\ trusted.next = p
       /\ p > claimedPeriod + 1 => trusted.cur = p - 1
  /\ pc \in {"preimage", "done"} =>
       /\ Len(d2l) = latestPeriod - claimedPeriod + 1
       /\ D2LUpdates(Len(d2l) - 1)
       /\ d2l[Len(d2l)] = L1Header(latestPeriod, FALSE, latestPeriod, meta.l1, Nil)

\* A period check fails in the first period only.
PeriodErrors == err = "periods" => pc = "error" /\ latestPeriod = 0

IInv ==
  /\ TypeOK
  /\ UpdatesInPeriod
  /\ StoreShape
  /\ MetaShape
  /\ ClaimedShape
  /\ T2DShape
  /\ T2DComplete
  /\ D2LShape
  /\ PeriodErrors

\* What a misbehaviour tool has read are updates of the newest preimage's period.
Updates == Seq([header : L1Headers, execution : Slots])
Cached == {meta.snapshot, meta.l1}
ToolReading ==
  /\ tool \in {"none", "l1", "l2", "written"}
  /\ tool # "none" => pc = "finalized"
  /\ tool \in {"l1", "l2"} =>
       /\ updates \in Updates /\ Len(updates) \in {1, 2}
       /\ \A k \in DOMAIN updates :
            /\ updates[k].header.signer = latestPeriod
            /\ updates[k].header.slot \in Cached /\ updates[k].execution \in Cached
       /\ Len(updates) = 1 => updates[1].execution = updates[1].header.slot

\* What it has written is checked by the period's committee.
ToolWritten ==
  tool = "written" /\ latestPeriod > 0 =>
    /\ written.state.next = latestPeriod
    /\ Period(written.state.slot) = latestPeriod - 1 /\ written.state.slot \in Slots
    /\ \A k \in DOMAIN written.updates :
         LET h == written.updates[k].header
         IN  h.committee = latestPeriod /\ h.isNext = TRUE /\ h.signer = latestPeriod
             /\ h.slot \in Cached
    /\ Len(written.updates) = 1 =>
         \A k \in DOMAIN written.updates : written.updates[k].execution = written.updates[k].header.slot

ToolIInv == IInv /\ ToolReading /\ ToolWritten

-----------------------------------------------------------------------------
(* Lemmas about slots and periods.                                         *)

\* Slots are numbers.
LEMMA SlotsNat == (\A s \in Slots : s \in Nat) /\ 0 \in Slots
<1>1. (MaxPeriod + 1) * SlotsPerPeriod = MaxPeriod * SlotsPerPeriod + SlotsPerPeriod
      /\ MaxPeriod * SlotsPerPeriod \in Nat
  BY HeaderBuilderAssumption, ProductNat
<1>2. QED
  BY <1>1, HeaderBuilderAssumption DEF Slots

\* A later slot is of the same or a later period, the next slot of the same or the next.
LEMMA PeriodOrder ==
  ASSUME NEW a \in Nat, NEW b \in Nat
  PROVE  /\ Period(a) \in Nat
         /\ a <= b => Period(a) <= Period(b)
         /\ Period(a) < Period(b) => a < b
         /\ Period(a + 1) <= Period(a) + 1
<1>1. SlotsPerPeriod \in Nat \ {0}
  BY HeaderBuilderAssumption
<1>2. Period(a) \in Nat /\ Period(b) \in Nat
  BY <1>1, DivMod DEF Period
<1>3. (a <= b => Period(a) <= Period(b)) /\ (b <= a => Period(b) <= Period(a))
  BY <1>1, DivMonotone DEF Period
<1>4. Period(a + 1) <= Period(a) + 1
  BY <1>1, DivStep DEF Period
<1>5. QED
  BY <1>2, <1>3, <1>4

\* The period of a slot is one of the periods.
LEMMA PeriodType ==
  ASSUME NEW s \in Slots
  PROVE  Period(s) \in Periods /\ Period(s) \in Nat
<1> DEFINE last == (MaxPeriod + 1) * SlotsPerPeriod - 1
<1>1. SlotsPerPeriod \in Nat \ {0} /\ MaxPeriod \in Nat
  BY HeaderBuilderAssumption
<1>2. MaxPeriod * SlotsPerPeriod \in Nat
      /\ last = MaxPeriod * SlotsPerPeriod + (SlotsPerPeriod - 1)
  BY <1>1, ProductNat
<1>3. last \in Nat /\ MaxPeriod * SlotsPerPeriod <= last
      /\ last < MaxPeriod * SlotsPerPeriod + SlotsPerPeriod
  BY <1>1, <1>2
<1>4. s \in Nat /\ s <= last
  BY SlotsNat DEF Slots
<1> HIDE DEF last
<1>5. Period(last) = MaxPeriod
  BY <1>1, <1>3, QuotientIs DEF Period
<1>6. Period(s) <= MaxPeriod /\ Period(s) \in Nat
  BY <1>3, <1>4, <1>5, PeriodOrder
<1>7. QED
  BY <1>6 DEF Periods

\* The previous period is one earlier, but for the first.
LEMMA PreviousPeriodType ==
  ASSUME NEW s \in Slots
  PROVE  /\ PreviousPeriod(s) \in Periods /\ PreviousPeriod(s) \in Nat
         /\ PreviousPeriod(s) <= Period(s)
         /\ Period(s) > 0 => PreviousPeriod(s) < Period(s)
         /\ Period(s) = 0 => PreviousPeriod(s) = 0
  BY PeriodType, HeaderBuilderAssumption DEF PreviousPeriod, Periods

\* The three periods the function works with, and the head's.
LEMMA PeriodsTyped ==
  ASSUME TypeOK
  PROVE  /\ agreedPeriod \in Periods /\ claimedPeriod \in Periods /\ latestPeriod \in Periods
         /\ agreedPeriod \in Nat /\ claimedPeriod \in Nat /\ latestPeriod \in Nat
         /\ Period(head) \in Nat
         /\ Period(head) \in Periods /\ (\A q \in Periods : q \in Nat)
         /\ head \in Nat /\ meta.l1 \in Slots /\ meta.snapshot \in Slots
         /\ Period(meta.snapshot) \in Nat
<1>1. meta.agreed \in Slots /\ meta.claimed \in Slots /\ meta.l1 \in Slots /\ head \in Slots
      /\ meta.snapshot \in Slots
  BY DEF TypeOK
<1>2. agreedPeriod \in Periods /\ claimedPeriod \in Periods
  BY <1>1, PreviousPeriodType DEF agreedPeriod, claimedPeriod
<1>3. latestPeriod \in Periods /\ Period(head) \in Periods /\ Period(meta.snapshot) \in Nat
  BY <1>1, PeriodType DEF latestPeriod
<1>4. (\A q \in Periods : q \in Nat)
  BY HeaderBuilderAssumption DEF Periods
<1>5. QED
  BY <1>1, <1>2, <1>3, <1>4, SlotsNat

\* The periods of agreed block, claimed block and snapshot do not go back, and that of
\* the claimed block is over unless the snapshot's is the first.
LEMMA PeriodsOrdered ==
  ASSUME TypeOK, MetaShape, Derived
  PROVE  /\ agreedPeriod <= claimedPeriod
         /\ claimedPeriod <= latestPeriod
         /\ latestPeriod <= Period(head)
         /\ latestPeriod > 0 => claimedPeriod < latestPeriod
<1>1. /\ meta.agreed \in Slots /\ meta.claimed \in Slots /\ meta.l1 \in Slots /\ head \in Slots
      /\ meta.agreed <= meta.claimed /\ meta.claimed <= meta.l1 /\ meta.l1 <= head
  BY DEF TypeOK, MetaShape
<1>2. Period(meta.agreed) <= Period(meta.claimed) /\ Period(meta.claimed) <= latestPeriod
      /\ latestPeriod <= Period(head)
  BY <1>1, PeriodOrder, SlotsNat DEF latestPeriod
<1>3. /\ Period(meta.agreed) \in Nat /\ Period(meta.claimed) \in Nat /\ latestPeriod \in Nat
      /\ Period(head) \in Nat
  BY <1>1, PeriodType DEF latestPeriod
<1>4. QED
  BY <1>2, <1>3, HeaderBuilderAssumption DEF agreedPeriod, claimedPeriod, PreviousPeriod

\* Updates of later periods finalize later slots.
LEMMA BestOrdered ==
  ASSUME TypeOK, UpdatesInPeriod, NEW q \in Periods, q <= Period(head)
  PROVE  /\ best[q] \in Slots /\ best[q] \in Nat /\ Period(best[q]) = q /\ best[q] <= head
         /\ \A m \in Periods : q < m /\ m <= Period(head) => best[q] < best[m]
<1>1. \A m \in Periods : best[m] \in Slots
  BY DEF TypeOK
<1>2. Period(best[q]) = q /\ best[q] <= head
  BY DEF UpdatesInPeriod
<1>3. ASSUME NEW m \in Periods, q < m, m <= Period(head) PROVE best[q] < best[m]
  <2>1. Period(best[m]) = m
    BY <1>3 DEF UpdatesInPeriod
  <2>2. best[q] \in Nat /\ best[m] \in Nat
    BY <1>1, SlotsNat
  <2>3. QED
    BY <1>2, <1>3, <2>1, <2>2, PeriodOrder
<1>4. QED
  BY <1>1, <1>2, <1>3, SlotsNat

-----------------------------------------------------------------------------
(* The steps of L1 and of those who prepare the function.                  *)

\* What the beacon node answers is an L1 header.
LEMMA UpdateTyped ==
  ASSUME NEW slot \in Slots, NEW c \in Committee \cup {Nil}
  PROVE  /\ NextSyncCommitteeUpdate(slot, c) \in L1Headers
         /\ Period(slot) \in Nat /\ Period(slot) + 1 \in Committee
<1>1. Period(slot) \in Periods /\ Period(slot) + 1 \in Committee
  BY PeriodType, HeaderBuilderAssumption DEF Periods, Committee
<1>2. QED
  BY <1>1, PeriodType DEF NextSyncCommitteeUpdate, L1Header, L1Headers

\* A finalized slot changes an update of the current period only.
LEMMA FinalizeChanges ==
  ASSUME TypeOK, UpdatesInPeriod, Finalize
  PROVE  /\ head' \in Slots /\ best' \in [Periods -> Slots] /\ UpdatesInPeriod'
         /\ head <= head' /\ Period(head) <= Period(head')
         /\ \A q \in Periods : q < Period(head) => best'[q] = best[q]
         /\ \A q \in Periods : q <= Period(head) => best[q] <= best'[q]
         /\ UNCHANGED <<store, meta, pc, built, err>>
<1>1. head \in Nat /\ head' = head + 1 /\ head' \in Slots /\ best \in [Periods -> Slots]
  BY SlotsNat DEF TypeOK, Finalize
<1>2. Period(head) <= Period(head') /\ Period(head') <= Period(head) + 1
      /\ Period(head) \in Periods /\ Period(head') \in Periods /\ (\A q \in Periods : q \in Nat)
  BY <1>1, PeriodOrder, PeriodType, HeaderBuilderAssumption DEF TypeOK, Periods
<1>3. CASE best' = [best EXCEPT ![Period(head')] = head']
  <2>1. /\ best' \in [Periods -> Slots] /\ best'[Period(head')] = head'
        /\ \A q \in Periods : q # Period(head') => best'[q] = best[q]
    BY <1>1, <1>2, <1>3
  <2>2. ASSUME NEW q \in Periods, q <= Period(head')
        PROVE  Period(best'[q]) = q /\ best'[q] <= head'
    <3>1. CASE q = Period(head')
      BY <1>1, <2>1, <3>1
    <3>2. CASE q # Period(head')
      <4>1. q \in Nat /\ Period(head) \in Nat /\ Period(head') \in Nat
        BY <1>2
      <4>2. q <= Period(head) /\ best'[q] = best[q]
        BY <1>2, <2>1, <2>2, <3>2, <4>1
      <4>3. best[q] \in Nat /\ best[q] <= head /\ Period(best[q]) = q
        BY <1>1, <4>2, SlotsNat DEF UpdatesInPeriod
      <4>4. QED
        BY <1>1, <4>2, <4>3
    <3>3. QED
      BY <3>1, <3>2
  <2>3. ASSUME NEW q \in Periods, q <= Period(head) PROVE best[q] <= best'[q]
    <3>1. best[q] <= head /\ best[q] \in Nat
      BY <1>1, <2>3, SlotsNat DEF UpdatesInPeriod
    <3>2. QED
      BY <1>1, <2>1, <3>1
  <2>4. \A q \in Periods : q < Period(head) => best'[q] = best[q]
    BY <1>2, <2>1
  <2>5. QED
    BY <1>1, <1>2, <2>1, <2>2, <2>3, <2>4 DEF UpdatesInPeriod, Finalize
<1>4. CASE Period(head') = Period(head) /\ UNCHANGED best
  <2>1. UpdatesInPeriod'
    <3>1. ASSUME NEW q \in Periods, q <= Period(head')
          PROVE  Period(best[q]) = q /\ best[q] <= head'
      <4>1. Period(best[q]) = q /\ best[q] <= head /\ best[q] \in Nat
        BY <1>1, <1>4, <3>1, SlotsNat DEF UpdatesInPeriod
      <4>2. QED
        BY <1>1, <4>1
    <3>2. QED
      BY <1>4, <3>1 DEF UpdatesInPeriod
  <2>2. \A q \in Periods : best[q] <= best'[q]
    <3>1. \A q \in Periods : best[q] \in Nat
      BY <1>1, SlotsNat
    <3>2. QED
      BY <1>4, <3>1
  <2>3. QED
    BY <1>1, <1>2, <1>4, <2>1, <2>2 DEF Finalize
<1>5. QED
  BY <1>3, <1>4 DEF Finalize

\* The three periods depend on the preimage only.
LEMMA SamePeriods ==
  ASSUME UNCHANGED meta
  PROVE  UNCHANGED <<agreedPeriod, claimedPeriod, latestPeriod>>
  BY DEF agreedPeriod, claimedPeriod, latestPeriod

\* Finalize keeps the invariant.
LEMMA FinalizeStep ==
  ASSUME IInv, Finalize
  PROVE  IInv'
<1> USE DEF IInv
<1>1. /\ head' \in Slots /\ best' \in [Periods -> Slots] /\ UpdatesInPeriod'
      /\ head <= head' /\ Period(head) <= Period(head')
      /\ \A q \in Periods : q < Period(head) => best'[q] = best[q]
      /\ \A q \in Periods : q <= Period(head) => best[q] <= best'[q]
      /\ UNCHANGED <<store, meta, pc, claimedL1, base, p, trusted, t2d, d2l, err>>
  BY FinalizeChanges DEF built
<1>2. UNCHANGED <<agreedPeriod, claimedPeriod, latestPeriod>>
  BY <1>1, SamePeriods
<1>3. TypeOK'
  BY <1>1 DEF TypeOK
<1>4. /\ agreedPeriod \in Periods /\ claimedPeriod \in Periods /\ latestPeriod \in Periods
      /\ agreedPeriod \in Nat /\ claimedPeriod \in Nat /\ latestPeriod \in Nat
      /\ Period(head) \in Nat /\ (\A q \in Periods : q \in Nat) /\ head \in Nat /\ head' \in Nat
      /\ meta.l1 \in Nat /\ meta.snapshot \in Nat /\ meta.agreed \in Nat
  BY <1>1, PeriodsTyped, SlotsNat DEF TypeOK
<1>5. StoreShape'
  <2>1. ASSUME pc # "create"
        PROVE  meta.agreed <= head' /\ store.slot <= best'[agreedPeriod]
    <3>1. agreedPeriod <= Period(head)
      <4>1. meta.agreed \in Slots /\ meta.agreed <= head
        BY <2>1 DEF StoreShape, TypeOK
      <4>2. Period(meta.agreed) <= Period(head) /\ Period(meta.agreed) \in Nat
        BY <1>4, <4>1, PeriodOrder
      <4>3. QED
        BY <1>4, <4>1, <4>2, PreviousPeriodType DEF agreedPeriod
    <3>2. store.slot \in Nat /\ best[agreedPeriod] \in Nat /\ best'[agreedPeriod] \in Nat
      BY <1>1, <1>4, <2>1, SlotsNat DEF StoreShape, ConsensusStates, TypeOK
    <3>3. QED
      BY <1>1, <1>4, <2>1, <3>1, <3>2 DEF StoreShape
  <2>2. QED
    BY <1>1, <1>2, <2>1 DEF StoreShape
<1>6. MetaShape'
  BY <1>1, <1>2, <1>4 DEF MetaShape, Derived
<1>7. CASE ~Derived
  <2>1. ClaimedShape' /\ T2DShape' /\ T2DComplete' /\ D2LShape'
    BY <1>1, <1>7 DEF Derived, ClaimedShape, HasClaimed, T2DShape, T2DComplete, D2LShape
  <2>2. PeriodErrors'
    BY <1>1, <1>2 DEF PeriodErrors
  <2>3. QED
    BY <1>1, <1>3, <1>5, <1>6, <2>1, <2>2
<1>8. CASE Derived
  <2>1. /\ agreedPeriod <= claimedPeriod /\ claimedPeriod <= latestPeriod
        /\ latestPeriod <= Period(head)
        /\ latestPeriod > 0 => claimedPeriod < latestPeriod
    BY <1>8, PeriodsOrdered
  <2>2. \A q \in Periods : q < latestPeriod => best'[q] = best[q]
    BY <1>1, <1>4, <2>1
  <2>3. ClaimedShape'
    <3>1. ASSUME HasClaimed
          PROVE  claimedL1.slot <= best'[claimedPeriod]
      <4>1. claimedL1.slot \in Nat /\ best[claimedPeriod] \in Nat /\ best'[claimedPeriod] \in Nat
        BY <1>1, <1>4, <3>1, SlotsNat DEF ClaimedShape, TypeOK
      <4>2. best[claimedPeriod] <= best'[claimedPeriod]
        BY <1>1, <1>4, <2>1
      <4>3. QED
        BY <3>1, <4>1, <4>2 DEF ClaimedShape
    <3>2. latestPeriod > 0 => best'[claimedPeriod] = best[claimedPeriod]
      BY <1>4, <2>1, <2>2
    <3>3. QED
      BY <1>1, <1>2, <3>1, <3>2 DEF ClaimedShape, HasClaimed
  <2>4. ASSUME NEW n \in Nat, agreedPeriod + n <= claimedPeriod, latestPeriod > 0, T2DUpdates(n)
        PROVE  T2DUpdates(n)'
    <3>1. \A k \in 1..n : agreedPeriod + k \in Periods /\ agreedPeriod + k < latestPeriod
      BY <1>4, <2>1, <2>4, HeaderBuilderAssumption DEF Periods
    <3>2. QED
      BY <1>1, <1>2, <2>2, <2>4, <3>1 DEF T2DUpdates, UpdateOf
  <2>5. T2DShape'
    <3>1. ASSUME pc = "t2dLoop" PROVE T2DUpdates(Len(t2d))'
      <4>1. Len(t2d) \in Nat /\ agreedPeriod + Len(t2d) <= claimedPeriod /\ latestPeriod > 0
        BY <1>4, <2>1, <3>1 DEF T2DShape
      <4>2. QED
        BY <1>1, <2>4, <3>1, <4>1 DEF T2DShape
    <3>2. QED
      BY <1>1, <1>2, <3>1 DEF T2DShape
  <2>6. T2DComplete'
    <3>1. ASSUME pc \in {"d2l", "d2lLoop", "preimage", "done"} PROVE T2DUpdates(Len(t2d) - 1)'
      <4> DEFINE n == Len(t2d) - 1
      <4>1. Len(t2d) = claimedPeriod - agreedPeriod + 1 /\ T2DUpdates(n)
        BY <3>1 DEF T2DComplete
      <4>2. n = claimedPeriod - agreedPeriod
        BY <1>4, <4>1
      <4>3. n' = n
        BY <1>1
      <4> HIDE DEF n
      <4>4. n \in Nat /\ agreedPeriod + n <= claimedPeriod
        BY <1>4, <2>1, <4>2
      <4>5. CASE latestPeriod > 0
        BY <2>4, <4>1, <4>3, <4>4, <4>5 DEF n
      <4>6. CASE latestPeriod = 0
        <5>1. n = 0
          BY <1>4, <2>1, <4>2, <4>6
        <5>2. QED
          BY <4>3, <5>1 DEF T2DUpdates, n
      <4>7. QED
        BY <1>4, <4>5, <4>6 DEF n
    <3>2. QED
      BY <1>1, <1>2, <3>1 DEF T2DComplete
  <2>7. ASSUME NEW n \in Nat, claimedPeriod + n <= latestPeriod, D2LUpdates(n)
        PROVE  D2LUpdates(n)'
    <3>1. \A k \in 1..n : claimedPeriod + k \in Periods /\ claimedPeriod + k <= latestPeriod
      BY <1>4, <2>1, <2>7, HeaderBuilderAssumption DEF Periods
    <3>2. \A k \in 1..n : LatestSlot(claimedPeriod + k)' = LatestSlot(claimedPeriod + k)
      BY <1>1, <1>2, <1>4, <2>2, <3>1 DEF LatestSlot
    <3>3. QED
      BY <1>1, <1>2, <2>7, <3>2 DEF D2LUpdates, UpdateOf
  <2>8. D2LShape'
    <3>1. ASSUME pc = "d2lLoop" PROVE D2LUpdates(Len(d2l))'
      <4>1. Len(d2l) \in Nat /\ claimedPeriod + Len(d2l) <= latestPeriod
        BY <1>4, <2>1, <3>1 DEF D2LShape
      <4>2. QED
        BY <1>1, <2>7, <3>1, <4>1 DEF D2LShape
    <3>2. ASSUME pc \in {"preimage", "done"} PROVE D2LUpdates(Len(d2l) - 1)'
      <4> DEFINE n == Len(d2l) - 1
      <4>1. Len(d2l) = latestPeriod - claimedPeriod + 1 /\ D2LUpdates(n)
        BY <3>2 DEF D2LShape
      <4>2. n = latestPeriod - claimedPeriod
        BY <1>4, <4>1
      <4>3. n' = n
        BY <1>1
      <4> HIDE DEF n
      <4>4. n \in Nat /\ claimedPeriod + n <= latestPeriod
        BY <1>4, <2>1, <4>2
      <4>5. QED
        BY <2>7, <4>1, <4>3, <4>4 DEF n
    <3>3. QED
      BY <1>1, <1>2, <3>1, <3>2 DEF D2LShape
  <2>9. PeriodErrors'
    BY <1>1, <1>2 DEF PeriodErrors
  <2>10. QED
    BY <1>1, <1>3, <1>5, <1>6, <2>3, <2>5, <2>6, <2>8, <2>9
<1>9. QED
  BY <1>7, <1>8

\* CreateClient keeps the invariant.
LEMMA CreateClientStep ==
  ASSUME IInv, NEW a \in 0..head, CreateClient(a)
  PROVE  IInv'
<1> USE DEF IInv
<1> DEFINE q == PreviousPeriod(a)
<1>1. /\ pc = "create" /\ pc' = "derive"
      /\ store' = InitialState(a) /\ meta' = [meta EXCEPT !.agreed = a]
      /\ UNCHANGED <<head, best, claimedL1, base, p, trusted, t2d, d2l, err>>
  BY DEF CreateClient, env, built
<1>2. head \in Slots /\ head \in Nat /\ a \in Slots /\ a \in Nat /\ a <= head
  BY SlotsNat, HeaderBuilderAssumption DEF TypeOK, Slots
<1>3. q \in Periods /\ q \in Nat /\ q <= Period(head) /\ Period(head) \in Periods
  <2>1. Period(a) <= Period(head) /\ Period(a) \in Nat /\ Period(head) \in Nat
    BY <1>2, PeriodOrder
  <2>2. q \in Periods /\ q \in Nat /\ q <= Period(a)
    BY <1>2, PreviousPeriodType
  <2>3. QED
    BY <1>2, <2>1, <2>2, PeriodType
<1>4. agreedPeriod' = q /\ meta'.agreed = a
  BY <1>1 DEF agreedPeriod, TypeOK
<1> HIDE DEF q
<1>5. best[q] \in Slots /\ best[q] \in Nat /\ Period(best[q]) = q
  BY <1>3, BestOrdered
<1>6. store' = [slot |-> best[q], cur |-> q, next |-> q + 1]
  BY <1>1, <1>5 DEF InitialState, q
<1>7. store' \in ConsensusStates
  <2>1. q \in Committee /\ q + 1 \in Committee
    BY <1>3, HeaderBuilderAssumption DEF Periods, Committee
  <2>2. QED
    BY <1>5, <1>6, <2>1 DEF ConsensusStates
<1>8. TypeOK'
  BY <1>1, <1>2, <1>7 DEF TypeOK
<1>9. StoreShape'
  BY <1>1, <1>2, <1>4, <1>5, <1>6, <1>7 DEF StoreShape
<1>10. UpdatesInPeriod' /\ MetaShape' /\ ClaimedShape' /\ T2DShape' /\ T2DComplete' /\ D2LShape'
  BY <1>1 DEF UpdatesInPeriod, MetaShape, Derived, ClaimedShape, HasClaimed, T2DShape, T2DComplete, D2LShape
<1>11. PeriodErrors'
  BY <1>1 DEF PeriodErrors
<1>12. QED
  BY <1>8, <1>9, <1>10, <1>11

\* MakePreimage keeps the invariant.
LEMMA MakePreimageStep ==
  ASSUME IInv, NEW c \in meta.agreed..head, MakePreimage(c)
  PROVE  IInv'
<1> USE DEF IInv
<1>1. /\ pc = "derive" /\ pc' = "finalized"
      /\ meta' = [meta EXCEPT !.claimed = c, !.l1 = head, !.snapshot = best[Period(head)]]
      /\ UNCHANGED <<head, best, store, claimedL1, base, p, trusted, t2d, d2l, err>>
  BY DEF MakePreimage, env, built
<1>2. /\ head \in Slots /\ head \in Nat /\ meta.agreed \in Slots /\ meta.agreed \in Nat
      /\ c \in Nat /\ meta.agreed <= c /\ c <= head
  BY SlotsNat DEF TypeOK
<1>3. c \in Slots
  BY <1>2, HeaderBuilderAssumption DEF Slots
<1>4. Period(head) \in Periods /\ Period(head) \in Nat
  BY <1>2, PeriodType
<1>5. /\ best[Period(head)] \in Slots /\ Period(best[Period(head)]) = Period(head)
      /\ best[Period(head)] <= head
  BY <1>4, BestOrdered
<1>6. meta'.agreed = meta.agreed /\ meta'.claimed = c /\ meta'.l1 = head
      /\ meta'.snapshot = best[Period(head)]
  BY <1>1 DEF TypeOK
<1>7. TypeOK'
  <2>1. meta' \in [agreed : Slots, claimed : Slots, l1 : Slots, snapshot : Slots]
    BY <1>1, <1>2, <1>3, <1>5 DEF TypeOK
  <2>2. pc' \in Calling
    BY <1>1 DEF Calling
  <2>3. QED
    BY <1>1, <2>1, <2>2 DEF TypeOK
<1>8. StoreShape'
  BY <1>1, <1>6 DEF StoreShape, agreedPeriod
<1>9. MetaShape'
  BY <1>1, <1>2, <1>5, <1>6 DEF MetaShape, latestPeriod
<1>10. UpdatesInPeriod' /\ ClaimedShape' /\ T2DShape' /\ T2DComplete' /\ D2LShape'
  BY <1>1 DEF UpdatesInPeriod, ClaimedShape, HasClaimed, T2DShape, T2DComplete, D2LShape
<1>11. PeriodErrors'
  BY <1>1 DEF PeriodErrors
<1>12. QED
  BY <1>7, <1>8, <1>9, <1>10, <1>11

-----------------------------------------------------------------------------
(* The steps of the function.                                              *)

\* They leave L1, the client and the preimage alone.
LEMMA Frame ==
  ASSUME IInv, UNCHANGED <<env, store, meta>>, Derived
  PROVE  UpdatesInPeriod' /\ StoreShape' /\ MetaShape'
         /\ UNCHANGED <<agreedPeriod, claimedPeriod, latestPeriod>>
<1>1. UNCHANGED <<head, best, store, meta>> /\ pc # "create"
  BY DEF env, Derived
<1>2. UNCHANGED <<agreedPeriod, claimedPeriod, latestPeriod>>
  BY <1>1, SamePeriods
<1>3. UpdatesInPeriod'
  BY <1>1 DEF IInv, UpdatesInPeriod
<1>4. StoreShape'
  BY <1>1, <1>2 DEF IInv, StoreShape
<1>5. MetaShape'
  BY <1>1, <1>2 DEF IInv, MetaShape
<1>6. QED
  BY <1>2, <1>3, <1>4, <1>5

\* FixedCall keeps the invariant.
LEMMA FixedCallStep ==
  ASSUME IInv, FixedCall
  PROVE  IInv'
<1> USE DEF IInv
<1>1. /\ UNCHANGED <<head, best, store, meta, claimedL1, base, p, trusted, t2d, d2l, err>>
      /\ UNCHANGED <<env, store, meta>>
  BY DEF FixedCall, env, built
<1>2. \/ pc = "finalized" /\ pc' = "agreed"
      \/ pc = "agreed"    /\ pc' = "claimed"
      \/ pc = "account"   /\ pc' = "t2d"
      \/ pc = "preimage"  /\ pc' = "done"
  BY DEF FixedCall
<1>3. Derived
  BY <1>2 DEF Derived
<1>4. UpdatesInPeriod' /\ StoreShape' /\ MetaShape'
      /\ UNCHANGED <<agreedPeriod, claimedPeriod, latestPeriod>>
  BY <1>1, <1>3, Frame
<1>5. TypeOK'
  BY <1>1, <1>2 DEF TypeOK, Calling
<1>6. ClaimedShape'
  BY <1>1, <1>2, <1>4 DEF ClaimedShape, HasClaimed
<1>7. T2DShape'
  BY <1>1, <1>2 DEF T2DShape
<1>8. T2DComplete'
  BY <1>1, <1>2, <1>4 DEF T2DComplete, T2DUpdates, UpdateOf
<1>9. D2LShape'
  BY <1>1, <1>2, <1>4 DEF D2LShape, D2LUpdates, UpdateOf, LatestSlot
<1>10. PeriodErrors'
  BY <1>1, <1>2 DEF PeriodErrors
<1>11. QED
  BY <1>4, <1>5, <1>6, <1>7, <1>8, <1>9, <1>10

\* CallFails keeps the invariant.
LEMMA CallFailsStep ==
  ASSUME IInv, CallFails
  PROVE  IInv'
<1> USE DEF IInv
<1>1. /\ UNCHANGED <<head, best, store, meta, claimedL1, base, p, trusted, t2d, d2l>>
      /\ UNCHANGED <<env, store, meta>>
      /\ pc' = "error" /\ err' = "call"
  BY DEF CallFails, env, built
<1>2. Derived
  BY DEF CallFails, Calling, Derived
<1>3. UpdatesInPeriod' /\ StoreShape' /\ MetaShape'
  BY <1>1, <1>2, Frame
<1>4. TypeOK'
  BY <1>1 DEF TypeOK
<1>5. ClaimedShape' /\ T2DShape' /\ T2DComplete' /\ D2LShape' /\ PeriodErrors'
  BY <1>1 DEF ClaimedShape, HasClaimed, T2DShape, T2DComplete, D2LShape, PeriodErrors
<1>6. QED
  BY <1>3, <1>4, <1>5

\* GetClaimed keeps the invariant.
LEMMA GetClaimedStep ==
  ASSUME IInv, GetClaimed
  PROVE  IInv'
<1> USE DEF IInv
<1>1. /\ UNCHANGED <<head, best, store, meta, base, p, trusted, t2d, d2l, err>>
      /\ UNCHANGED <<env, store, meta>>
      /\ pc = "claimed" /\ pc' = "account"
      /\ claimedL1' = NextSyncCommitteeUpdate(best[claimedPeriod], Nil)
  BY DEF GetClaimed, env
<1>2. Derived
  BY <1>1 DEF Derived
<1>3. UpdatesInPeriod' /\ StoreShape' /\ MetaShape'
      /\ UNCHANGED <<agreedPeriod, claimedPeriod, latestPeriod>>
  BY <1>1, <1>2, Frame
<1>4. /\ agreedPeriod <= claimedPeriod /\ claimedPeriod <= Period(head)
      /\ agreedPeriod \in Periods /\ claimedPeriod \in Periods /\ agreedPeriod \in Nat
      /\ claimedPeriod \in Nat
  BY <1>2, PeriodsOrdered, PeriodsTyped
<1>5. /\ best[claimedPeriod] \in Slots /\ best[claimedPeriod] \in Nat
      /\ Period(best[claimedPeriod]) = claimedPeriod
  BY <1>4, BestOrdered
<1>6. claimedL1' \in L1Headers
  BY <1>1, <1>5, UpdateTyped
<1>7. claimedL1' = L1Header(Nil, TRUE, claimedPeriod, best[claimedPeriod], claimedPeriod + 1)
  BY <1>1, <1>5 DEF NextSyncCommitteeUpdate
<1>8. claimedL1'.slot = best[claimedPeriod]
  BY <1>7 DEF L1Header
<1>9. store.slot <= best[claimedPeriod]
  <2>1. store.slot <= best[agreedPeriod] /\ store.slot \in Nat
    BY <1>2, SlotsNat DEF StoreShape, Derived, ConsensusStates
  <2>2. agreedPeriod <= Period(head)
    BY <1>4, PeriodsTyped
  <2>3. best[agreedPeriod] \in Nat
        /\ (agreedPeriod < claimedPeriod => best[agreedPeriod] < best[claimedPeriod])
    BY <1>4, <2>2, BestOrdered
  <2>4. QED
    BY <1>4, <1>5, <2>1, <2>3
<1>10. TypeOK'
  BY <1>1, <1>6 DEF TypeOK, Calling
<1>11. ClaimedShape'
  <2>1. best'[claimedPeriod'] = best[claimedPeriod] /\ store' = store
    BY <1>1, <1>3
  <2>2. claimedL1' = L1Header(Nil, TRUE, claimedPeriod', claimedL1'.slot, claimedPeriod' + 1)
    BY <1>3, <1>7, <1>8
  <2>3. claimedL1'.slot \in Slots /\ Period(claimedL1'.slot) = claimedPeriod'
    BY <1>3, <1>5, <1>8
  <2>4. claimedL1'.slot <= best'[claimedPeriod'] /\ claimedL1'.slot = best'[claimedPeriod']
        /\ store'.slot <= claimedL1'.slot
    BY <1>5, <1>8, <1>9, <2>1
  <2>5. QED
    BY <2>2, <2>3, <2>4 DEF ClaimedShape
<1>12. T2DShape' /\ T2DComplete' /\ D2LShape' /\ PeriodErrors'
  BY <1>1 DEF T2DShape, T2DComplete, D2LShape, PeriodErrors
<1>13. QED
  BY <1>3, <1>10, <1>11, <1>12

\* Filling in the trusted committee keeps the rest of an L1 header.
LEMMA TrustedSet ==
  ASSUME NEW h \in L1Headers, NEW c
  PROVE  /\ [h EXCEPT !.committee = c, !.isNext = FALSE] = L1Header(c, FALSE, h.signer, h.slot, h.next)
         /\ [h EXCEPT !.committee = c, !.isNext = TRUE] = L1Header(c, TRUE, h.signer, h.slot, h.next)
<1> DEFINE signer == h.signer
           slot == h.slot
           next == h.next
           g == [h EXCEPT !.committee = c]
<1>1. h = [committee |-> h.committee, isNext |-> h.isNext, signer |-> signer,
           slot |-> slot, next |-> next]
  BY DEF L1Headers
<1> HIDE DEF signer, slot, next
<1>2. g = [committee |-> c, isNext |-> h.isNext, signer |-> signer, slot |-> slot, next |-> next]
  BY <1>1
<1>3. /\ [h EXCEPT !.committee = c, !.isNext = FALSE] = [g EXCEPT !.isNext = FALSE]
      /\ [h EXCEPT !.committee = c, !.isNext = TRUE] = [g EXCEPT !.isNext = TRUE]
  OBVIOUS
<1> HIDE DEF g
<1>4. /\ [g EXCEPT !.isNext = FALSE] = L1Header(c, FALSE, signer, slot, next)
      /\ [g EXCEPT !.isNext = TRUE] = L1Header(c, TRUE, signer, slot, next)
  <2> DEFINE no == FALSE
             yes == TRUE
  <2> HIDE DEF no, yes
  <2>1. [g EXCEPT !.isNext = no]
          = [committee |-> c, isNext |-> no, signer |-> signer, slot |-> slot, next |-> next]
    BY <1>2
  <2>2. [g EXCEPT !.isNext = yes]
          = [committee |-> c, isNext |-> yes, signer |-> signer, slot |-> slot, next |-> next]
    BY <1>2
  <2>3. QED
    BY <2>1, <2>2 DEF L1Header, no, yes
<1>5. QED
  BY <1>3, <1>4 DEF signer, slot, next

\* The claimed block's header, checked by committee c.
LEMMA ClaimedHeaderShape ==
  ASSUME IInv, HasClaimed, NEW c \in Committee
  PROVE  /\ ClaimedHeader(c) = L1Header(c, FALSE, claimedPeriod, claimedL1.slot, claimedPeriod + 1)
         /\ ClaimedHeader(c) \in L1Headers
<1>1. claimedL1 = L1Header(Nil, TRUE, claimedPeriod, claimedL1.slot, claimedPeriod + 1)
      /\ claimedL1.slot \in Slots
  BY DEF IInv, ClaimedShape
<1>2. claimedPeriod \in Periods /\ claimedPeriod + 1 \in Committee
  BY PeriodsTyped, HeaderBuilderAssumption DEF IInv, Periods, Committee
<1> DEFINE slot == claimedL1.slot
           q == claimedPeriod
<1>3. claimedL1 = [committee |-> Nil, isNext |-> TRUE, signer |-> q, slot |-> slot, next |-> q + 1]
  BY <1>1 DEF L1Header
<1>4. slot \in Slots /\ q \in Periods /\ q + 1 \in Committee
  BY <1>1, <1>2
<1> HIDE DEF slot, q
<1>5. /\ claimedL1 \in L1Headers
      /\ claimedL1.signer = q /\ claimedL1.slot = slot /\ claimedL1.next = q + 1
  BY <1>3, <1>4 DEF L1Headers
<1>6. ClaimedHeader(c) = L1Header(c, FALSE, q, slot, q + 1)
  <2>1. ClaimedHeader(c) = L1Header(c, FALSE, claimedL1.signer, claimedL1.slot, claimedL1.next)
    BY <1>5, TrustedSet DEF ClaimedHeader
  <2>2. QED
    BY <1>5, <2>1
<1>7. L1Header(c, FALSE, q, slot, q + 1) \in L1Headers
  BY <1>4 DEF L1Header, L1Headers
<1>8. QED
  BY <1>6, <1>7 DEF slot, q

\* The update the beacon node gives for a period that is not in the future.
LEMMA FetchedUpdate ==
  ASSUME IInv, NEW q \in Periods, q <= Period(head), NEW slot \in Slots, Period(slot) = q
  PROVE  /\ NextSyncCommitteeUpdate(slot, q) \in L1Headers
         /\ UpdateOf(NextSyncCommitteeUpdate(slot, q), q, slot)
         /\ q \in Committee /\ q + 1 \in Committee /\ q \in Nat
<1>1. q \in Committee /\ q + 1 \in Committee /\ q \in Nat
  BY HeaderBuilderAssumption DEF Periods, Committee
<1>2. QED
  BY <1>1, UpdateTyped DEF NextSyncCommitteeUpdate, UpdateOf

\* AgreedUpdate keeps the invariant.
LEMMA AgreedUpdateStep ==
  ASSUME IInv, AgreedUpdate
  PROVE  IInv'
<1> USE DEF IInv
<1>1. /\ UNCHANGED <<head, best, store, meta, claimedL1, t2d, d2l>>
      /\ UNCHANGED <<env, store, meta>>
      /\ pc = "t2d" /\ base' = best[agreedPeriod]
      /\ trusted' = [cur |-> Nil, next |-> Period(base') + 1]
      /\ p' = agreedPeriod + 1
  BY DEF AgreedUpdate, env
<1>2. Derived /\ HasClaimed
  BY <1>1 DEF Derived, HasClaimed
<1>3. UpdatesInPeriod' /\ StoreShape' /\ MetaShape'
      /\ UNCHANGED <<agreedPeriod, claimedPeriod, latestPeriod>>
  BY <1>1, <1>2, Frame
<1>4. /\ agreedPeriod <= claimedPeriod /\ agreedPeriod <= Period(head)
      /\ agreedPeriod \in Periods /\ agreedPeriod \in Nat /\ claimedPeriod \in Nat
  BY <1>2, PeriodsOrdered, PeriodsTyped
<1>5. /\ pc' = (IF agreedPeriod = claimedPeriod THEN "bootstrap" ELSE "t2dLoop")
      /\ UNCHANGED err
  BY <1>4 DEF AgreedUpdate
<1>6. base' \in Slots /\ Period(base') = agreedPeriod
  BY <1>1, <1>4, BestOrdered
<1>7. agreedPeriod + 1 \in Committee
  BY <1>4, HeaderBuilderAssumption DEF Periods, Committee
<1>8. TypeOK'
  <2>1. trusted' \in [cur : Committee \cup {Nil}, next : Committee \cup {Nil}]
    BY <1>1, <1>6, <1>7
  <2>2. p' \in 0..(MaxPeriod + 1) /\ pc' \in Calling
    BY <1>1, <1>5, <1>7 DEF Committee, Calling
  <2>3. QED
    BY <1>1, <1>5, <1>6, <2>1, <2>2 DEF TypeOK
<1>9. ClaimedShape'
  BY <1>1, <1>2, <1>3, <1>5 DEF ClaimedShape, HasClaimed
<1>10. t2d = <<>> /\ d2l = <<>>
  BY <1>1 DEF T2DShape, D2LShape
<1>11. T2DShape'
  BY <1>1, <1>3, <1>4, <1>5, <1>6, <1>10 DEF T2DShape, T2DUpdates
<1>12. T2DComplete' /\ D2LShape'
  BY <1>1, <1>5, <1>10 DEF T2DComplete, D2LShape
<1>13. PeriodErrors'
  BY <1>1, <1>5 DEF PeriodErrors
<1>14. QED
  BY <1>3, <1>8, <1>9, <1>11, <1>12, <1>13

\* Bootstrap keeps the invariant.
LEMMA BootstrapStep ==
  ASSUME IInv, Bootstrap
  PROVE  IInv'
<1> USE DEF IInv
<1>1. /\ UNCHANGED <<head, best, store, meta, claimedL1, base, p, trusted, d2l, err>>
      /\ UNCHANGED <<env, store, meta>>
      /\ pc = "bootstrap" /\ pc' = "d2l"
      /\ t2d' = <<ClaimedHeader(Period(base))>>
  BY DEF Bootstrap, env
<1>2. Derived /\ HasClaimed
  BY <1>1 DEF Derived, HasClaimed
<1>3. UpdatesInPeriod' /\ StoreShape' /\ MetaShape'
      /\ UNCHANGED <<agreedPeriod, claimedPeriod, latestPeriod>>
  BY <1>1, <1>2, Frame
<1>4. agreedPeriod = claimedPeriod /\ Period(base) = claimedPeriod /\ claimedPeriod \in Nat
      /\ claimedPeriod \in Committee
  BY <1>1, PeriodsTyped, HeaderBuilderAssumption DEF T2DShape, Periods, Committee
<1> DEFINE h == ClaimedHeader(claimedPeriod)
<1>5. /\ h = L1Header(claimedPeriod, FALSE, claimedPeriod, claimedL1.slot, claimedPeriod + 1)
      /\ h \in L1Headers
  BY <1>2, <1>4, ClaimedHeaderShape
<1>6. t2d' = <<h>>
  BY <1>1, <1>4
<1> HIDE DEF h
<1>7. TypeOK'
  <2>1. t2d' \in Seq(L1Headers)
    <3>1. h \in L1Headers
      BY <1>5
    <3>2. <<h>> \in Seq(L1Headers)
      BY <3>1
    <3>3. QED
      BY <1>6, <3>2
  <2> pc' \in Calling
    BY <1>1 DEF Calling
  <2>2. QED
    BY <1>1, <2>1 DEF TypeOK
<1>8. ClaimedShape'
  BY <1>1, <1>2, <1>3 DEF ClaimedShape, HasClaimed
<1>9. T2DShape' /\ D2LShape' /\ PeriodErrors'
  BY <1>1 DEF T2DShape, D2LShape, PeriodErrors
<1>10. T2DComplete'
  <2>1. Len(t2d') = 1 /\ t2d'[1] = h
    BY <1>6
  <2>2. T2DUpdates(0)'
    BY DEF T2DUpdates
  <2>3. Len(t2d') = claimedPeriod' - agreedPeriod' + 1 /\ Len(t2d') - 1 = 0
    BY <1>3, <1>4, <2>1
  <2>4. t2d'[Len(t2d')]
          = L1Header(claimedPeriod', FALSE, claimedPeriod', claimedL1'.slot, claimedPeriod' + 1)
    BY <1>1, <1>3, <1>5, <2>1
  <2>5. QED
    BY <2>2, <2>3, <2>4 DEF T2DComplete
<1>11. QED
  BY <1>3, <1>7, <1>8, <1>9, <1>10

\* AgreedToClaimedStep keeps the invariant.
LEMMA AgreedToClaimedStepStep ==
  ASSUME IInv, AgreedToClaimedStep
  PROVE  IInv'
<1> USE DEF IInv
<1>1. /\ UNCHANGED <<head, best, store, meta, pc, claimedL1, base, d2l, err>>
      /\ UNCHANGED <<env, store, meta>>
      /\ pc = "t2dLoop" /\ p <= claimedPeriod
      /\ t2d' = Append(t2d, NextSyncCommitteeUpdate(best[p], trusted.next))
      /\ trusted' = [cur |-> trusted.next, next |-> Period(best[p]) + 1]
      /\ p' = p + 1
  BY DEF AgreedToClaimedStep, env
<1>2. Derived /\ HasClaimed
  BY <1>1 DEF Derived, HasClaimed
<1>3. UpdatesInPeriod' /\ StoreShape' /\ MetaShape'
      /\ UNCHANGED <<agreedPeriod, claimedPeriod, latestPeriod>>
  BY <1>1, <1>2, Frame
<1>4. /\ claimedPeriod <= Period(head) /\ Period(head) \in Nat
      /\ agreedPeriod \in Nat /\ claimedPeriod \in Nat /\ claimedPeriod \in Periods
  BY <1>2, PeriodsOrdered, PeriodsTyped
<1>5. /\ agreedPeriod < claimedPeriod /\ p \in (agreedPeriod + 1)..(claimedPeriod + 1)
      /\ Len(t2d) = p - agreedPeriod - 1 /\ T2DUpdates(Len(t2d)) /\ trusted.next = p
  BY <1>1 DEF T2DShape
<1>6. p \in Nat /\ p \in Periods /\ p <= Period(head)
  BY <1>1, <1>4, <1>5, HeaderBuilderAssumption DEF Periods
<1>7. best[p] \in Slots /\ Period(best[p]) = p
  BY <1>6, BestOrdered
<1> DEFINE h == NextSyncCommitteeUpdate(best[p], p)
<1>8. h \in L1Headers /\ UpdateOf(h, p, best[p]) /\ p \in Committee /\ p + 1 \in Committee
  BY <1>6, <1>7, FetchedUpdate
<1>9. t2d' = Append(t2d, h) /\ trusted' = [cur |-> p, next |-> p + 1]
  BY <1>1, <1>5, <1>7
<1> HIDE DEF h
<1>10. /\ t2d' \in Seq(L1Headers) /\ Len(t2d') = Len(t2d) + 1 /\ t2d'[Len(t2d) + 1] = h
       /\ \A k \in 1..Len(t2d) : t2d'[k] = t2d[k]
  BY <1>8, <1>9, AppendProperties DEF TypeOK
<1>11. TypeOK'
  <2>1. trusted' \in [cur : Committee \cup {Nil}, next : Committee \cup {Nil}]
    BY <1>8, <1>9
  <2>2. p' \in 0..(MaxPeriod + 1)
    BY <1>1, <1>8 DEF Committee
  <2>3. QED
    BY <1>1, <1>10, <2>1, <2>2 DEF TypeOK
<1>12. ClaimedShape'
  BY <1>1, <1>2, <1>3 DEF ClaimedShape, HasClaimed
<1>13. T2DShape'
  <2>1. p' \in (agreedPeriod + 1)..(claimedPeriod + 1) /\ Len(t2d') = p' - agreedPeriod - 1
        /\ p' > agreedPeriod + 1
    BY <1>1, <1>4, <1>5, <1>6, <1>10
  <2>2. trusted'.next = p' /\ trusted'.cur = p' - 1
    BY <1>1, <1>6, <1>9
  <2>3. ASSUME NEW k \in 1..Len(t2d')
        PROVE  UpdateOf(t2d'[k], agreedPeriod + k, best[agreedPeriod + k])
    <3>1. CASE k \in 1..Len(t2d)
      BY <1>5, <1>10, <3>1 DEF T2DUpdates
    <3>2. CASE k = Len(t2d) + 1
      <4>1. agreedPeriod + k = p
        BY <1>4, <1>5, <1>6, <3>2
      <4>2. QED
        BY <1>8, <1>10, <3>2, <4>1
    <3>3. QED
      BY <1>10, <3>1, <3>2, <1>4, <1>5, <1>6
  <2>4. T2DUpdates(Len(t2d))'
    BY <1>1, <1>3, <2>3 DEF T2DUpdates, UpdateOf
  <2>5. QED
    BY <1>1, <1>3, <1>5, <2>1, <2>2, <2>4 DEF T2DShape
<1>14. T2DComplete' /\ D2LShape' /\ PeriodErrors'
  BY <1>1 DEF T2DComplete, D2LShape, PeriodErrors
<1>15. QED
  BY <1>3, <1>11, <1>12, <1>13, <1>14

\* AgreedToClaimedEnd keeps the invariant.
LEMMA AgreedToClaimedEndStep ==
  ASSUME IInv, AgreedToClaimedEnd
  PROVE  IInv'
<1> USE DEF IInv
<1>1. /\ UNCHANGED <<head, best, store, meta, claimedL1, base, p, trusted, d2l, err>>
      /\ UNCHANGED <<env, store, meta>>
      /\ pc = "t2dLoop" /\ p > claimedPeriod /\ pc' = "d2l"
      /\ t2d' = Append(t2d, ClaimedHeader(trusted.cur))
  BY DEF AgreedToClaimedEnd, env
<1>2. Derived /\ HasClaimed
  BY <1>1 DEF Derived, HasClaimed
<1>3. UpdatesInPeriod' /\ StoreShape' /\ MetaShape'
      /\ UNCHANGED <<agreedPeriod, claimedPeriod, latestPeriod>>
  BY <1>1, <1>2, Frame
<1>4. agreedPeriod \in Nat /\ claimedPeriod \in Nat /\ claimedPeriod \in Committee
  BY PeriodsTyped, HeaderBuilderAssumption DEF Periods, Committee
<1>5. /\ agreedPeriod < claimedPeriod /\ p \in (agreedPeriod + 1)..(claimedPeriod + 1)
      /\ Len(t2d) = p - agreedPeriod - 1 /\ T2DUpdates(Len(t2d))
      /\ p > agreedPeriod + 1 => trusted.cur = p - 1
  BY <1>1 DEF T2DShape
<1>6. p = claimedPeriod + 1 /\ trusted.cur = claimedPeriod /\ Len(t2d) = claimedPeriod - agreedPeriod
  BY <1>1, <1>4, <1>5
<1> DEFINE h == ClaimedHeader(claimedPeriod)
<1>7. /\ h = L1Header(claimedPeriod, FALSE, claimedPeriod, claimedL1.slot, claimedPeriod + 1)
      /\ h \in L1Headers
  BY <1>2, <1>4, ClaimedHeaderShape
<1>8. t2d' = Append(t2d, h)
  BY <1>1, <1>6
<1> HIDE DEF h
<1>9. /\ t2d' \in Seq(L1Headers) /\ Len(t2d') = Len(t2d) + 1 /\ t2d'[Len(t2d) + 1] = h
      /\ \A k \in 1..Len(t2d) : t2d'[k] = t2d[k]
  <2>1. t2d \in Seq(L1Headers) /\ h \in L1Headers
    BY <1>7 DEF TypeOK
  <2>2. QED
    BY <1>8, <2>1, AppendProperties
<1>10. TypeOK'
  BY <1>1, <1>9 DEF TypeOK, Calling
<1>11. ClaimedShape'
  BY <1>1, <1>2, <1>3 DEF ClaimedShape, HasClaimed
<1>12. T2DShape' /\ D2LShape' /\ PeriodErrors'
  BY <1>1 DEF T2DShape, D2LShape, PeriodErrors
<1>13. T2DComplete'
  <2>1. Len(t2d) \in Nat /\ Len(t2d') - 1 = Len(t2d)
        /\ Len(t2d') = claimedPeriod' - agreedPeriod' + 1
    BY <1>3, <1>4, <1>5, <1>6, <1>9
  <2>2. T2DUpdates(Len(t2d) - 1)'
    BY <1>1, <1>3, <1>5, <1>9, <2>1 DEF T2DUpdates, UpdateOf
  <2>3. t2d'[Len(t2d')]
          = L1Header(claimedPeriod', FALSE, claimedPeriod', claimedL1'.slot, claimedPeriod' + 1)
    BY <1>1, <1>3, <1>7, <1>9
  <2>4. QED
    BY <2>1, <2>2, <2>3 DEF T2DComplete
<1>14. QED
  BY <1>3, <1>10, <1>11, <1>12, <1>13

\* ClaimedUpdate keeps the invariant.
LEMMA ClaimedUpdateStep ==
  ASSUME IInv, ClaimedUpdate
  PROVE  IInv'
<1> USE DEF IInv
<1>1. /\ UNCHANGED <<head, best, store, meta, claimedL1, t2d, d2l>>
      /\ UNCHANGED <<env, store, meta>>
      /\ pc = "d2l" /\ base' = best[claimedPeriod]
      /\ trusted' = [cur |-> Nil, next |-> Period(base') + 1]
      /\ p' = claimedPeriod + 1
  BY DEF ClaimedUpdate, env
<1>2. \/ claimedPeriod >= latestPeriod /\ pc' = "error" /\ err' = "periods"
      \/ claimedPeriod < latestPeriod /\ pc' = "d2lLoop" /\ UNCHANGED err
  BY PeriodsTyped DEF ClaimedUpdate
<1>3. Derived /\ HasClaimed
  BY <1>1 DEF Derived, HasClaimed
<1>4. UpdatesInPeriod' /\ StoreShape' /\ MetaShape'
      /\ UNCHANGED <<agreedPeriod, claimedPeriod, latestPeriod>>
  BY <1>1, <1>3, Frame
<1>5. /\ claimedPeriod <= Period(head) /\ claimedPeriod \in Periods
      /\ claimedPeriod \in Nat /\ latestPeriod \in Nat
      /\ latestPeriod > 0 => claimedPeriod < latestPeriod
  BY <1>3, PeriodsOrdered, PeriodsTyped
<1>6. base' \in Slots /\ Period(base') = claimedPeriod
  BY <1>1, <1>5, BestOrdered
<1>7. claimedPeriod + 1 \in Committee
  BY <1>5, HeaderBuilderAssumption DEF Periods, Committee
<1>8. TypeOK'
  <2>1. trusted' \in [cur : Committee \cup {Nil}, next : Committee \cup {Nil}]
    BY <1>1, <1>6, <1>7
  <2>2. p' \in 0..(MaxPeriod + 1)
    BY <1>1, <1>7 DEF Committee
  <2>3. pc' \in Calling \cup {"error"} /\ err' \in {"none", "call", "periods"}
    BY <1>2 DEF Calling, TypeOK
  <2>4. QED
    BY <1>1, <1>6, <2>1, <2>2, <2>3 DEF TypeOK
<1>9. ClaimedShape'
  BY <1>1, <1>2, <1>3, <1>4 DEF ClaimedShape, HasClaimed
<1>10. T2DShape'
  BY <1>1, <1>2 DEF T2DShape
<1>11. T2DComplete'
  BY <1>1, <1>2, <1>4 DEF T2DComplete, T2DUpdates, UpdateOf
<1>12. D2LShape'
  <2>1. d2l = <<>>
    BY <1>1 DEF D2LShape
  <2>2. CASE pc' = "error"
    BY <2>2 DEF D2LShape
  <2>3. CASE pc' = "d2lLoop"
    <3>1. D2LUpdates(0)'
      BY DEF D2LUpdates
    <3>2. trusted'.next = p' /\ p' = claimedPeriod' + 1 /\ claimedPeriod' < latestPeriod'
          /\ p' \in (claimedPeriod' + 1)..(latestPeriod' + 1)
      BY <1>1, <1>2, <1>4, <1>5, <1>6, <2>3
    <3>3. Len(d2l') = 0 /\ 0 = p' - claimedPeriod' - 1 /\ ~ p' > claimedPeriod' + 1
      BY <1>1, <1>4, <1>5, <2>1
    <3>4. QED
      BY <2>3, <3>1, <3>2, <3>3 DEF D2LShape
  <2>4. QED
    BY <1>2, <2>2, <2>3
<1>13. PeriodErrors'
  BY <1>1, <1>2, <1>4, <1>5 DEF PeriodErrors
<1>14. QED
  BY <1>4, <1>8, <1>9, <1>10, <1>11, <1>12, <1>13

\* ClaimedToLatestStep keeps the invariant.
LEMMA ClaimedToLatestStepStep ==
  ASSUME IInv, ClaimedToLatestStep
  PROVE  IInv'
<1> USE DEF IInv
<1> DEFINE slot == LatestSlot(p)
<1>1. /\ UNCHANGED <<head, best, store, meta, pc, claimedL1, base, t2d, err>>
      /\ UNCHANGED <<env, store, meta>>
      /\ pc = "d2lLoop" /\ p <= latestPeriod
      /\ d2l' = Append(d2l, NextSyncCommitteeUpdate(slot, trusted.next))
      /\ trusted' = [cur |-> trusted.next, next |-> Period(slot) + 1]
      /\ p' = p + 1
  BY DEF ClaimedToLatestStep, env, LatestSlot
<1>2. Derived /\ HasClaimed
  BY <1>1 DEF Derived, HasClaimed
<1>3. UpdatesInPeriod' /\ StoreShape' /\ MetaShape'
      /\ UNCHANGED <<agreedPeriod, claimedPeriod, latestPeriod>>
  BY <1>1, <1>2, Frame
<1>4. /\ latestPeriod <= Period(head) /\ Period(head) \in Nat /\ latestPeriod \in Periods
      /\ claimedPeriod \in Nat /\ latestPeriod \in Nat
  BY <1>2, PeriodsOrdered, PeriodsTyped
<1>5. /\ claimedPeriod < latestPeriod /\ p \in (claimedPeriod + 1)..(latestPeriod + 1)
      /\ Len(d2l) = p - claimedPeriod - 1 /\ D2LUpdates(Len(d2l)) /\ trusted.next = p
  BY <1>1 DEF D2LShape
<1>6. p \in Nat /\ p \in Periods /\ p <= Period(head)
  BY <1>1, <1>4, <1>5, HeaderBuilderAssumption DEF Periods
<1>7. slot \in Slots /\ Period(slot) = p
  <2>1. CASE p = latestPeriod
    BY <1>2, <2>1, PeriodsTyped DEF LatestSlot, MetaShape
  <2>2. CASE p # latestPeriod
    BY <1>6, <2>2, BestOrdered DEF LatestSlot
  <2>3. QED
    BY <2>1, <2>2
<1> DEFINE h == NextSyncCommitteeUpdate(slot, p)
<1> HIDE DEF slot
<1>8. h \in L1Headers /\ UpdateOf(h, p, slot) /\ p \in Committee /\ p + 1 \in Committee
  BY <1>6, <1>7, FetchedUpdate
<1>9. d2l' = Append(d2l, h) /\ trusted' = [cur |-> p, next |-> p + 1]
  BY <1>1, <1>5, <1>7
<1> HIDE DEF h
<1>10. /\ d2l' \in Seq(L1Headers) /\ Len(d2l') = Len(d2l) + 1 /\ d2l'[Len(d2l) + 1] = h
       /\ \A k \in 1..Len(d2l) : d2l'[k] = d2l[k]
  <2>1. d2l \in Seq(L1Headers) /\ h \in L1Headers
    BY <1>8 DEF TypeOK
  <2>2. QED
    BY <1>9, <2>1, AppendProperties
<1>11. TypeOK'
  <2>1. trusted' \in [cur : Committee \cup {Nil}, next : Committee \cup {Nil}]
    BY <1>8, <1>9
  <2>2. p' \in 0..(MaxPeriod + 1)
    BY <1>1, <1>8 DEF Committee
  <2>3. QED
    BY <1>1, <1>10, <2>1, <2>2 DEF TypeOK
<1>12. ClaimedShape'
  BY <1>1, <1>2, <1>3 DEF ClaimedShape, HasClaimed
<1>13. D2LShape'
  <2>1. p' \in (claimedPeriod + 1)..(latestPeriod + 1) /\ Len(d2l') = p' - claimedPeriod - 1
        /\ p' > claimedPeriod + 1
    BY <1>1, <1>4, <1>5, <1>6, <1>10
  <2>2. trusted'.next = p' /\ trusted'.cur = p' - 1
    BY <1>1, <1>6, <1>9
  <2>3. ASSUME NEW k \in 1..Len(d2l')
        PROVE  UpdateOf(d2l'[k], claimedPeriod + k, LatestSlot(claimedPeriod + k))
    <3>1. CASE k \in 1..Len(d2l)
      BY <1>5, <1>10, <3>1 DEF D2LUpdates
    <3>2. CASE k = Len(d2l) + 1
      <4>1. claimedPeriod + k = p
        BY <1>4, <1>5, <1>6, <3>2
      <4>2. QED
        BY <1>8, <1>10, <3>2, <4>1 DEF slot
    <3>3. QED
      BY <1>10, <3>1, <3>2, <1>4, <1>5, <1>6
  <2>4. D2LUpdates(Len(d2l))'
    BY <1>1, <1>3, <2>3 DEF D2LUpdates, UpdateOf, LatestSlot
  <2>5. QED
    BY <1>1, <1>3, <1>5, <2>1, <2>2, <2>4 DEF D2LShape
<1>14. T2DComplete'
  BY <1>1, <1>3 DEF T2DComplete, T2DUpdates, UpdateOf
<1>15. T2DShape' /\ PeriodErrors'
  BY <1>1 DEF T2DShape, PeriodErrors
<1>16. QED
  BY <1>3, <1>11, <1>12, <1>13, <1>14, <1>15

\* ClaimedToLatestEnd keeps the invariant.
LEMMA ClaimedToLatestEndStep ==
  ASSUME IInv, ClaimedToLatestEnd
  PROVE  IInv'
<1> USE DEF IInv
<1> DEFINE h == FinalityHeader(latestPeriod)
<1>1. /\ UNCHANGED <<head, best, store, meta, claimedL1, base, p, trusted, t2d, err>>
      /\ UNCHANGED <<env, store, meta>>
      /\ pc = "d2lLoop" /\ p > latestPeriod /\ pc' = "preimage"
      /\ d2l' = Append(d2l, FinalityHeader(trusted.cur))
  BY DEF ClaimedToLatestEnd, env
<1>2. Derived /\ HasClaimed
  BY <1>1 DEF Derived, HasClaimed
<1>3. UpdatesInPeriod' /\ StoreShape' /\ MetaShape'
      /\ UNCHANGED <<agreedPeriod, claimedPeriod, latestPeriod>>
  BY <1>1, <1>2, Frame
<1>4. claimedPeriod \in Nat /\ latestPeriod \in Nat /\ latestPeriod \in Committee
      /\ latestPeriod \in Periods /\ meta.l1 \in Slots
  BY PeriodsTyped, HeaderBuilderAssumption DEF Periods, Committee
<1>5. /\ claimedPeriod < latestPeriod /\ p \in (claimedPeriod + 1)..(latestPeriod + 1)
      /\ Len(d2l) = p - claimedPeriod - 1 /\ D2LUpdates(Len(d2l))
      /\ p > claimedPeriod + 1 => trusted.cur = p - 1
  BY <1>1 DEF D2LShape
<1>6. p = latestPeriod + 1 /\ trusted.cur = latestPeriod /\ Len(d2l) = latestPeriod - claimedPeriod
  BY <1>1, <1>4, <1>5
<1>7. h = L1Header(latestPeriod, FALSE, latestPeriod, meta.l1, Nil) /\ h \in L1Headers
  BY <1>4 DEF FinalityHeader, L1Header, L1Headers
<1>8. d2l' = Append(d2l, h)
  BY <1>1, <1>6
<1> HIDE DEF h
<1>9. /\ d2l' \in Seq(L1Headers) /\ Len(d2l') = Len(d2l) + 1 /\ d2l'[Len(d2l) + 1] = h
      /\ \A k \in 1..Len(d2l) : d2l'[k] = d2l[k]
  <2>1. d2l \in Seq(L1Headers) /\ h \in L1Headers
    BY <1>7 DEF TypeOK
  <2>2. QED
    BY <1>8, <2>1, AppendProperties
<1>10. TypeOK'
  BY <1>1, <1>9 DEF TypeOK, Calling
<1>11. ClaimedShape'
  BY <1>1, <1>2, <1>3 DEF ClaimedShape, HasClaimed
<1>12. T2DComplete'
  BY <1>1, <1>3 DEF T2DComplete, T2DUpdates, UpdateOf
<1>13. T2DShape' /\ PeriodErrors'
  BY <1>1 DEF T2DShape, PeriodErrors
<1>14. D2LShape'
  <2>1. Len(d2l) \in Nat /\ Len(d2l') - 1 = Len(d2l)
        /\ Len(d2l') = latestPeriod' - claimedPeriod' + 1
    BY <1>3, <1>4, <1>5, <1>6, <1>9
  <2>2. D2LUpdates(Len(d2l) - 1)'
    BY <1>1, <1>3, <1>5, <1>9, <2>1 DEF D2LUpdates, UpdateOf, LatestSlot
  <2>3. d2l'[Len(d2l')] = L1Header(latestPeriod', FALSE, latestPeriod', meta'.l1, Nil)
    BY <1>1, <1>3, <1>7, <1>9
  <2>4. QED
    BY <1>1, <1>3, <1>5, <2>1, <2>2, <2>3 DEF D2LShape
<1>15. QED
  BY <1>3, <1>10, <1>11, <1>12, <1>13, <1>14

-----------------------------------------------------------------------------
(* The invariant of every execution.                                       *)

\* The invariant holds initially.
LEMMA InitIInv == Init => IInv
<1> SUFFICES ASSUME Init PROVE IInv
  OBVIOUS
<1>1. /\ head = 0 /\ best = [q \in Periods |-> 0] /\ store = Nil /\ pc = "create" /\ err = "none"
      /\ meta = [agreed |-> 0, claimed |-> 0, l1 |-> 0, snapshot |-> 0] /\ claimedL1 = Nil
      /\ base = 0 /\ p = 0 /\ trusted = [cur |-> Nil, next |-> Nil] /\ t2d = <<>> /\ d2l = <<>>
  BY DEF Init
<1>2. 0 \in Slots /\ 0 \in Periods /\ 0 \in 0..(MaxPeriod + 1)
  BY SlotsNat, HeaderBuilderAssumption DEF Periods
<1>3. Period(0) = 0
  BY HeaderBuilderAssumption, QuotientIs DEF Period
<1>4. TypeOK
  <2>1. best \in [Periods -> Slots]
    BY <1>1, <1>2
  <2>2. meta \in [agreed : Slots, claimed : Slots, l1 : Slots, snapshot : Slots]
    BY <1>1, <1>2
  <2>3. t2d \in Seq(L1Headers) /\ d2l \in Seq(L1Headers)
    BY <1>1
  <2>4. trusted \in [cur : Committee \cup {Nil}, next : Committee \cup {Nil}]
    BY <1>1
  <2>5. QED
    BY <1>1, <1>2, <2>1, <2>2, <2>3, <2>4 DEF TypeOK
<1>5. UpdatesInPeriod
  BY <1>1, <1>3, HeaderBuilderAssumption DEF UpdatesInPeriod, Periods
<1>6. StoreShape /\ MetaShape /\ ClaimedShape /\ T2DShape /\ T2DComplete /\ D2LShape /\ PeriodErrors
  BY <1>1 DEF StoreShape, MetaShape, Derived, ClaimedShape, HasClaimed, T2DShape, T2DComplete,
              D2LShape, PeriodErrors
<1>7. QED
  BY <1>4, <1>5, <1>6 DEF IInv

\* Every step keeps the invariant.
LEMMA NextIInv == IInv /\ [Next]_vars => IInv'
<1> SUFFICES ASSUME IInv, [Next]_vars PROVE IInv'
  OBVIOUS
<1>1. CASE Next
  BY <1>1, FinalizeStep, CreateClientStep, MakePreimageStep, FixedCallStep, GetClaimedStep,
     AgreedUpdateStep, BootstrapStep, AgreedToClaimedStepStep, AgreedToClaimedEndStep,
     ClaimedUpdateStep, ClaimedToLatestStepStep, ClaimedToLatestEndStep, CallFailsStep DEF Next
<1>2. CASE UNCHANGED vars
  <2>1. UNCHANGED <<agreedPeriod, claimedPeriod, latestPeriod>>
    BY <1>2, SamePeriods DEF vars
  <2>2. TypeOK' /\ UpdatesInPeriod'
    BY <1>2 DEF vars, IInv, TypeOK, UpdatesInPeriod
  <2>3. StoreShape' /\ MetaShape' /\ ClaimedShape'
    BY <1>2, <2>1 DEF vars, IInv, StoreShape, MetaShape, Derived, ClaimedShape, HasClaimed
  <2>4. T2DShape' /\ T2DComplete'
    BY <1>2, <2>1 DEF vars, IInv, T2DShape, T2DComplete, T2DUpdates, UpdateOf
  <2>5. D2LShape' /\ PeriodErrors'
    BY <1>2, <2>1 DEF vars, IInv, D2LShape, D2LUpdates, UpdateOf, LatestSlot, PeriodErrors
  <2>6. QED
    BY <2>2, <2>3, <2>4, <2>5 DEF IInv
<1>3. QED
  BY <1>1, <1>2

-----------------------------------------------------------------------------
(* What the light client makes of a chain of that shape.                   *)

\* The next committee trusted after c updates is the one the last of them names.
LEMMA NextBeforeIs ==
  ASSUME NEW s, NEW hs, NEW k \in Nat, NEW c \in Nat, c < k,
         \A j \in 1..(k - 1) : hs[j].isNext <=> j <= c
  PROVE  NextBefore(s, hs, k) = IF c = 0 THEN s.next ELSE hs[c].next
<1> DEFINE named == {j \in 1..(k - 1) : hs[j].isNext}
<1>0. named = 1..c
  OBVIOUS
<1>1. CASE c = 0
  <2>1. named = {}
    BY <1>0, <1>1
  <2>2. QED
    BY <1>1, <2>1 DEF NextBefore
<1>2. CASE c # 0
  <2>1. named \in SUBSET (0..c) /\ named # {} /\ c \in named
    BY <1>0, <1>2
  <2>2. Max(named) \in 1..c /\ Max(named) >= c
    BY <1>0, <2>1, MaxGreatest
  <2>3. Max(named) = c
    BY <2>2
  <2>4. QED
    BY <1>2, <2>1, <2>3 DEF NextBefore
<1>3. QED
  BY <1>1, <1>2

\* One update per period after q, up to m, and a header of period m: a client that
\* trusts the committees of q and q + 1 verifies it, and then trusts those of m and
\* m + 1.
LEMMA ChainVerifies ==
  ASSUME NEW s, NEW hs, NEW q \in Nat, NEW n \in Nat,
         s.cur = q, s.next = q + 1, hs \in Seq(L1Headers), Len(hs) = n + 1,
         \A k \in 1..n : \E slot : UpdateOf(hs[k], q + k, slot),
         \E slot, next : hs[n + 1] = L1Header(q + n, FALSE, q + n, slot, next)
  PROVE  /\ Verifies(s, hs)
         /\ After(s, hs) = [slot |-> hs[n + 1].slot, cur |-> q + n, next |-> q + n + 1]
<1>1. \A k \in 1..n : hs[k].committee = q + k /\ hs[k].signer = q + k /\ hs[k].isNext = TRUE
                      /\ hs[k].next = q + k + 1
  <2>1. ASSUME NEW k \in 1..n
        PROVE  /\ hs[k].committee = q + k /\ hs[k].signer = q + k /\ hs[k].isNext = TRUE
               /\ hs[k].next = q + k + 1
    <3>1. PICK slot : UpdateOf(hs[k], q + k, slot)
      OBVIOUS
    <3>2. QED
      BY <3>1 DEF UpdateOf, L1Header
  <2>2. QED
    BY <2>1
<1>2. hs[n + 1].committee = q + n /\ hs[n + 1].signer = q + n /\ hs[n + 1].isNext = FALSE
  BY DEF L1Header
<1>3. ASSUME NEW k \in 1..(n + 1) PROVE NextBefore(s, hs, k) = q + k
  <2>1. k - 1 \in Nat /\ k \in Nat /\ (\A j \in 1..(k - 1) : j \in 1..n)
    OBVIOUS
  <2> DEFINE c == k - 1
  <2>2. /\ c \in Nat /\ k \in Nat /\ c < k
        /\ \A j \in 1..(k - 1) : hs[j].isNext <=> j <= c
    BY <1>1, <2>1
  <2> HIDE DEF c
  <2>3. NextBefore(s, hs, k) = IF c = 0 THEN s.next ELSE hs[c].next
    BY <2>2, NextBeforeIs, SMTT(40)
  <2>4. CASE k = 1
    BY <2>3, <2>4 DEF c
  <2>5. CASE k # 1
    <3>1. c \in 1..n /\ c # 0 /\ q + c + 1 = q + k
      BY <2>5 DEF c
    <3>2. hs[c].next = q + c + 1
      BY <1>1, <3>1
    <3>3. QED
      BY <2>3, <3>1, <3>2
  <2>6. QED
    BY <2>4, <2>5
<1>4. NextBefore(s, hs, n + 2) = q + n + 1
  <2>1. \A j \in 1..((n + 2) - 1) : hs[j].isNext <=> j <= n
    <3>1. \A j \in 1..((n + 2) - 1) : (j \in 1..n /\ j <= n) \/ (j = n + 1 /\ ~ j <= n)
      OBVIOUS
    <3>2. QED
      BY <1>1, <1>2, <3>1
  <2>2. NextBefore(s, hs, n + 2) = IF n = 0 THEN s.next ELSE hs[n].next
    BY <2>1, NextBeforeIs
  <2>3. QED
    BY <1>1, <2>2
<1>5. ASSUME NEW k \in 1..(n + 1)
      PROVE  /\ hs[k].committee
                  = IF hs[k].isNext THEN NextBefore(s, hs, k) ELSE CurBefore(s, hs, k)
             /\ hs[k].signer = hs[k].committee
  <2>1. CASE k \in 1..n
    BY <1>1, <1>3, <2>1
  <2>2. CASE k = n + 1
    <3>1. CurBefore(s, hs, k) = q + n
      <4>1. CASE n = 0
        BY <2>2, <4>1 DEF CurBefore
      <4>2. CASE n # 0
        <5>1. n \in 1..n /\ k # 1 /\ k - 1 = n
          BY <2>2, <4>2
        <5>2. QED
          BY <1>1, <5>1 DEF CurBefore
      <4>3. QED
        BY <4>1, <4>2
    <3>2. QED
      BY <1>2, <2>2, <3>1
  <2>3. QED
    BY <2>1, <2>2
<1>6. DOMAIN hs = 1..(n + 1)
  OBVIOUS
<1>7. Verifies(s, hs)
  BY <1>5, <1>6 DEF Verifies
<1>8. After(s, hs) = [slot |-> hs[n + 1].slot, cur |-> q + n, next |-> q + n + 1]
  <2>1. Len(hs) + 1 = n + 2
    OBVIOUS
  <2>2. QED
    BY <1>2, <1>4, <2>1 DEF After
<1>9. QED
  BY <1>7, <1>8

\* The two chains of a header that is returned.
LEMMA Returned ==
  ASSUME IInv, pc = "done"
  PROVE  /\ Verifies(store, t2d)
         /\ After(store, t2d)
              = [slot |-> best[claimedPeriod], cur |-> claimedPeriod, next |-> claimedPeriod + 1]
         /\ Verifies(After(store, t2d), d2l)
<1> DEFINE n == claimedPeriod - agreedPeriod
           m == latestPeriod - claimedPeriod
           after == After(store, t2d)
<1>1. /\ agreedPeriod \in Nat /\ claimedPeriod \in Nat /\ latestPeriod \in Nat
      /\ agreedPeriod <= claimedPeriod /\ claimedPeriod < latestPeriod
  BY PeriodsTyped, PeriodsOrdered DEF IInv, Derived, D2LShape
<1>2. /\ n \in Nat /\ agreedPeriod + n = claimedPeriod
      /\ m \in Nat /\ claimedPeriod + m = latestPeriod
  BY <1>1
<1>3. /\ store.cur = agreedPeriod /\ store.next = agreedPeriod + 1
      /\ t2d \in Seq(L1Headers) /\ d2l \in Seq(L1Headers)
  BY DEF IInv, StoreShape, TypeOK
<1>4. claimedL1.slot = best[claimedPeriod]
  BY <1>1 DEF IInv, ClaimedShape, HasClaimed
<1>5. /\ Len(t2d) = n + 1 /\ T2DUpdates(Len(t2d) - 1)
      /\ t2d[Len(t2d)]
           = L1Header(claimedPeriod, FALSE, claimedPeriod, best[claimedPeriod], claimedPeriod + 1)
  BY <1>4 DEF IInv, T2DComplete
<1>6. /\ Len(d2l) = m + 1 /\ D2LUpdates(Len(d2l) - 1)
      /\ d2l[Len(d2l)] = L1Header(latestPeriod, FALSE, latestPeriod, meta.l1, Nil)
  BY DEF IInv, D2LShape
<1> HIDE DEF n, m, after
<1>7. /\ Verifies(store, t2d)
      /\ After(store, t2d)
           = [slot |-> t2d[n + 1].slot, cur |-> agreedPeriod + n, next |-> agreedPeriod + n + 1]
  <2>1. \A k \in 1..n : \E slot : UpdateOf(t2d[k], agreedPeriod + k, slot)
    BY <1>2, <1>5 DEF T2DUpdates
  <2>2. \E slot, next : t2d[n + 1] = L1Header(agreedPeriod + n, FALSE, agreedPeriod + n, slot, next)
    BY <1>2, <1>5
  <2>3. Len(t2d) = n + 1 /\ t2d \in Seq(L1Headers) /\ n \in Nat /\ agreedPeriod \in Nat
    BY <1>1, <1>2, <1>3, <1>5
  <2>4. QED
    BY <1>3, <2>1, <2>2, <2>3, ChainVerifies
<1>8. after = [slot |-> best[claimedPeriod], cur |-> claimedPeriod, next |-> claimedPeriod + 1]
  BY <1>2, <1>5, <1>7 DEF L1Header, after
<1>9. Verifies(after, d2l)
  <2>1. \A k \in 1..m : \E slot : UpdateOf(d2l[k], claimedPeriod + k, slot)
    BY <1>2, <1>6 DEF D2LUpdates
  <2>2. \E slot, next : d2l[m + 1] = L1Header(claimedPeriod + m, FALSE, claimedPeriod + m, slot, next)
    BY <1>2, <1>6
  <2>3. after.cur = claimedPeriod /\ after.next = claimedPeriod + 1
    BY <1>8
  <2>4. QED
    BY <1>1, <1>2, <1>3, <1>6, <2>1, <2>2, <2>3, ChainVerifies
<1>10. QED
  BY <1>7, <1>8, <1>9 DEF after

\* The invariant implies HeaderVerifies.
LEMMA VerifiesInv == IInv => HeaderVerifies
  BY Returned DEF HeaderVerifies

\* The invariant implies Deterministic.
LEMMA DeterministicInv == IInv => Deterministic
<1> SUFFICES ASSUME IInv, pc = "done"
             PROVE  After(store, t2d) = InitialState(meta.claimed)
  BY DEF Deterministic
<1>1. claimedPeriod \in Periods /\ claimedPeriod <= Period(head)
  BY PeriodsTyped, PeriodsOrdered DEF IInv, Derived
<1>2. Period(best[claimedPeriod]) = claimedPeriod
  BY <1>1 DEF IInv, UpdatesInPeriod
<1>3. QED
  BY <1>2, Returned DEF InitialState, claimedPeriod

\* Two sequences in order, the first of which ends below the start of the second,
\* give one in order.
InOrder(sq) == \A k \in 2..Len(sq) : sq[k - 1] <= sq[k]

\* Two ascending sequences that meet in order join to one.
LEMMA JoinInOrder ==
  ASSUME NEW sq \in Seq(Nat), NEW tq \in Seq(Nat), Len(sq) > 0, Len(tq) > 0,
         InOrder(sq), InOrder(tq), sq[Len(sq)] <= tq[1]
  PROVE  /\ sq \o tq \in Seq(Nat) /\ Len(sq \o tq) = Len(sq) + Len(tq)
         /\ InOrder(sq \o tq) /\ (sq \o tq)[Len(sq) + Len(tq)] = tq[Len(tq)]
<1> DEFINE n == Len(sq)
           m == Len(tq)
           u == sq \o tq
<1>1. /\ u \in Seq(Nat) /\ Len(u) = n + m /\ n \in Nat /\ m \in Nat
      /\ \A k \in 1..(n + m) : u[k] = IF k <= n THEN sq[k] ELSE tq[k - n]
  BY ConcatProperties
<1>2. n > 0 /\ m > 0 /\ sq[n] <= tq[1]
  OBVIOUS
<1>3. (\A k \in 2..n : sq[k - 1] <= sq[k]) /\ (\A k \in 2..m : tq[k - 1] <= tq[k])
  BY DEF InOrder
<1> HIDE DEF n, m, u
<1>4. ASSUME NEW k \in 2..(n + m) PROVE u[k - 1] <= u[k]
  <2>1. k \in 1..(n + m) /\ k - 1 \in 1..(n + m)
    BY <1>1
  <2>2. CASE k <= n
    <3>1. u[k] = sq[k] /\ u[k - 1] = sq[k - 1] /\ k \in 2..n
      BY <1>1, <2>1, <2>2
    <3>2. QED
      BY <1>3, <3>1
  <2>3. CASE k = n + 1
    <3>1. u[k - 1] = sq[n] /\ u[k] = tq[1]
      BY <1>1, <2>1, <2>3
    <3>2. QED
      BY <1>2, <3>1
  <2>4. CASE k > n + 1
    <3> DEFINE j == k - n
    <3>1. j \in 2..m /\ (k - 1) - n = j - 1 /\ ~ k <= n /\ ~ k - 1 <= n
      BY <1>1, <2>1, <2>4
    <3>2. u[k] = tq[j]
      BY <1>1, <2>1, <3>1
    <3>3. u[k - 1] = tq[j - 1]
      BY <1>1, <2>1, <3>1
    <3>4. QED
      BY <1>3, <3>1, <3>2, <3>3
  <2>5. QED
    BY <1>1, <2>2, <2>3, <2>4
<1>5. u[n + m] = tq[m]
  BY <1>1, <1>2
<1>6. QED
  BY <1>1, <1>4, <1>5 DEF InOrder, n, m, u

\* The slots of a chain of L1 headers.
LEMMA SlotsOfChain ==
  ASSUME NEW hs \in Seq(L1Headers)
  PROVE  /\ [k \in DOMAIN hs |-> hs[k].slot] \in Seq(Nat)
         /\ Len([k \in DOMAIN hs |-> hs[k].slot]) = Len(hs)
         /\ \A k \in 1..Len(hs) : [j \in DOMAIN hs |-> hs[j].slot][k] = hs[k].slot
<1>1. Len(hs) \in Nat /\ DOMAIN hs = 1..Len(hs) /\ \A k \in 1..Len(hs) : hs[k] \in L1Headers
  OBVIOUS
<1>2. \A k \in 1..Len(hs) : hs[k].slot \in Nat
  BY <1>1, SlotsNat DEF L1Headers
<1>3. [k \in 1..Len(hs) |-> hs[k].slot] \in [1..Len(hs) -> Nat]
  BY <1>2
<1>4. QED
  BY <1>1, <1>3

\* The slots of the two chains of a header that is returned.
LEMMA ReturnedSlots ==
  ASSUME IInv, pc = "done"
  PROVE  /\ Len(t2d) > 0 /\ Len(d2l) > 0
         /\ store.slot \in Nat /\ store.slot <= t2d[1].slot
         /\ \A k \in 2..Len(t2d) : t2d[k - 1].slot <= t2d[k].slot
         /\ t2d[Len(t2d)].slot <= d2l[1].slot
         /\ \A k \in 2..Len(d2l) : d2l[k - 1].slot <= d2l[k].slot
         /\ d2l[Len(d2l)].slot = meta.l1
<1> DEFINE n == claimedPeriod - agreedPeriod
           m == latestPeriod - claimedPeriod
<1>1. /\ agreedPeriod \in Nat /\ claimedPeriod \in Nat /\ latestPeriod \in Nat
      /\ agreedPeriod <= claimedPeriod /\ claimedPeriod < latestPeriod
      /\ latestPeriod <= Period(head) /\ latestPeriod \in Periods /\ Period(head) \in Nat
  BY PeriodsTyped, PeriodsOrdered DEF IInv, Derived, D2LShape
<1>2. /\ n \in Nat /\ agreedPeriod + n = claimedPeriod
      /\ m \in Nat /\ m > 0 /\ claimedPeriod + m = latestPeriod
  BY <1>1
<1>3. claimedL1.slot = best[claimedPeriod] /\ store.slot <= claimedL1.slot
  BY <1>1 DEF IInv, ClaimedShape, HasClaimed
<1>4. store.slot \in Nat /\ store.slot <= best[agreedPeriod]
  BY SlotsNat DEF IInv, StoreShape, ConsensusStates
<1>5. /\ Len(t2d) = n + 1 /\ T2DUpdates(Len(t2d) - 1)
      /\ t2d[Len(t2d)]
           = L1Header(claimedPeriod, FALSE, claimedPeriod, best[claimedPeriod], claimedPeriod + 1)
  BY <1>3 DEF IInv, T2DComplete
<1>6. /\ Len(d2l) = m + 1 /\ D2LUpdates(Len(d2l) - 1)
      /\ d2l[Len(d2l)] = L1Header(latestPeriod, FALSE, latestPeriod, meta.l1, Nil)
  BY DEF IInv, D2LShape
<1> HIDE DEF n, m
\* The updates of the periods up to the latest, each of which is later than the last.
<1>7. \A q \in Nat : q < latestPeriod => q \in Periods /\ q <= Period(head) /\ best[q] \in Nat
  <2>1. \A q \in Nat : q < latestPeriod => q \in Periods /\ q <= Period(head)
    BY <1>1, HeaderBuilderAssumption DEF Periods
  <2>2. QED
    BY <2>1, SlotsNat DEF IInv, TypeOK
<1>8. \A q \in Nat, r \in Nat : q < r /\ r < latestPeriod => best[q] < best[r]
  <2>1. ASSUME NEW q \in Nat, NEW r \in Nat, q < r, r < latestPeriod PROVE best[q] < best[r]
    <3>1. q \in Periods /\ q <= Period(head) /\ r \in Periods /\ r <= Period(head)
      BY <1>1, <1>7, <2>1
    <3>2. QED
      BY <2>1, <3>1, BestOrdered DEF IInv
  <2>2. QED
    BY <2>1
<1>9. ASSUME NEW q \in Nat, q < latestPeriod
      PROVE  best[q] < meta.snapshot
  <2>1. Period(best[q]) = q /\ best[q] \in Nat
    BY <1>7, <1>9 DEF IInv, UpdatesInPeriod
  <2>2. Period(meta.snapshot) = latestPeriod /\ meta.snapshot \in Nat
    BY SlotsNat DEF IInv, MetaShape, Derived, TypeOK
  <2>3. QED
    BY <1>9, <2>1, <2>2, PeriodOrder
<1>10. /\ meta.snapshot \in Nat /\ meta.l1 \in Nat /\ meta.snapshot <= meta.l1
  BY SlotsNat DEF IInv, MetaShape, Derived, TypeOK
<1>11. \A k \in 1..n : t2d[k].slot = best[agreedPeriod + k]
  <2>1. Len(t2d) - 1 = n
    BY <1>2, <1>5
  <2>2. ASSUME NEW k \in 1..n PROVE t2d[k].slot = best[agreedPeriod + k]
    <3>1. UpdateOf(t2d[k], agreedPeriod + k, best[agreedPeriod + k])
      BY <1>5, <2>1, <2>2 DEF T2DUpdates
    <3>2. QED
      BY <3>1 DEF UpdateOf, L1Header
  <2>3. QED
    BY <2>2
<1>12. t2d[n + 1].slot = best[claimedPeriod]
  BY <1>5 DEF L1Header
<1>13. \A k \in 1..m : d2l[k].slot = LatestSlot(claimedPeriod + k)
  <2>1. Len(d2l) - 1 = m
    BY <1>2, <1>6
  <2>2. ASSUME NEW k \in 1..m PROVE d2l[k].slot = LatestSlot(claimedPeriod + k)
    <3>1. UpdateOf(d2l[k], claimedPeriod + k, LatestSlot(claimedPeriod + k))
      BY <1>6, <2>1, <2>2 DEF D2LUpdates
    <3>2. QED
      BY <3>1 DEF UpdateOf, L1Header
  <2>3. QED
    BY <2>2
<1>14. d2l[m + 1].slot = meta.l1
  BY <1>6 DEF L1Header
<1>15. store.slot <= t2d[1].slot
  <2>1. CASE n = 0
    BY <1>3, <1>12, <2>1
  <2>2. CASE n # 0
    <3>1. 1 \in 1..n /\ agreedPeriod + 1 < latestPeriod /\ agreedPeriod + 1 \in Nat
      BY <1>1, <1>2, <2>2
    <3>2. best[agreedPeriod] < best[agreedPeriod + 1] /\ best[agreedPeriod] \in Nat
          /\ best[agreedPeriod + 1] \in Nat
      BY <1>1, <1>7, <1>8, <3>1
    <3>3. QED
      BY <1>4, <1>11, <3>1, <3>2
  <2>3. QED
    BY <2>1, <2>2
<1>16. ASSUME NEW k \in 2..(n + 1) PROVE t2d[k - 1].slot <= t2d[k].slot
  <2> DEFINE q == agreedPeriod + (k - 1)
  <2>1. k - 1 \in 1..n /\ q \in Nat /\ q <= claimedPeriod /\ q < latestPeriod
    BY <1>1, <1>2
  <2>2. t2d[k - 1].slot = best[q] /\ best[q] \in Nat
    BY <1>7, <1>11, <2>1
  <2>3. CASE k = n + 1
    <3>1. q = claimedPeriod
      BY <1>1, <1>2, <2>3
    <3>2. QED
      BY <1>12, <2>2, <2>3, <3>1
  <2>4. CASE k # n + 1
    <3>1. k \in 1..n /\ agreedPeriod + k = q + 1 /\ q + 1 < latestPeriod /\ q + 1 \in Nat
      BY <1>1, <1>2, <2>4
    <3>2. best[q] < best[q + 1] /\ best[q + 1] \in Nat
      BY <1>7, <1>8, <2>1, <3>1
    <3>3. QED
      BY <1>11, <2>2, <3>1, <3>2
  <2>5. QED
    BY <2>3, <2>4
<1>17. ASSUME NEW q \in Nat, q < latestPeriod
       PROVE  best[q] <= LatestSlot(q + 1)
  <2>1. CASE q + 1 = latestPeriod
    BY <1>7, <1>9, <1>10, <1>17, <2>1 DEF LatestSlot
  <2>2. CASE q + 1 # latestPeriod
    <3>1. q + 1 < latestPeriod /\ q + 1 \in Nat
      BY <1>1, <1>17, <2>2
    <3>2. best[q] < best[q + 1] /\ best[q] \in Nat /\ best[q + 1] \in Nat
      BY <1>7, <1>8, <1>17, <3>1
    <3>3. QED
      BY <2>2, <3>2 DEF LatestSlot
  <2>3. QED
    BY <2>1, <2>2
<1>18. t2d[n + 1].slot <= d2l[1].slot
  <2>1. 1 \in 1..m
    BY <1>2
  <2>2. QED
    BY <1>1, <1>12, <1>13, <1>17, <2>1
<1>19. ASSUME NEW k \in 2..(m + 1) PROVE d2l[k - 1].slot <= d2l[k].slot
  <2> DEFINE q == claimedPeriod + (k - 1)
  <2>1. k - 1 \in 1..m /\ q \in Nat /\ q <= latestPeriod
    BY <1>1, <1>2
  <2>2. d2l[k - 1].slot = LatestSlot(q)
    BY <1>13, <2>1
  <2>3. CASE k = m + 1
    <3>1. q = latestPeriod
      BY <1>1, <1>2, <2>3
    <3>2. LatestSlot(q) = meta.snapshot
      BY <3>1 DEF LatestSlot
    <3>3. QED
      BY <1>10, <1>14, <2>2, <2>3, <3>2
  <2>4. CASE k # m + 1
    <3>1. k \in 1..m /\ claimedPeriod + k = q + 1 /\ q < latestPeriod
      BY <1>1, <1>2, <2>4
    <3>2. LatestSlot(q) = best[q] /\ best[q] <= LatestSlot(q + 1)
      BY <1>1, <1>17, <2>1, <3>1 DEF LatestSlot
    <3>3. QED
      BY <1>13, <2>2, <3>1, <3>2
  <2>5. QED
    BY <2>3, <2>4
<1>20. Len(t2d) = n + 1 /\ Len(d2l) = m + 1
  BY <1>5, <1>6
<1>21. /\ \A k \in 2..Len(t2d) : t2d[k - 1].slot <= t2d[k].slot
       /\ \A k \in 2..Len(d2l) : d2l[k - 1].slot <= d2l[k].slot
  BY <1>16, <1>19, <1>20
<1>22. /\ Len(t2d) > 0 /\ Len(d2l) > 0
       /\ t2d[Len(t2d)].slot <= d2l[1].slot
       /\ d2l[Len(d2l)].slot = meta.l1
  BY <1>2, <1>14, <1>18, <1>20
<1>23. QED
  BY <1>4, <1>15, <1>21, <1>22

\* The invariant implies SlotsOrdered.
LEMMA SlotsInv == IInv => SlotsOrdered
<1> SUFFICES ASSUME IInv, pc = "done" PROVE SlotsOrdered
  BY DEF SlotsOrdered
<1> DEFINE one == <<store.slot>>
           ts == [k \in DOMAIN t2d |-> t2d[k].slot]
           ds == [k \in DOMAIN d2l |-> d2l[k].slot]
<1>1. t2d \in Seq(L1Headers) /\ d2l \in Seq(L1Headers)
  BY DEF IInv, TypeOK
<1>2. /\ ts \in Seq(Nat) /\ Len(ts) = Len(t2d) /\ \A k \in 1..Len(t2d) : ts[k] = t2d[k].slot
  BY <1>1, SlotsOfChain
<1>3. /\ ds \in Seq(Nat) /\ Len(ds) = Len(d2l) /\ \A k \in 1..Len(d2l) : ds[k] = d2l[k].slot
  BY <1>1, SlotsOfChain
<1>4. /\ Len(t2d) > 0 /\ Len(d2l) > 0
      /\ store.slot \in Nat /\ store.slot <= t2d[1].slot
      /\ \A k \in 2..Len(t2d) : t2d[k - 1].slot <= t2d[k].slot
      /\ t2d[Len(t2d)].slot <= d2l[1].slot
      /\ \A k \in 2..Len(d2l) : d2l[k - 1].slot <= d2l[k].slot
      /\ d2l[Len(d2l)].slot = meta.l1
  BY ReturnedSlots
<1>n. Len(t2d) \in Nat /\ Len(d2l) \in Nat
  BY <1>1
<1>5. one \in Seq(Nat) /\ Len(one) = 1 /\ one[1] = store.slot /\ InOrder(one)
  BY <1>4 DEF InOrder
<1> HIDE DEF one, ts, ds
<1>6. InOrder(ts) /\ InOrder(ds)
  <2>1. \A k \in 2..Len(t2d) : ts[k - 1] <= ts[k]
    <3>1. \A k \in 2..Len(t2d) : k \in 1..Len(t2d) /\ k - 1 \in 1..Len(t2d)
      BY <1>n
    <3>2. QED
      BY <1>2, <1>4, <3>1
  <2>2. \A k \in 2..Len(d2l) : ds[k - 1] <= ds[k]
    <3>1. \A k \in 2..Len(d2l) : k \in 1..Len(d2l) /\ k - 1 \in 1..Len(d2l)
      BY <1>n
    <3>2. QED
      BY <1>3, <1>4, <3>1
  <2>3. QED
    BY <1>2, <1>3, <2>1, <2>2 DEF InOrder
<1>7. one[Len(one)] <= ts[1] /\ ts[Len(ts)] <= ds[1]
  <2>1. 1 \in 1..Len(t2d) /\ Len(t2d) \in 1..Len(t2d) /\ 1 \in 1..Len(d2l)
    BY <1>4, <1>n
  <2>2. QED
    BY <1>2, <1>3, <1>4, <1>5, <2>1
<1> DEFINE to == one \o ts
<1>8. /\ to \in Seq(Nat) /\ Len(to) = Len(one) + Len(ts) /\ InOrder(to)
      /\ to[Len(one) + Len(ts)] = ts[Len(ts)]
  <2>1. Len(one) > 0 /\ Len(ts) > 0
    BY <1>2, <1>4, <1>5
  <2>2. QED
    BY <1>2, <1>5, <1>6, <1>7, <2>1, JoinInOrder
<1> HIDE DEF to
<1>9. Len(to) > 0 /\ to[Len(to)] <= ds[1] /\ Len(ds) > 0
  BY <1>2, <1>3, <1>4, <1>n, <1>5, <1>7, <1>8
<1>10. /\ Len(to \o ds) = Len(to) + Len(ds) /\ InOrder(to \o ds)
       /\ (to \o ds)[Len(to) + Len(ds)] = ds[Len(ds)]
  BY <1>3, <1>6, <1>8, <1>9, JoinInOrder
<1>11. ds[Len(ds)] = meta.l1
  BY <1>3, <1>4, <1>n
<1>12. QED
  BY <1>10, <1>11 DEF SlotsOrdered, InOrder, to, one, ts, ds

-----------------------------------------------------------------------------
(* The theorems about the function.                                        *)

\* The invariant holds in every state.
LEMMA Invariance == Spec => []IInv
  BY InitIInv, NextIInv, PTL DEF Spec

\* Every variable keeps to its values: no period is indexed that L1 does not have, and
\* no loop runs past the latest one.
THEOREM TypeCorrect == Spec => []TypeOK
  BY Invariance, PTL DEF IInv

\* A light client verifies every header the function returns, whatever L1 finalizes
\* between its calls.
THEOREM HeadersVerify == Spec => []HeaderVerifies
<1>1. IInv => HeaderVerifies
  BY VerifiesInv
<1>2. QED
  BY Invariance, <1>1, PTL

\* The slots a returned header takes the light client through never go back.
THEOREM SlotsInOrder == Spec => []SlotsOrdered
<1>1. IInv => SlotsOrdered
  BY SlotsInv
<1>2. QED
  BY Invariance, <1>1, PTL

\* The state a returned header leaves at the claimed block is the one a new client
\* would be created with.
THEOREM StateDeterministic == Spec => []Deterministic
<1>1. IInv => Deterministic
  BY DeterministicInv
<1>2. QED
  BY Invariance, <1>1, PTL

\* The function's period checks fail in the first period only.
THEOREM PeriodChecks == Spec => []PeriodErrorsAtGenesisOnly
<1>1. IInv => PeriodErrorsAtGenesisOnly
  BY DEF IInv, PeriodErrors, PeriodErrorsAtGenesisOnly
<1>2. QED
  BY Invariance, <1>1, PTL

-----------------------------------------------------------------------------
(* The misbehaviour tools.                                                 *)

\* Naming the committee of an update keeps the rest of it.
LEMMA UpdateSet ==
  ASSUME NEW u \in [header : L1Headers, execution : Slots], NEW c
  PROVE  /\ [u EXCEPT !.header.committee = c, !.header.isNext = TRUE]
              = WithExecution(L1Header(c, TRUE, u.header.signer, u.header.slot, u.header.next),
                              u.execution)
<1> DEFINE h == u.header
           g == [h EXCEPT !.committee = c, !.isNext = TRUE]
<1>1. [u EXCEPT !.header.committee = c, !.header.isNext = TRUE] = [u EXCEPT !.header = g]
  OBVIOUS
<1>2. g = L1Header(c, TRUE, h.signer, h.slot, h.next)
  BY TrustedSet
<1> HIDE DEF g
<1>3. [u EXCEPT !.header = g] = [header |-> g, execution |-> u.execution]
  OBVIOUS
<1>4. QED
  BY <1>1, <1>2, <1>3 DEF WithExecution

\* The cached updates belong to the latest period.
LEMMA CachedTyped ==
  ASSUME IInv, pc = "finalized"
  PROVE  /\ latestPeriod \in Periods /\ latestPeriod \in Nat /\ latestPeriod + 1 \in Committee
         /\ \A s \in Cached : s \in Slots /\ Period(s) = latestPeriod
         /\ NextSyncCommitteeUpdate(meta.snapshot, Nil) \in L1Headers
         /\ NextSyncCommitteeUpdate(meta.snapshot, Nil)
              = L1Header(Nil, TRUE, latestPeriod, meta.snapshot, latestPeriod + 1)
         /\ FinalityHeader(Nil) \in L1Headers
<1>1. latestPeriod \in Periods /\ latestPeriod \in Nat /\ meta.l1 \in Slots /\ meta.snapshot \in Slots
  BY PeriodsTyped DEF IInv
<1>2. Period(meta.snapshot) = latestPeriod /\ Period(meta.l1) = latestPeriod
  BY DEF IInv, MetaShape, Derived, latestPeriod
<1>3. latestPeriod + 1 \in Committee
  BY <1>1, HeaderBuilderAssumption DEF Periods, Committee
<1>4. NextSyncCommitteeUpdate(meta.snapshot, Nil) \in L1Headers
  BY <1>1, UpdateTyped
<1>5. FinalityHeader(Nil) \in L1Headers
  BY <1>1 DEF FinalityHeader, L1Header, L1Headers
<1>6. QED
  BY <1>1, <1>2, <1>3, <1>4, <1>5 DEF Cached, NextSyncCommitteeUpdate

\* ReadL2 keeps the invariant.
LEMMA ReadL2Step ==
  ASSUME ToolIInv, ReadL2
  PROVE  ToolReading' /\ ToolWritten'
<1> DEFINE h == NextSyncCommitteeUpdate(meta.snapshot, Nil)
           u == WithExecution(h, meta.snapshot)
<1>1. /\ pc = "finalized" /\ tool' = "l2" /\ pc' = pc /\ meta' = meta /\ updates' = <<u>>
  BY DEF ReadL2, vars
<1>2. /\ h \in L1Headers /\ h = L1Header(Nil, TRUE, latestPeriod, meta.snapshot, latestPeriod + 1)
      /\ meta.snapshot \in Slots
  BY <1>1, CachedTyped DEF ToolIInv, Cached
<1>3. latestPeriod' = latestPeriod /\ Cached' = Cached
  BY <1>1 DEF latestPeriod, Cached
<1>4. h.signer = latestPeriod /\ h.slot = meta.snapshot
  BY <1>2 DEF L1Header
<1> HIDE DEF h
<1>5. /\ u \in [header : L1Headers, execution : Slots]
      /\ u.header = h /\ u.execution = meta.snapshot
  BY <1>2 DEF WithExecution
<1> HIDE DEF u
<1>6. /\ updates' \in Updates /\ Len(updates') = 1 /\ DOMAIN updates' = {1} /\ updates'[1] = u
  BY <1>1, <1>5 DEF Updates
<1>7. ToolReading'
  BY <1>1, <1>3, <1>4, <1>5, <1>6 DEF ToolReading, Cached, Updates, L1Headers, Committee, Periods, Slots
<1>8. ToolWritten'
  BY <1>1 DEF ToolWritten
<1>9. QED
  BY <1>7, <1>8

\* ReadL1 keeps the invariant.
LEMMA ReadL1Step ==
  ASSUME ToolIInv, ReadL1
  PROVE  ToolReading' /\ ToolWritten'
<1> DEFINE h == NextSyncCommitteeUpdate(meta.snapshot, Nil)
           f == FinalityHeader(Nil)
           u == WithExecution(h, meta.l1)
           v == WithExecution(f, meta.l1)
<1>1. /\ pc = "finalized" /\ tool' = "l1" /\ pc' = pc /\ meta' = meta /\ updates' = <<u, v>>
  BY DEF ReadL1, vars
<1>2. /\ h \in L1Headers /\ h = L1Header(Nil, TRUE, latestPeriod, meta.snapshot, latestPeriod + 1)
      /\ f \in L1Headers /\ f = L1Header(Nil, FALSE, latestPeriod, meta.l1, Nil)
      /\ meta.l1 \in Slots
  BY <1>1, CachedTyped DEF ToolIInv, Cached, FinalityHeader
<1>3. latestPeriod' = latestPeriod /\ Cached' = Cached
  BY <1>1 DEF latestPeriod, Cached
<1>4. /\ h.signer = latestPeriod /\ h.slot = meta.snapshot
      /\ f.signer = latestPeriod /\ f.slot = meta.l1
  BY <1>2 DEF L1Header
<1> HIDE DEF h, f
<1>5. /\ u \in [header : L1Headers, execution : Slots]
      /\ u.header = h /\ u.execution = meta.l1
      /\ v \in [header : L1Headers, execution : Slots]
      /\ v.header = f /\ v.execution = meta.l1
  BY <1>2 DEF WithExecution
<1> HIDE DEF u, v
<1>6. /\ updates' \in Updates /\ Len(updates') = 2 /\ DOMAIN updates' = {1, 2}
      /\ updates'[1] = u /\ updates'[2] = v
  BY <1>1, <1>5 DEF Updates
<1>7. ToolReading'
  BY <1>1, <1>3, <1>4, <1>5, <1>6 DEF ToolReading, Cached, Updates, L1Headers, Committee, Periods, Slots
<1>8. ToolWritten'
  BY <1>1 DEF ToolWritten
<1>9. QED
  BY <1>7, <1>8

\* Write keeps the invariant.
LEMMA WriteStep ==
  ASSUME ToolIInv, Write
  PROVE  ToolReading' /\ ToolWritten'
<1> DEFINE state == InitialState(updates[1].execution)
           new == [k \in DOMAIN updates |->
                    [updates[k] EXCEPT !.header.committee = state.next, !.header.isNext = TRUE]]
<1>1. /\ tool \in {"l1", "l2"} /\ tool' = "written" /\ UNCHANGED <<head, best, meta, pc>>
      /\ written' = [state |-> state, updates |-> new]
  BY DEF Write, vars
<1>2. /\ pc = "finalized" /\ updates \in Updates /\ Len(updates) \in {1, 2}
      /\ \A k \in DOMAIN updates :
            /\ updates[k].header.signer = latestPeriod
            /\ updates[k].header.slot \in Cached /\ updates[k].execution \in Cached
      /\ Len(updates) = 1 => updates[1].execution = updates[1].header.slot
  BY <1>1 DEF ToolIInv, ToolReading
<1>3. latestPeriod' = latestPeriod /\ Cached' = Cached
  BY <1>1 DEF latestPeriod, Cached
<1>4. ToolReading'
  BY <1>1, <1>2 DEF ToolReading
<1>5. ASSUME latestPeriod > 0
      PROVE  state.next = latestPeriod /\ Period(state.slot) = latestPeriod - 1 /\ state.slot \in Slots
  <2> DEFINE q == latestPeriod - 1
  <2>1. 1 \in DOMAIN updates
    BY <1>2 DEF Updates
  <2>2. updates[1].execution \in Slots /\ Period(updates[1].execution) = latestPeriod
    BY <1>2, <2>1, CachedTyped DEF ToolIInv
  <2>3. PreviousPeriod(updates[1].execution) = q /\ q \in Nat /\ q + 1 = latestPeriod
    BY <1>2, <1>5, <2>2, CachedTyped DEF PreviousPeriod, ToolIInv
  <2>4. latestPeriod <= Period(head) /\ latestPeriod \in Periods /\ Period(head) \in Nat
    BY <1>2, PeriodsOrdered, PeriodsTyped DEF ToolIInv, IInv, Derived
  <2>5. q \in Periods /\ q <= Period(head)
    BY <2>3, <2>4, HeaderBuilderAssumption DEF Periods
  <2>6. Period(best[q]) = q /\ best[q] \in Slots
    BY <2>5, BestOrdered DEF ToolIInv, IInv
  <2>7. state = [slot |-> best[q], cur |-> q, next |-> Period(best[q]) + 1]
    BY <2>3 DEF InitialState
  <2> HIDE DEF q, state
  <2>8. QED
    BY <2>3, <2>6, <2>7 DEF q
<1> HIDE DEF state
<1>6. ASSUME NEW k \in DOMAIN updates
      PROVE  /\ new[k].header.committee = state.next /\ new[k].header.isNext = TRUE
             /\ new[k].header.signer = latestPeriod /\ new[k].header.slot = updates[k].header.slot
             /\ new[k].execution = updates[k].execution
  <2>1. updates[k] \in [header : L1Headers, execution : Slots]
    <3> DEFINE E == [header : L1Headers, execution : Slots]
    <3>1. updates \in Seq(E)
      BY <1>2 DEF Updates
    <3> HIDE DEF E
    <3>2. updates[k] \in E
      BY <3>1
    <3>3. QED
      BY <3>2 DEF E
  <2> DEFINE u == updates[k]
  <2>2. new[k] = [u EXCEPT !.header.committee = state.next, !.header.isNext = TRUE]
    OBVIOUS
  <2>3. u.header.signer = latestPeriod
    BY <1>2
  <2> HIDE DEF u, new
  <2>4. new[k] = WithExecution(L1Header(state.next, TRUE, u.header.signer, u.header.slot, u.header.next),
                               u.execution)
    BY <2>1, <2>2, UpdateSet DEF u
  <2>5. QED
    BY <2>3, <2>4 DEF WithExecution, L1Header, u
<1>7. DOMAIN new = DOMAIN updates /\ Len(new) = Len(updates)
  <2>1. DOMAIN updates = 1..Len(updates) /\ Len(updates) \in Nat
    BY <1>2 DEF Updates
  <2>2. QED
    BY <2>1
<1>8. written'.state = state /\ written'.updates = new
  BY <1>1
<1> HIDE DEF new
<1>9. Period(state.slot)' = Period(state.slot')
  BY DEF Period
<1>10. ToolWritten'
  <2>1. SUFFICES ASSUME latestPeriod' > 0
        PROVE  /\ written'.state.next = latestPeriod'
               /\ Period(written'.state.slot) = latestPeriod' - 1 /\ written'.state.slot \in Slots
               /\ \A k \in DOMAIN written'.updates :
                    LET h == written'.updates[k].header
                    IN  h.committee = latestPeriod' /\ h.isNext = TRUE /\ h.signer = latestPeriod'
                        /\ h.slot \in Cached'
               /\ Len(written'.updates) = 1 =>
                    \A k \in DOMAIN written'.updates :
                      written'.updates[k].execution = written'.updates[k].header.slot
    BY DEF ToolWritten, Period
  <2>2. state.next = latestPeriod /\ Period(state.slot) = latestPeriod - 1 /\ state.slot \in Slots
    BY <1>3, <1>5, <2>1
  <2>3. ASSUME NEW k \in DOMAIN new
        PROVE  /\ new[k].header.committee = latestPeriod /\ new[k].header.isNext = TRUE
               /\ new[k].header.signer = latestPeriod /\ new[k].header.slot \in Cached
    BY <1>2, <1>6, <1>7, <2>2
  <2>4. ASSUME Len(new) = 1, NEW k \in DOMAIN new
        PROVE  new[k].execution = new[k].header.slot
    <3>1. k = 1
      BY <1>2, <1>7, <2>4 DEF Updates
    <3>2. QED
      BY <1>2, <1>6, <1>7, <2>4, <3>1
  <2>5. QED
    BY <1>3, <1>8, <2>2, <2>3, <2>4
<1>11. QED
  BY <1>4, <1>10

\* The invariant holds initially.
LEMMA ToolInitIInv == ToolInit => ToolIInv
<1> SUFFICES ASSUME ToolInit PROVE ToolIInv
  OBVIOUS
<1>1. IInv /\ tool = "none"
  BY InitIInv DEF ToolInit
<1>2. QED
  BY <1>1 DEF ToolIInv, ToolReading, ToolWritten

\* Every step keeps the invariant.
LEMMA ToolNextIInv == ToolIInv /\ [ToolNext]_<<vars, toolVars>> => ToolIInv'
<1> SUFFICES ASSUME ToolIInv, [ToolNext]_<<vars, toolVars>> PROVE ToolIInv'
  OBVIOUS
<1>1. IInv'
  <2>1. [Next]_vars
    BY DEF ToolNext, Next, ReadL2, ReadL1, Write
  <2>2. QED
    BY <2>1, NextIInv DEF ToolIInv
<1>2. CASE tool = "none" /\ Next /\ UNCHANGED toolVars
  BY <1>1, <1>2 DEF toolVars, ToolIInv, ToolReading, ToolWritten
<1>3. CASE (tool # "none" /\ Finalize /\ UNCHANGED toolVars) \/ UNCHANGED <<vars, toolVars>>
  <2>1. UNCHANGED <<pc, meta, tool, updates, written>>
    BY <1>3 DEF Finalize, vars, toolVars
  <2>2. latestPeriod' = latestPeriod /\ Cached' = Cached
    BY <2>1 DEF latestPeriod, Cached
  <2>3. ToolReading'
    BY <2>1, <2>2 DEF ToolIInv, ToolReading
  <2>4. ToolWritten'
    BY <2>1, <2>2 DEF ToolIInv, ToolWritten, Period
  <2>5. QED
    BY <1>1, <2>3, <2>4 DEF ToolIInv
<1>4. CASE ReadL2 \/ ReadL1 \/ Write
  BY <1>1, <1>4, ReadL2Step, ReadL1Step, WriteStep DEF ToolIInv
<1>5. QED
  BY <1>2, <1>3, <1>4 DEF ToolNext

\* The invariant implies ToolsVerify.
LEMMA ToolsVerifyInv == ToolIInv => ToolsVerify
<1> SUFFICES ASSUME ToolIInv, tool = "written", latestPeriod > 0, NEW k \in DOMAIN written.updates
             PROVE  LET u == written.updates[k]
                    IN  /\ Verifies(written.state, <<u.header>>)
                        /\ written.state.slot <= u.header.slot
                        /\ Len(written.updates) = 1 => u.execution = u.header.slot
  BY DEF ToolsVerify
<1> DEFINE s == written.state
           h == written.updates[k].header
<1>1. /\ s.next = latestPeriod /\ Period(s.slot) = latestPeriod - 1 /\ s.slot \in Slots
      /\ h.committee = latestPeriod /\ h.isNext = TRUE /\ h.signer = latestPeriod /\ h.slot \in Cached
      /\ Len(written.updates) = 1 => written.updates[k].execution = h.slot
  BY DEF ToolIInv, ToolWritten
<1>2. pc = "finalized"
  BY DEF ToolIInv, ToolReading
<1> HIDE DEF s, h
<1>3. s.slot <= h.slot
  <2>1. h.slot \in Slots /\ Period(h.slot) = latestPeriod /\ latestPeriod \in Nat
    BY <1>1, <1>2, CachedTyped DEF ToolIInv
  <2>2. s.slot \in Nat /\ h.slot \in Nat /\ Period(s.slot) < Period(h.slot)
    BY <1>1, <2>1, SlotsNat
  <2>3. QED
    BY <2>2, PeriodOrder
<1>4. Verifies(s, <<h>>)
  <2> DEFINE hs == <<h>>
  <2>1. DOMAIN hs = {1} /\ hs[1] = h
    OBVIOUS
  <2> HIDE DEF hs
  <2>2. NextBefore(s, hs, 1) = s.next
    BY DEF NextBefore
  <2>3. Verifies(s, hs)
    BY <1>1, <2>1, <2>2 DEF Verifies
  <2>4. QED
    BY <2>3 DEF hs
<1>5. QED
  BY <1>1, <1>3, <1>4 DEF s, h

\* The invariant holds in every state.
LEMMA ToolInvariance == ToolSpec => []ToolIInv
  BY ToolInitIInv, ToolNextIInv, PTL DEF ToolSpec

\* What a misbehaviour tool writes is signed by the committee it names and not older
\* than the state it writes, however much L1 moved on since the preimage; and what the
\* function returns beside the tools keeps every promise above.
THEOREM ToolsCorrect ==
  ToolSpec => /\ []ToolsVerify
              /\ [](TypeOK /\ HeaderVerifies /\ SlotsOrdered /\ Deterministic)
              /\ []PeriodErrorsAtGenesisOnly
<1>1. ToolIInv => ToolsVerify
  BY ToolsVerifyInv
<1>2. ToolIInv => TypeOK /\ HeaderVerifies /\ SlotsOrdered /\ Deterministic
  BY VerifiesInv, SlotsInv, DeterministicInv DEF ToolIInv, IInv
<1>3. ToolIInv => PeriodErrorsAtGenesisOnly
  BY DEF ToolIInv, IInv, PeriodErrors, PeriodErrorsAtGenesisOnly
<1>4. QED
  BY ToolInvariance, <1>1, <1>2, <1>3, PTL
=============================================================================
