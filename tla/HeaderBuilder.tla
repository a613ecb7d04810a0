---------------------------- MODULE HeaderBuilder ----------------------------
(***************************************************************************)
(* The function SetupHeadersForUpdate passes to makeHeaderChan, for one    *)
(* preimage: the calls it makes to the L1 beacon node, in their order,     *)
(* while L1 goes on finalizing, and the two chains of L1 headers it        *)
(* returns (module/prover/prover.go, module/prover/l1/l1.go).  The client  *)
(* it updates was created by CreateInitialLightClientState earlier.        *)
(*                                                                         *)
(* An L2 block stands for the slot of its L1 origin, a sync committee for  *)
(* the period it serves.  External: the beacon node keeps one light client *)
(* update per period, may replace it by a later one while the period lasts *)
(* and never after; the update of period p is signed by committee p, names *)
(* committee p + 1 and finalizes a slot of p.  A finality update is signed *)
(* by the committee of its finalized slot's period, which is the period a  *)
(* preimage maker stores with it: finality updates signed just past a      *)
(* period boundary, for a slot before it, are left out.                    *)
(***************************************************************************)
EXTENDS Naturals, Sequences, FiniteSetsExt

CONSTANTS
  SlotsPerPeriod,  \* slots of a sync committee period
  MaxPeriod,       \* bound on the periods L1 goes through
  Nil              \* no committee

ASSUME HeaderBuilderAssumption ==
  /\ SlotsPerPeriod \in Nat \ {0}
  /\ MaxPeriod \in Nat
  /\ Nil \notin Nat

VARIABLES
  head,      \* finalized slot of L1
  best,      \* best[p]: slot finalized by the beacon node's update of period p
  store,     \* L1 part of the client's consensus state at the agreed block
  meta,      \* the preimage: agreed and claimed L2 blocks, finalized L1 slot
             \* and the update the preimage maker cached with it
  pc,        \* the call the function makes next
  claimedL1, \* the deterministic L1 header of the claimed block
  base,      \* slot of the update fetched first by GetSyncCommittees...
  p,         \* loop variable of GetSyncCommittees...
  trusted,   \* trustedCurrentSyncCommittee and trustedNextSyncCommittee
  t2d,       \* TrustedToDeterministic
  d2l,       \* DeterministicToLatest
  err        \* why the function failed, if it did

env == <<head, best>>
built == <<claimedL1, base, p, trusted, t2d, d2l>>
vars == <<head, best, store, meta, pc, claimedL1, base, p, trusted, t2d, d2l, err>>

Periods == 0..MaxPeriod
Slots == 0..((MaxPeriod + 1) * SlotsPerPeriod - 1)
Period(slot) == slot \div SlotsPerPeriod
Committee == 0..(MaxPeriod + 1)

\* Faulty variant of PreviousPeriod: the period of the block itself
\* (PeriodErrorsAtGenesisOnly).
OwnPeriod(origin) == Period(origin)

\* GetPreviousPeriodByBlockNumber
PreviousPeriod(origin) ==
  IF Period(origin) > 0 THEN Period(origin) - 1 ELSE Period(origin)

agreedPeriod == PreviousPeriod(meta.agreed)
claimedPeriod == PreviousPeriod(meta.claimed)
latestPeriod == Period(meta.l1)

\* An L1Header: the update's signer, the slot it finalizes and the committee it
\* names, with the committee the light client is told to check it against.
L1Header(committee, isNext, signer, slot, next) ==
  [committee |-> committee, isNext |-> isNext, signer |-> signer,
   slot |-> slot, next |-> next]

\* buildNextSyncCommitteeUpdateFromData, for the update that finalizes slot.
NextSyncCommitteeUpdate(slot, trustedNext) ==
  L1Header(trustedNext, TRUE, Period(slot), slot, Period(slot) + 1)

\* The L1 state createInitialLightClientState stores for a block, which
\* BuildInitialState takes from a bootstrap in the previous period (the current
\* committee) and from that period's update (the slot and the next committee).
InitialState(origin) ==
  LET q == PreviousPeriod(origin)
  IN  [slot |-> best[q], cur |-> q, next |-> Period(best[q]) + 1]

\* The finality update the preimage maker cached, and the claimed header, with
\* the trusted committee filled in.
FinalityHeader(committee) == L1Header(committee, FALSE, latestPeriod, meta.l1, Nil)
ClaimedHeader(committee) == [claimedL1 EXCEPT !.committee = committee, !.isNext = FALSE]

Init ==
  /\ head = 0
  /\ best = [q \in Periods |-> 0]
  /\ store = Nil
  /\ meta = [agreed |-> 0, claimed |-> 0, l1 |-> 0, snapshot |-> 0]
  /\ pc = "create"
  /\ claimedL1 = Nil
  /\ base = 0
  /\ p = 0
  /\ trusted = [cur |-> Nil, next |-> Nil]
  /\ t2d = <<>>
  /\ d2l = <<>>
  /\ err = "none"

-----------------------------------------------------------------------------
(* The world around the function.                                          *)

\* L1 finalizes a slot; the update of the current period is replaced or kept,
\* a new period's first update appears.
Finalize ==
  /\ head + 1 \in Slots
  /\ head' = head + 1
  /\ \/ best' = [best EXCEPT ![Period(head')] = head']
     \/ Period(head') = Period(head) /\ UNCHANGED best
  /\ UNCHANGED <<store, meta, pc, built, err>>

\* CreateInitialLightClientState at a block of origin slot a.
CreateClient(a) ==
  /\ pc = "create"
  /\ store' = InitialState(a)
  /\ meta' = [meta EXCEPT !.agreed = a]
  /\ pc' = "derive"
  /\ UNCHANGED <<env, built, err>>

\* The preimage maker derives the blocks up to one of origin slot c from the
\* finalized L1 head, and keeps that head's finality and light client updates.
MakePreimage(c) ==
  /\ pc = "derive"
  /\ meta' = [meta EXCEPT !.claimed = c, !.l1 = head, !.snapshot = best[Period(head)]]
  /\ pc' = "finalized"
  /\ UNCHANGED <<env, store, built, err>>

-----------------------------------------------------------------------------
(* The function, call by call.                                             *)

\* Calls whose answers never change: GetFinalizedL1Header (the cached head),
\* getDeterministicL1Header of the agreed block (used by the log only),
\* BuildAccountUpdate and GetPreimage.
FixedCall ==
  /\ \/ pc = "finalized" /\ pc' = "agreed"
     \/ pc = "agreed"    /\ pc' = "claimed"
     \/ pc = "account"   /\ pc' = "t2d"
     \/ pc = "preimage"  /\ pc' = "done"
  /\ UNCHANGED <<env, store, meta, built, err>>

\* getDeterministicL1Header of the claimed block.
GetClaimed ==
  /\ pc = "claimed"
  /\ claimedL1' = NextSyncCommitteeUpdate(best[claimedPeriod], Nil)
  /\ pc' = "account"
  /\ UNCHANGED <<env, store, meta, base, p, trusted, t2d, d2l, err>>

\* GetSyncCommitteesFromAgreedToClaimed up to its loop.
AgreedUpdate ==
  /\ pc = "t2d"
  /\ base' = best[agreedPeriod]
  /\ IF agreedPeriod > claimedPeriod
     THEN pc' = "error" /\ err' = "periods"
     ELSE pc' = (IF agreedPeriod = claimedPeriod THEN "bootstrap" ELSE "t2dLoop")
          /\ UNCHANGED err
  /\ trusted' = [cur |-> Nil, next |-> Period(base') + 1]
  /\ p' = agreedPeriod + 1
  /\ UNCHANGED <<env, store, meta, claimedL1, t2d, d2l>>

\* Agreed and claimed in one period: a bootstrap at the block the update
\* finalized gives the committee.
Bootstrap ==
  /\ pc = "bootstrap"
  /\ t2d' = <<ClaimedHeader(Period(base))>>
  /\ pc' = "d2l"
  /\ UNCHANGED <<env, store, meta, claimedL1, base, p, trusted, d2l, err>>

\* One iteration: fetch the update of period p and shift the committees.
AgreedToClaimedStep ==
  /\ pc = "t2dLoop"
  /\ p <= claimedPeriod
  /\ t2d' = Append(t2d, NextSyncCommitteeUpdate(best[p], trusted.next))
  /\ trusted' = [cur |-> trusted.next, next |-> Period(best[p]) + 1]
  /\ p' = p + 1
  /\ UNCHANGED <<env, store, meta, pc, claimedL1, base, d2l, err>>

\* Faulty variant of AgreedToClaimedEnd: the committees are not shifted
\* (HeaderVerifies).
AgreedToClaimedEndNext ==
  /\ pc = "t2dLoop"
  /\ p > claimedPeriod
  /\ t2d' = Append(t2d, ClaimedHeader(trusted.next))
  /\ pc' = "d2l"
  /\ UNCHANGED <<env, store, meta, claimedL1, base, p, trusted, d2l, err>>

\* After the loop the claimed header is checked by the last committee used.
AgreedToClaimedEnd ==
  /\ pc = "t2dLoop"
  /\ p > claimedPeriod
  /\ t2d' = Append(t2d, ClaimedHeader(trusted.cur))
  /\ pc' = "d2l"
  /\ UNCHANGED <<env, store, meta, claimedL1, base, p, trusted, d2l, err>>

\* Faulty variant of ClaimedUpdate: no check of the periods (Deterministic).
ClaimedUpdateUnchecked ==
  /\ pc = "d2l"
  /\ base' = best[claimedPeriod]
  /\ pc' = "d2lLoop"
  /\ trusted' = [cur |-> Nil, next |-> Period(base') + 1]
  /\ p' = claimedPeriod + 1
  /\ UNCHANGED <<env, store, meta, claimedL1, t2d, d2l, err>>

\* GetSyncCommitteesFromClaimedToLatest up to its loop.
ClaimedUpdate ==
  /\ pc = "d2l"
  /\ base' = best[claimedPeriod]
  /\ IF claimedPeriod >= latestPeriod
     THEN pc' = "error" /\ err' = "periods"
     ELSE pc' = "d2lLoop" /\ UNCHANGED err
  /\ trusted' = [cur |-> Nil, next |-> Period(base') + 1]
  /\ p' = claimedPeriod + 1
  /\ UNCHANGED <<env, store, meta, claimedL1, t2d, d2l>>

\* Faulty variant of ClaimedToLatestStep: the live update in the latest period
\* too (SlotsOrdered).
ClaimedToLatestStepLive ==
  /\ pc = "d2lLoop"
  /\ p <= latestPeriod
  /\ d2l' = Append(d2l, NextSyncCommitteeUpdate(best[p], trusted.next))
  /\ trusted' = [cur |-> trusted.next, next |-> Period(best[p]) + 1]
  /\ p' = p + 1
  /\ UNCHANGED <<env, store, meta, pc, claimedL1, base, t2d, err>>

\* Faulty variant of ClaimedToLatestStep: one period too many (TypeOK).
ClaimedToLatestStepPast ==
  /\ pc = "d2lLoop"
  /\ p <= latestPeriod + 1
  /\ LET slot == IF p >= latestPeriod THEN meta.snapshot ELSE best[p]
     IN  /\ d2l' = Append(d2l, NextSyncCommitteeUpdate(slot, trusted.next))
         /\ trusted' = [cur |-> trusted.next, next |-> Period(slot) + 1]
  /\ p' = p + 1
  /\ UNCHANGED <<env, store, meta, pc, claimedL1, base, t2d, err>>

\* One iteration: the update of period p from the beacon node, or the cached
\* one in the latest period.
ClaimedToLatestStep ==
  /\ pc = "d2lLoop"
  /\ p <= latestPeriod
  /\ LET slot == IF p = latestPeriod THEN meta.snapshot ELSE best[p]
     IN  /\ d2l' = Append(d2l, NextSyncCommitteeUpdate(slot, trusted.next))
         /\ trusted' = [cur |-> trusted.next, next |-> Period(slot) + 1]
  /\ p' = p + 1
  /\ UNCHANGED <<env, store, meta, pc, claimedL1, base, t2d, err>>

ClaimedToLatestEnd ==
  /\ pc = "d2lLoop"
  /\ p > latestPeriod
  /\ d2l' = Append(d2l, FinalityHeader(trusted.cur))
  /\ pc' = "preimage"
  /\ UNCHANGED <<env, store, meta, claimedL1, base, p, trusted, t2d, err>>

\* Any call may fail, and then the function returns its error.
Calling == {"finalized", "agreed", "claimed", "account", "t2d", "bootstrap",
            "t2dLoop", "d2l", "d2lLoop", "preimage"}

CallFails ==
  /\ pc \in Calling
  /\ pc = "t2dLoop" => p <= claimedPeriod
  /\ pc = "d2lLoop" => p <= latestPeriod
  /\ pc' = "error"
  /\ err' = "call"
  /\ UNCHANGED <<env, store, meta, built>>

Next ==
  \/ Finalize
  \/ \E a \in 0..head : CreateClient(a)
  \/ \E c \in meta.agreed..head : MakePreimage(c)
  \/ FixedCall \/ GetClaimed
  \/ AgreedUpdate \/ Bootstrap \/ AgreedToClaimedStep \/ AgreedToClaimedEnd
  \/ ClaimedUpdate \/ ClaimedToLatestStep \/ ClaimedToLatestEnd
  \/ CallFails

Spec == Init /\ [][Next]_vars

-----------------------------------------------------------------------------
(* The light client (external): it keeps a current and a next committee,   *)
(* checks a header against the one isNext names, and moves on with the     *)
(* committee the header names.                                             *)

\* The committees trusted before the k-th header of a chain hs.
CurBefore(s, hs, k) == IF k = 1 THEN s.cur ELSE hs[k - 1].committee
NextBefore(s, hs, k) ==
  LET named == {j \in 1..(k - 1) : hs[j].isNext}
  IN  IF named = {} THEN s.next ELSE hs[Max(named)].next

Verifies(s, hs) ==
  \A k \in DOMAIN hs :
    /\ hs[k].committee = IF hs[k].isNext THEN NextBefore(s, hs, k) ELSE CurBefore(s, hs, k)
    /\ hs[k].signer = hs[k].committee

\* The state after a chain that verifies.
After(s, hs) ==
  [slot |-> hs[Len(hs)].slot,
   cur  |-> hs[Len(hs)].committee,
   next |-> NextBefore(s, hs, Len(hs) + 1)]

-----------------------------------------------------------------------------
\* L1 states a client may store, and L1 headers.
ConsensusStates == [slot : Slots, cur : Committee, next : Committee]
L1Headers == [committee : Committee \cup {Nil}, isNext : BOOLEAN, signer : Periods,
              slot : Slots, next : Committee \cup {Nil}]

\* The values of every variable.
TypeOK ==
  /\ head \in Slots
  /\ best \in [Periods -> Slots]
  /\ store \in ConsensusStates \cup {Nil}
  /\ meta \in [agreed : Slots, claimed : Slots, l1 : Slots, snapshot : Slots]
  /\ pc \in Calling \cup {"create", "derive", "done", "error"}
  /\ claimedL1 \in L1Headers \cup {Nil}
  /\ base \in Slots
  /\ p \in 0..(MaxPeriod + 1)
  /\ trusted \in [cur : Committee \cup {Nil}, next : Committee \cup {Nil}]
  /\ t2d \in Seq(L1Headers)
  /\ d2l \in Seq(L1Headers)
  /\ err \in {"none", "call", "periods"}

\* A header that is returned convinces the light client: every L1 header of both
\* chains is checked by the committee that signed it, starting from the client's
\* state at the agreed block, across any number of committee rotations, although
\* the updates are fetched one by one while L1 finalizes.
HeaderVerifies ==
  pc = "done" => Verifies(store, t2d) /\ Verifies(After(store, t2d), d2l)

\* The slots the light client is taken through never go back (what the prover's
\* tests assert of the execution block numbers), and end at the finalized head
\* the preimage was derived from: the cached snapshot is not newer than it.
SlotsOrdered ==
  pc = "done" =>
    LET slots == <<store.slot>> \o [k \in DOMAIN t2d |-> t2d[k].slot]
                                \o [k \in DOMAIN d2l |-> d2l[k].slot]
    IN  /\ \A k \in 2..Len(slots) : slots[k - 1] <= slots[k]
        /\ slots[Len(slots)] = meta.l1

\* The L1 state an update leaves at the claimed block is a function of that block:
\* the one CreateInitialLightClientState builds for it, at any later time.  Two
\* relayers that update the client through the block store the same state.
Deterministic ==
  pc = "done" => After(store, t2d) = InitialState(meta.claimed)

\* The function's own period checks reject nothing the preimage maker can ask for,
\* except in the first sync committee period of the chain.
PeriodErrorsAtGenesisOnly == err = "periods" => latestPeriod = 0

\* Comment of GetSyncCommitteesFromAgreedToClaimed: "both agreed and claimed use
\* past periods (period - 1)", so that their updates no longer change.
PastPeriodsOnly ==
  pc = "t2d" => agreedPeriod < Period(head) /\ claimedPeriod < Period(head)
=============================================================================
