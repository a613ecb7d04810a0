----------------------------- MODULE RelayProofs -----------------------------
(***************************************************************************)
(* Theorems about Relay, for any number of relayers and preimage makers,   *)
(* any chain of preimages and any number of failures: the inductive        *)
(* invariant IInv, Connected, and the safety part of the refinement of     *)
(* ClientAdvance.                                                          *)
(***************************************************************************)
EXTENDS Relay, NumberLemmas, SequenceTheorems

-----------------------------------------------------------------------------
(* The inductive invariant.                                                *)

\* The boundaries of preimages grow, from the genesis block on.
ChainGrows ==
  /\ Len(chain) >= 1
  /\ chain[1] = 0
  /\ \A i, j \in 1..Len(chain) : i < j => chain[i] < chain[j]

\* A client that was created on a boundary knows the boundaries from there to its
\* latest height; any other one knows the height it was created at.
OnBoundaries ==
  \E a, b \in 1..Len(chain) :
    a <= b /\ client.known = {chain[k] : k \in a..b} /\ client.height = chain[b]
OffBoundary == client.known = {client.height} /\ client.height \notin Boundaries

ClientShape ==
  client # Nil =>
    /\ client.height \in 1..Last(chain)
    /\ OnBoundaries \/ OffBoundary

\* A session has a client, whose height it has read when it lists preimages.
SessionHasClient ==
  \A r \in Relayers :
    /\ pc[r] # "idle" => client # Nil
    /\ pc[r] \in {"list", "stream"} => trusted[r] \in client.known

\* The list of a session is the chain's preimages from the one over the trusted
\* height on.
Segment(l, o, height) ==
  /\ o + Len(l) + 1 <= Len(chain)
  /\ \A k \in 1..Len(l) : l[k] = [agreed |-> chain[o + k], claimed |-> chain[o + k + 1]]
  /\ Len(l) > 0 => chain[o + 1] <= height /\ height < chain[o + 2]

ListShape ==
  \A r \in Relayers :
    pc[r] = "stream" => \E o \in 0..Len(chain) : Segment(list[r], o, trusted[r])

\* What the relayer has taken from the stream, the client has.
DeliveredKnown ==
  \A r \in Relayers :
    pc[r] = "stream" => \A k \in 1..got[r] : list[r][k].claimed \in client.known

IInv ==
  /\ TypeOK
  /\ ChainGrows
  /\ ClientShape
  /\ SessionHasClient
  /\ ListShape
  /\ DeliveredKnown

-----------------------------------------------------------------------------
(* Lemmas about the chain and the lists.                                   *)

\* Heights are numbers.
LEMMA HeightsNat == Heights \subseteq Nat
  BY RelayAssumption DEF Heights

\* The maker's answer to a request is a segment of the chain, for any range of
\* heights that has no gap.
LEMMA ListIsSegment ==
  ASSUME TypeOK, ChainGrows, NEW r \in Relayers, NEW n \in 1..Len(chain)
  PROVE  /\ ListPreimageMetadata(r, n) \in Seq(Metadata)
         /\ \E o \in 0..Len(chain) : Segment(ListPreimageMetadata(r, n), o, trusted[r])
<1> DEFINE range == {h \in Heights : h > trusted[r] /\ h < latest[r] + 1}
           found == {k \in 1..(n - 1) : chain[k + 1] \in range}
           l == ListPreimageMetadata(r, n)
<1>1. l = IF found = {} THEN <<>> ELSE SubSeq(PreimagesOf(n), Min(found), Max(found))
  BY DEF ListPreimageMetadata, Claiming
<1>2. chain \in [1..Len(chain) -> Heights] /\ Len(chain) \in Nat /\ trusted[r] \in Heights
      /\ latest[r] \in Heights /\ Heights \subseteq Nat
  BY LenProperties, HeightsNat DEF TypeOK
<1>3. CASE found = {}
  <2>1. l = <<>>
    BY <1>1, <1>3
  <2>2. Segment(l, 0, trusted[r])
    BY <2>1, <1>2 DEF Segment, ChainGrows
  <2>3. QED
    BY <2>1, <2>2, <1>2
<1>4. CASE found # {}
  <2> DEFINE a == Min(found)
             b == Max(found)
  <2>1. found \in SUBSET Nat /\ found \in SUBSET (0..Len(chain))
    BY <1>2
  <2> HIDE DEF found
  <2>2. a \in found /\ b \in found /\ a <= b /\ \A k \in found : a <= k
    BY <2>1, <1>2, <1>4, MinLeast, MaxGreatest
  <2> HIDE DEF a, b
  <2>3. a \in 1..(n - 1) /\ b \in 1..(n - 1) /\ chain[a + 1] \in range /\ chain[b + 1] \in range
    BY <2>2 DEF found
  <2>4. l = SubSeq(PreimagesOf(n), a, b)
    BY <1>1, <1>4 DEF a, b
  <2>5. \A k \in a..b : PreimagesOf(n)[k] = [agreed |-> chain[k], claimed |-> chain[k + 1]]
    BY <2>3, <1>2 DEF PreimagesOf
  <2>6. \A k \in a..b : PreimagesOf(n)[k] \in Metadata
    <3>1. TAKE k \in a..b
    <3>2. chain[k] \in Heights /\ chain[k + 1] \in Heights
      BY <2>3, <1>2
    <3>3. [agreed |-> chain[k], claimed |-> chain[k + 1]] \in Metadata
      BY <3>2 DEF Metadata
    <3>4. QED
      BY <2>5, <3>3
  <2>7. /\ l \in Seq(Metadata) /\ Len(l) = b - a + 1
        /\ \A k \in 1..(b - a + 1) : l[k] = PreimagesOf(n)[a + k - 1]
    <3> DEFINE s == PreimagesOf(n)
    <3>1. a \in Int /\ b \in Int /\ a <= b
      BY <2>2, <2>3
    <3>2. l = SubSeq(s, a, b) /\ \A k \in a..b : s[k] \in Metadata
      BY <2>4, <2>6
    <3> HIDE DEF s, l
    <3>3. /\ SubSeq(s, a, b) \in Seq(Metadata)
          /\ Len(SubSeq(s, a, b)) = IF a <= b THEN b - a + 1 ELSE 0
          /\ \A k \in 1..(b - a + 1) : SubSeq(s, a, b)[k] = s[a + k - 1]
      BY <3>1, <3>2, SubSeqProperties
    <3>4. l \in Seq(Metadata) /\ Len(l) = b - a + 1 /\ \A k \in 1..(b - a + 1) : l[k] = s[a + k - 1]
      BY <3>1, <3>2, <3>3
    <3> QED BY <3>4 DEF s
  <2>8. chain[a] <= trusted[r]
    <3>1. CASE a = 1
      BY <3>1, <1>2 DEF ChainGrows, Heights
    <3>2. CASE a > 1
      <4>1. a - 1 \notin found /\ a - 1 \in 1..(n - 1) /\ a - 1 + 1 = a
        BY <3>2, <2>2, <2>3, <1>2
      <4>2. chain[a] \notin range
        BY <4>1, <1>2 DEF found
      <4>3. chain[a] \in Heights /\ chain[a] < chain[a + 1]
        BY <2>3, <1>2 DEF ChainGrows, Heights
      <4>4. QED
        BY <4>2, <4>3, <2>3, <1>2 DEF Heights
    <3>3. QED
      BY <3>1, <3>2, <2>3, <1>2
  <2>9. Segment(l, a - 1, trusted[r])
    <3>1. a - 1 + Len(l) + 1 <= Len(chain)
      BY <2>3, <2>7, <1>2
    <3>2. \A k \in 1..Len(l) :
            l[k] = [agreed |-> chain[a - 1 + k], claimed |-> chain[a - 1 + k + 1]]
      <4>1. TAKE k \in 1..Len(l)
      <4>2. a + k - 1 \in a..b /\ k \in 1..(b - a + 1)
        BY <4>1, <2>2, <2>3, <2>7, <1>2
      <4>3. l[k] = [agreed |-> chain[a + k - 1], claimed |-> chain[a + k - 1 + 1]]
        BY <4>2, <2>5, <2>7
      <4>4. a + k - 1 = a - 1 + k
        BY <4>2, <2>3, <1>2
      <4>5. QED
        BY <4>3, <4>4
    <3>3. chain[a - 1 + 1] <= trusted[r] /\ trusted[r] < chain[a - 1 + 2]
      <4>1. a - 1 + 1 = a /\ a - 1 + 2 = a + 1
        BY <2>3, <1>2
      <4>2. QED
        BY <4>1, <2>3, <2>8, <1>2
    <3>4. QED
      BY <3>1, <3>2, <3>3 DEF Segment
  <2>10. QED
    BY <2>3, <2>7, <2>9, <1>2
<1>5. QED
  BY <1>3, <1>4

\* Facts every step uses.
LEMMA Typed ==
  ASSUME TypeOK
  PROVE  /\ chain \in [1..Len(chain) -> Heights] /\ Len(chain) \in Nat
         /\ client # Nil => client.height \in Heights /\ client.known \in SUBSET Heights
         /\ \A r \in Relayers :
              /\ Len(list[r]) \in Nat /\ Len(built[r]) = Len(list[r])
              /\ list[r] \in [1..Len(list[r]) -> Metadata]
              /\ built[r] \in [1..Len(list[r]) -> {"none", "header", "error"}]
              /\ DOMAIN list[r] = 1..Len(list[r])
              /\ got[r] \in Nat /\ got[r] <= Len(list[r])
<1>1. chain \in [1..Len(chain) -> Heights] /\ Len(chain) \in Nat
  BY LenProperties DEF TypeOK
<1>2. client # Nil => client.height \in Heights /\ client.known \in SUBSET Heights
  BY DEF TypeOK
<1>3. ASSUME NEW r \in Relayers
      PROVE  /\ Len(list[r]) \in Nat /\ Len(built[r]) = Len(list[r])
             /\ list[r] \in [1..Len(list[r]) -> Metadata]
             /\ built[r] \in [1..Len(list[r]) -> {"none", "header", "error"}]
             /\ DOMAIN list[r] = 1..Len(list[r])
             /\ got[r] \in Nat /\ got[r] <= Len(list[r])
  <2>1. list[r] \in Seq(Metadata) /\ built[r] \in Seq({"none", "header", "error"})
    BY DEF TypeOK
  <2>2. Len(built[r]) = Len(list[r]) /\ got[r] \in Nat /\ got[r] <= Len(list[r])
    BY DEF TypeOK
  <2>3. QED
    BY <2>1, <2>2, LenProperties
<1>4. QED
  BY <1>1, <1>2, <1>3

\* A new preimage leaves the boundaries there were, and ends above them.
LEMMA ChainAppend ==
  ASSUME TypeOK, ChainGrows, NEW h \in Nat, h > Last(chain), h <= MaxHeight,
         chain' = Append(chain, h)
  PROVE  /\ chain' \in Seq(Heights)
         /\ Len(chain') = Len(chain) + 1
         /\ chain'[Len(chain) + 1] = h
         /\ \A i \in 1..Len(chain) : chain'[i] = chain[i] /\ chain[i] < h
         /\ ChainGrows'
<1>1. h \in Heights /\ chain \in Seq(Heights)
  BY RelayAssumption DEF Heights, TypeOK
<1>2. /\ chain' \in Seq(Heights) /\ Len(chain') = Len(chain) + 1
      /\ chain'[Len(chain) + 1] = h
      /\ \A i \in 1..Len(chain) : chain'[i] = chain[i]
  BY <1>1, AppendProperties
<1>3. chain \in [1..Len(chain) -> Heights] /\ Len(chain) \in Nat
  BY Typed
<1>4. \A i \in 1..Len(chain) : chain[i] < h
  <2>1. TAKE i \in 1..Len(chain)
  <2> DEFINE n == Len(chain)
  <2>2. n \in Nat /\ chain \in [1..n -> Heights] /\ i \in 1..n
    BY <1>3
  <2>3. \A j, k \in 1..n : j < k => chain[j] < chain[k]
    BY DEF ChainGrows
  <2> HIDE DEF n
  <2>4. n \in 1..n
    BY <2>2
  <2>5. chain[i] \in Heights /\ chain[n] \in Heights
    BY <2>2, <2>4
  <2>6. chain[i] \in Nat /\ chain[n] \in Nat
    BY <2>5, HeightsNat
  <2>7. i = n \/ chain[i] < chain[n]
    BY <2>2, <2>3, <2>4
  <2>8. QED
    BY <2>6, <2>7 DEF Last, n
<1>5. ChainGrows'
  BY <1>2, <1>3, <1>4 DEF ChainGrows
<1>6. QED
  BY <1>2, <1>4, <1>5

-----------------------------------------------------------------------------
(* The steps.                                                              *)

\* A boundary is a height from 1 on, except for the genesis block.
LEMMA BoundaryHeights ==
  ASSUME TypeOK, ChainGrows, NEW i \in 2..Len(chain)
  PROVE  chain[i] \in Heights /\ chain[i] \in 1..Last(chain)
<1> DEFINE n == Len(chain)
<1>1. n \in Nat /\ chain \in [1..n -> Heights]
  BY Typed
<1>2. \A j, k \in 1..n : j < k => chain[j] < chain[k]
  BY DEF ChainGrows
<1>3. i \in 2..n /\ chain[1] = 0
  BY DEF ChainGrows
<1> HIDE DEF n
<1>4. i \in 1..n /\ 1 \in 1..n /\ n \in 1..n /\ 1 < i
  BY <1>1, <1>3
<1>5. chain[i] \in Heights /\ chain[n] \in Heights
  BY <1>1, <1>4
<1>6. 0 < chain[i] /\ (i = n \/ chain[i] < chain[n])
  BY <1>1, <1>2, <1>3, <1>4
<1>7. Last(chain) = chain[n] /\ chain[i] \in Nat /\ chain[n] \in Nat
  BY <1>5, HeightsNat DEF Last, n
<1>8. QED
  BY <1>5, <1>6, <1>7

\* The chain has a last height.
LEMMA LastHeight ==
  ASSUME TypeOK, ChainGrows
  PROVE  Last(chain) \in Heights /\ Len(chain) \in 1..Len(chain)
<1>1. Len(chain) \in 1..Len(chain)
  BY Typed DEF ChainGrows
<1>2. QED
  BY <1>1, Typed DEF Last

\* A step that touches neither the chain nor the client nor the lists, and lets no
\* session past its query, leaves all but the types to themselves.
LEMMA Quiet ==
  ASSUME IInv, UNCHANGED <<chain, client, trusted, list, got>>,
         \A r \in Relayers : /\ pc'[r] \in {"list", "stream"} => pc'[r] = pc[r]
                             /\ pc'[r] # "idle" => pc[r] # "idle" \/ client # Nil
  PROVE  ChainGrows' /\ ClientShape' /\ SessionHasClient' /\ ListShape' /\ DeliveredKnown'
<1>1. ChainGrows'
  BY DEF IInv, ChainGrows
<1>2. ClientShape'
  BY DEF IInv, ClientShape, OnBoundaries, OffBoundary, Boundaries
<1>3. SessionHasClient'
  BY DEF IInv, SessionHasClient
<1>4. ListShape'
  <2>1. ASSUME NEW r \in Relayers, pc'[r] = "stream"
        PROVE  \E o \in 0..Len(chain') : Segment(list[r], o, trusted[r])'
    <3>1. pc[r] = "stream"
      BY <2>1
    <3>2. PICK o \in 0..Len(chain) : Segment(list[r], o, trusted[r])
      BY <3>1 DEF IInv, ListShape
    <3>3. Segment(list[r], o, trusted[r])'
      BY <3>2 DEF Segment
    <3>4. QED
      BY <3>3
  <2>2. QED
    BY <2>1 DEF ListShape
<1>5. DeliveredKnown'
  BY DEF IInv, DeliveredKnown
<1>6. QED
  BY <1>1, <1>2, <1>3, <1>4, <1>5

\* Steps that touch neither chain, client nor list keep the invariant.
LEMMA QuietSteps ==
  ASSUME IInv,
         \/ \E q \in Replicas : Sync(q)
         \/ \E r \in Relayers, q \in Replicas : GetLatest(r, q)
         \/ \E r \in Relayers : Finish(r) \/ Abort(r)
         \/ UNCHANGED vars
  PROVE  IInv'
<1> USE RelayAssumption DEF IInv
<1>1. ASSUME NEW q \in Replicas, Sync(q) PROVE IInv'
  <2>1. TypeOK'
    BY <1>1, Typed DEF TypeOK, Sync, session
  <2>2. QED
    BY <1>1, <2>1, Quiet DEF Sync, session
<1>2. ASSUME NEW r \in Relayers, NEW q \in Replicas, GetLatest(r, q) PROVE IInv'
  <2>1. view[q] \in 2..Len(chain)
    BY <1>2, Typed DEF TypeOK, GetLatest
  <2>2. chain[view[q]] \in Heights
    BY <2>1, BoundaryHeights
  <2>3. TypeOK'
    BY <1>2, <2>2 DEF TypeOK, GetLatest
  <2>4. QED
    BY <1>2, <2>3, Quiet DEF GetLatest, TypeOK
<1>3. ASSUME NEW r \in Relayers, Finish(r) PROVE IInv'
  <2>1. TypeOK'
    BY <1>3 DEF TypeOK, Finish
  <2>2. QED
    BY <1>3, <2>1, Quiet DEF Finish, TypeOK
<1>4. ASSUME NEW r \in Relayers, Abort(r) PROVE IInv'
  <2>1. TypeOK'
    BY <1>4 DEF TypeOK, Abort
  <2>2. QED
    BY <1>4, <2>1, Quiet DEF Abort, TypeOK
<1>5. CASE UNCHANGED vars
  <2>1. TypeOK'
    BY <1>5 DEF TypeOK, vars, session
  <2>2. QED
    BY <1>5, <2>1, Quiet DEF vars, session, TypeOK
<1>6. QED
  BY <1>1, <1>2, <1>3, <1>4, <1>5

\* Publish keeps the invariant.
LEMMA PublishStep ==
  ASSUME IInv, NEW h \in (Last(chain) + 1)..(Last(chain) + MaxSpan), Publish(h)
  PROVE  IInv'
<1> USE RelayAssumption DEF IInv
<1>1. Last(chain) \in Nat /\ Len(chain) \in Nat /\ Len(chain) \in 1..Len(chain)
  BY LastHeight, HeightsNat, Typed
<1>2. h \in Nat /\ h > Last(chain) /\ h <= MaxHeight /\ chain' = Append(chain, h)
  BY <1>1 DEF Publish
<1>3. /\ chain' \in Seq(Heights) /\ Len(chain') = Len(chain) + 1
      /\ chain'[Len(chain) + 1] = h
      /\ \A i \in 1..Len(chain) : chain'[i] = chain[i] /\ chain[i] < h
      /\ ChainGrows'
  BY <1>2, ChainAppend
<1>4. UNCHANGED <<view, client, pc, latest, trusted, list, built, got, faults>>
  BY DEF Publish, session
<1>5. TypeOK'
  <2>1. view' \in [Replicas -> 1..Len(chain')]
    BY <1>1, <1>3, <1>4 DEF TypeOK
  <2>2. QED
    BY <1>3, <1>4, <2>1 DEF TypeOK
<1>6. ClientShape'
  <2> SUFFICES ASSUME client # Nil
               PROVE  client.height \in 1..Last(chain') /\ (OnBoundaries' \/ OffBoundary')
    BY <1>4 DEF ClientShape
  <2>1. Last(chain') = h
    BY <1>3 DEF Last
  <2>2. client.height \in 1..Last(chain) /\ client.height < h
    BY <1>1, <1>2 DEF ClientShape
  <2>3. ASSUME OnBoundaries PROVE OnBoundaries'
    <3>1. PICK a, b \in 1..Len(chain) :
            a <= b /\ client.known = {chain[k] : k \in a..b} /\ client.height = chain[b]
      BY <2>3 DEF OnBoundaries
    <3>2. {chain'[k] : k \in a..b} = {chain[k] : k \in a..b} /\ chain'[b] = chain[b]
      <4>1. \A k \in a..b : k \in 1..Len(chain)
        BY <1>1, <3>1
      <4>2. \A k \in a..b : chain'[k] = chain[k]
        BY <1>3, <4>1
      <4>3. QED
        BY <1>3, <4>2
    <3>3. a \in 1..Len(chain') /\ b \in 1..Len(chain')
      BY <1>1, <1>3
    <3>4. QED
      BY <1>4, <3>1, <3>2, <3>3 DEF OnBoundaries
  <2>4. ASSUME OffBoundary PROVE OffBoundary'
    <3>1. \A i \in 1..Len(chain) : client.height # chain[i]
      BY <2>4, Typed DEF OffBoundary, Boundaries, ToSet
    <3>2. \A i \in 1..(Len(chain) + 1) : client.height # chain'[i]
      BY <1>1, <1>3, <2>2, <3>1
    <3>3. DOMAIN chain' = 1..(Len(chain) + 1)
      BY <1>3, LenProperties
    <3>4. client.height \notin Boundaries'
      BY <3>2, <3>3 DEF Boundaries, ToSet
    <3>5. QED
      BY <1>4, <2>4, <3>4 DEF OffBoundary
  <2>5. QED
    BY <1>1, <2>1, <2>2, <2>3, <2>4 DEF ClientShape
<1>7. SessionHasClient'
  BY <1>4 DEF SessionHasClient
<1>8. ListShape'
  <2>1. ASSUME NEW r \in Relayers, pc[r] = "stream"
        PROVE  \E o \in 0..Len(chain') : Segment(list[r], o, trusted[r])'
    <3>1. PICK o \in 0..Len(chain) : Segment(list[r], o, trusted[r])
      BY <2>1 DEF ListShape
    <3>2. Len(list[r]) \in Nat /\ o \in Nat /\ o + Len(list[r]) + 1 <= Len(chain)
      BY <3>1, Typed DEF Segment
    <3>3. \A k \in 1..Len(list[r]) : chain'[o + k] = chain[o + k] /\ chain'[o + k + 1] = chain[o + k + 1]
      <4>1. \A k \in 1..Len(list[r]) : o + k \in 1..Len(chain) /\ o + k + 1 \in 1..Len(chain)
        BY <1>1, <3>2
      <4>2. QED
        BY <1>3, <4>1
    <3>4. Len(list[r]) > 0 => chain'[o + 1] = chain[o + 1] /\ chain'[o + 2] = chain[o + 2]
      <4>1. Len(list[r]) > 0 => o + 1 \in 1..Len(chain) /\ o + 2 \in 1..Len(chain)
        BY <1>1, <3>2
      <4>2. QED
        BY <1>3, <4>1
    <3>5. Segment(list[r], o, trusted[r])'
      <4>1. o + Len(list[r]) + 1 <= Len(chain')
        BY <1>1, <1>3, <3>2
      <4>2. QED
        BY <1>4, <3>1, <3>3, <3>4, <4>1 DEF Segment
    <3>6. o \in 0..Len(chain')
      BY <1>1, <1>3
    <3>7. QED
      BY <3>5, <3>6
  <2>2. QED
    BY <1>4, <2>1 DEF ListShape
<1>9. DeliveredKnown'
  BY <1>4 DEF DeliveredKnown
<1>10. QED
  BY <1>3, <1>5, <1>6, <1>7, <1>8, <1>9

\* The creation of the client keeps the invariant.
LEMMA CreateSteps ==
  ASSUME IInv,
         \/ \E q \in Replicas : CreateAtLatest(q)
         \/ \E h \in 1..Last(chain) : CreateAt(h)
  PROVE  IInv'
<1> USE RelayAssumption DEF IInv
<1>1. PICK h \in 1..Last(chain) : /\ client = Nil
                                  /\ client' = [height |-> h, known |-> {h}]
                                  /\ UNCHANGED <<chain, view, session, faults>>
  <2>1. ASSUME NEW q \in Replicas, CreateAtLatest(q)
        PROVE  \E h \in 1..Last(chain) : client' = [height |-> h, known |-> {h}]
    <3>1. view[q] \in 2..Len(chain)
      BY <2>1, Typed DEF TypeOK, CreateAtLatest
    <3>2. chain[view[q]] \in 1..Last(chain)
      BY <3>1, BoundaryHeights
    <3>3. QED
      BY <2>1, <3>2 DEF CreateAtLatest
  <2>2. QED
    BY <2>1 DEF CreateAtLatest, CreateAt
<1>2. h \in Heights
  BY LastHeight DEF Heights
<1>3. UNCHANGED <<chain, view, pc, latest, trusted, list, built, got, faults>>
  BY <1>1 DEF session
<1>4. TypeOK'
  <2>1. client' \in [height : Heights, known : SUBSET Heights] \cup {Nil}
    BY <1>1, <1>2
  <2>2. QED
    BY <1>3, <2>1 DEF TypeOK
<1>5. client' # Nil => client'.height = h /\ client'.known = {h}
  BY <1>1
<1>6. ClientShape'
  <2>1. CASE h \in Boundaries
    <3>1. PICK a \in 1..Len(chain) : chain[a] = h
      BY <2>1, Typed DEF Boundaries, ToSet
    <3>2. {chain[k] : k \in a..a} = {h}
      BY <3>1, Typed
    <3>3. client' # Nil => OnBoundaries'
      BY <1>3, <1>5, <3>1, <3>2, Typed DEF OnBoundaries
    <3>4. QED
      BY <1>3, <1>5, <3>3 DEF ClientShape
  <2>2. CASE h \notin Boundaries
    BY <1>3, <1>5, <2>2 DEF ClientShape, OffBoundary, Boundaries
  <2>3. QED
    BY <2>1, <2>2
<1>7. \A r \in Relayers : pc[r] = "idle"
  BY <1>1 DEF SessionHasClient, TypeOK
<1>8. SessionHasClient' /\ ListShape' /\ DeliveredKnown'
  BY <1>3, <1>7 DEF SessionHasClient, ListShape, DeliveredKnown
<1>9. ChainGrows'
  BY <1>3 DEF ChainGrows
<1>10. QED
  BY <1>4, <1>6, <1>8, <1>9

\* Query keeps the invariant.
LEMMA QueryStep ==
  ASSUME IInv, NEW r \in Relayers, QueryClient(r)
  PROVE  IInv'
<1> USE RelayAssumption DEF IInv
<1>1. client # Nil /\ client.height \in Heights /\ client.height \in client.known
  <2>1. client # Nil
    BY DEF QueryClient, SessionHasClient
  <2>2. client.height \in Heights
    BY <2>1, Typed
  <2>3. ASSUME OnBoundaries PROVE client.height \in client.known
    <3>1. PICK a, b \in 1..Len(chain) :
            a <= b /\ client.known = {chain[k] : k \in a..b} /\ client.height = chain[b]
      BY <2>3 DEF OnBoundaries
    <3>2. b \in a..b
      BY <3>1, Typed
    <3>3. QED
      BY <3>1, <3>2
  <2>4. ASSUME OffBoundary PROVE client.height \in client.known
    BY <2>4 DEF OffBoundary
  <2>5. QED
    BY <2>1, <2>2, <2>3, <2>4 DEF ClientShape
<1>2. TypeOK'
  BY <1>1 DEF TypeOK, QueryClient
<1>3. SessionHasClient'
  BY <1>1 DEF SessionHasClient, QueryClient, TypeOK
<1>4. \A s \in Relayers : pc'[s] = "stream" => s # r /\ pc[s] = "stream" /\ trusted'[s] = trusted[s]
  BY DEF QueryClient, TypeOK
<1>5. ListShape'
  BY <1>4 DEF QueryClient, ListShape, Segment
<1>6. ChainGrows' /\ ClientShape' /\ DeliveredKnown'
  BY <1>4 DEF QueryClient, ChainGrows, ClientShape, OnBoundaries, OffBoundary, Boundaries, DeliveredKnown
<1>7. QED
  BY <1>2, <1>3, <1>5, <1>6

\* List keeps the invariant.
LEMMA ListStep ==
  ASSUME IInv, NEW r \in Relayers, NEW q \in Replicas, List(r, q)
  PROVE  IInv'
<1> USE RelayAssumption DEF IInv
<1> DEFINE l == ListPreimageMetadata(r, view[q])
<1>1. view[q] \in 1..Len(chain)
  BY DEF TypeOK
<1>2. l \in Seq(Metadata) /\ \E o \in 0..Len(chain) : Segment(l, o, trusted[r])
  BY <1>1, ListIsSegment
<1>3. list' = [list EXCEPT ![r] = l] /\ list'[r] = l
  BY DEF List, TypeOK
<1> HIDE DEF l
<1>4. Len(l) \in Nat /\ DOMAIN l = 1..Len(l)
  BY <1>2, LenProperties
<1>5. TypeOK'
  <2> DEFINE b == [k \in DOMAIN l |-> "none"]
  <2>1. b \in Seq({"none", "header", "error"}) /\ Len(b) = Len(l)
    BY <1>4
  <2>2. built' = [built EXCEPT ![r] = b]
    BY <1>3 DEF List
  <2> HIDE DEF b
  <2>3. list' \in [Relayers -> Seq(Metadata)]
    BY <1>2, <1>3 DEF TypeOK
  <2>4. built' \in [Relayers -> Seq({"none", "header", "error"})]
    BY <2>1, <2>2 DEF TypeOK
  <2>5. got' = [got EXCEPT ![r] = 0] /\ got' \in [Relayers -> Nat]
    BY DEF List, TypeOK
  <2>6. \A s \in Relayers : Len(built'[s]) = Len(list'[s]) /\ got'[s] <= Len(list'[s])
    BY <1>3, <1>4, <2>1, <2>2, <2>5 DEF TypeOK
  <2>7. pc' \in [Relayers -> {"idle", "query", "list", "stream"}]
    BY DEF List, TypeOK
  <2>8. UNCHANGED <<chain, view, client, latest, trusted, faults>>
    BY DEF List
  <2>9. QED
    BY <2>3, <2>4, <2>5, <2>6, <2>7, <2>8 DEF TypeOK
<1>6. SessionHasClient'
  BY DEF SessionHasClient, List, TypeOK
<1>7. \A s \in Relayers \ {r} : pc'[s] = pc[s] /\ list'[s] = list[s] /\ got'[s] = got[s]
  BY DEF List, TypeOK
<1>8. UNCHANGED <<chain, client, trusted>>
  BY DEF List
<1>9. ListShape'
  <2>1. \E o \in 0..Len(chain') : Segment(list[r], o, trusted[r])'
    BY <1>2, <1>3, <1>8 DEF Segment
  <2>2. ASSUME NEW s \in Relayers \ {r}, pc'[s] = "stream"
        PROVE  \E o \in 0..Len(chain') : Segment(list[s], o, trusted[s])'
    <3>1. PICK o \in 0..Len(chain) : Segment(list[s], o, trusted[s])
      BY <1>7, <2>2 DEF ListShape
    <3>2. Segment(list[s], o, trusted[s])'
      BY <1>7, <1>8, <3>1 DEF Segment
    <3>3. QED
      BY <1>8, <3>2
  <2>3. QED
    BY <2>1, <2>2 DEF ListShape
<1>10. DeliveredKnown'
  <2>1. got'[r] = 0
    BY DEF List, TypeOK
  <2>2. QED
    BY <1>7, <1>8, <2>1 DEF DeliveredKnown
<1>11. ChainGrows' /\ ClientShape'
  BY <1>8 DEF ChainGrows, ClientShape, OnBoundaries, OffBoundary, Boundaries
<1>12. QED
  BY <1>5, <1>6, <1>9, <1>10, <1>11

\* An answer of a worker keeps the invariant.
LEMMA BuildSteps ==
  ASSUME IInv, NEW r \in Relayers, NEW k \in DOMAIN list[r],
         BuildFails(r, k) \/ \E q \in Replicas : Build(r, k, q)
  PROVE  IInv'
<1> USE RelayAssumption DEF IInv
<1>1. PICK answer \in {"header", "error"} : built' = [built EXCEPT ![r][k] = answer]
  <2>1. CASE BuildFails(r, k)
    BY <2>1 DEF BuildFails
  <2>2. ASSUME NEW q \in Replicas, Build(r, k, q)
        PROVE  \E answer \in {"header", "error"} : built' = [built EXCEPT ![r][k] = answer]
    BY <2>2 DEF Build
  <2>3. QED
    BY <2>1, <2>2
<1>2. UNCHANGED <<chain, view, client, pc, latest, trusted, list, got>> /\ faults' \in 0..MaxFaults
  BY DEF BuildFails, Build, TypeOK
<1>3. TypeOK'
  <2> DEFINE b == [built[r] EXCEPT ![k] = answer]
  <2>1. k \in 1..Len(built[r]) /\ built[r] \in Seq({"none", "header", "error"})
    BY Typed DEF TypeOK
  <2>2. b \in Seq({"none", "header", "error"}) /\ Len(b) = Len(built[r])
    BY <2>1, ExceptSeq
  <2>3. built' = [built EXCEPT ![r] = b]
    BY <1>1
  <2> HIDE DEF b
  <2>4. built' \in [Relayers -> Seq({"none", "header", "error"})]
    BY <2>2, <2>3 DEF TypeOK
  <2>5. \A s \in Relayers : Len(built'[s]) = Len(list'[s]) /\ got'[s] <= Len(list'[s])
    BY <1>2, <2>2, <2>3 DEF TypeOK
  <2>6. QED
    BY <1>2, <2>4, <2>5 DEF TypeOK
<1>4. QED
  BY <1>2, <1>3, Quiet

\* The next header in line starts from a height the client has, or the client was
\* created inside a preimage.
LEMMA NextConnects ==
  ASSUME IInv, NEW r \in Relayers, pc[r] = "stream", got[r] < Len(list[r]),
         NEW o \in 0..Len(chain), Segment(list[r], o, trusted[r])
  PROVE  /\ o + got[r] + 2 \in 2..Len(chain)
         /\ list[r][got[r] + 1] = [agreed  |-> chain[o + got[r] + 1],
                                  claimed |-> chain[o + got[r] + 2]]
         /\ OnBoundaries => chain[o + got[r] + 1] \in client.known
<1> USE DEF IInv
<1> DEFINE k == got[r]
<1>1. k \in Nat /\ Len(list[r]) \in Nat /\ k < Len(list[r])
      /\ chain \in [1..Len(chain) -> Heights] /\ Len(chain) \in Nat
  BY Typed
<1>2. o + Len(list[r]) + 1 <= Len(chain)
  BY DEF Segment
<1>3. k + 1 \in 1..Len(list[r])
  BY <1>1
<1>4. list[r][k + 1] = [agreed |-> chain[o + (k + 1)], claimed |-> chain[o + (k + 1) + 1]]
  BY <1>3 DEF Segment
<1>5. o + (k + 1) = o + k + 1 /\ o + (k + 1) + 1 = o + k + 2
  BY <1>1
<1>6. o + k + 2 \in 2..Len(chain)
  BY <1>1, <1>2
<1>7. ASSUME OnBoundaries PROVE chain[o + k + 1] \in client.known
  <2>1. CASE k = 0
    <3>1. chain[o + 1] <= trusted[r] /\ trusted[r] < chain[o + 2] /\ trusted[r] \in client.known
      BY <1>1 DEF Segment, SessionHasClient
    <3>2. PICK a, b \in 1..Len(chain) : client.known = {chain[i] : i \in a..b}
      BY <1>7 DEF OnBoundaries
    <3>3. PICK i \in a..b : trusted[r] = chain[i]
      BY <3>1, <3>2
    <3>4. i \in 1..Len(chain) /\ o + 1 \in 1..Len(chain) /\ o + 2 \in 1..Len(chain)
      BY <1>1, <1>2, <3>2
    <3>5. chain[i] \in Nat /\ chain[o + 1] \in Nat /\ chain[o + 2] \in Nat
      <4>1. chain[i] \in Heights /\ chain[o + 1] \in Heights /\ chain[o + 2] \in Heights
        BY <1>1, <3>4
      <4>2. QED
        BY <4>1, HeightsNat
    <3>6. ~(i < o + 1)
      <4>1. i < o + 1 => chain[i] < chain[o + 1]
        BY <3>4 DEF ChainGrows
      <4>2. QED
        BY <3>1, <3>3, <3>5, <4>1
    <3>7. ~(o + 2 < i) /\ i # o + 2
      <4>1. o + 2 < i => chain[o + 2] < chain[i]
        BY <3>4 DEF ChainGrows
      <4>2. QED
        BY <3>1, <3>3, <3>5, <4>1
    <3>8. i = o + 1
      BY <3>4, <3>6, <3>7, <1>1
    <3>9. QED
      BY <2>1, <3>1, <3>3, <3>8
  <2>2. CASE k > 0
    <3>1. k \in 1..got[r] /\ k \in 1..Len(list[r])
      BY <1>1, <2>2
    <3>2. list[r][k].claimed \in client.known
      BY <3>1 DEF DeliveredKnown
    <3>3. list[r][k] = [agreed |-> chain[o + k], claimed |-> chain[o + k + 1]]
      BY <3>1 DEF Segment
    <3>4. QED
      BY <3>2, <3>3
  <2>3. QED
    BY <1>1, <2>1, <2>2
<1>8. QED
  BY <1>4, <1>5, <1>6, <1>7

\* A header the client takes moves it from a boundary to the next one, or was taken
\* before.
LEMMA AcceptedExtends ==
  ASSUME TypeOK, ChainGrows, ClientShape, client # Nil,
         NEW j \in 2..Len(chain), chain[j - 1] \in client.known
  PROVE  /\ OnBoundaries
         /\ \E a, b \in 1..Len(chain) :
              /\ a <= b
              /\ client.known \cup {chain[j]} = {chain[k] : k \in a..b}
              /\ Max({client.height, chain[j]}) = chain[b]
         /\ \/ Max({client.height, chain[j]}) = client.height
            \/ /\ client.height = chain[j - 1]
               /\ Max({client.height, chain[j]}) = chain[j]
<1> DEFINE n == Len(chain)
<1>1. n \in Nat /\ chain \in [1..n -> Heights]
  BY Typed
<1>2. \A i, k \in 1..n : i < k => chain[i] < chain[k]
  BY DEF ChainGrows
<1>3. \A i \in 1..n : i \in DOMAIN chain
  BY <1>1
<1>4. OnBoundaries
  <2>1. chain[j - 1] \in Boundaries
    BY <1>1 DEF Boundaries, ToSet
  <2>2. ~OffBoundary
    BY <2>1 DEF OffBoundary
  <2>3. QED
    BY <2>2 DEF ClientShape
<1> HIDE DEF n
<1>5. PICK a, b \in 1..n : a <= b /\ client.known = {chain[k] : k \in a..b} /\ client.height = chain[b]
  BY <1>4 DEF OnBoundaries, n
<1>6. PICK i \in a..b : chain[i] = chain[j - 1]
  BY <1>5
<1>7. i \in 1..n /\ j - 1 \in 1..n /\ j \in 1..n
  BY <1>1, <1>5 DEF n
<1>8. \A k \in 1..n : chain[k] \in Nat
  BY <1>1, HeightsNat
<1>9. i = j - 1
  <2>1. ~(i < j - 1) /\ ~(j - 1 < i)
    BY <1>2, <1>6, <1>7, <1>8
  <2>2. QED
    BY <1>1, <1>7, <2>1
<1>10. j - 1 <= b /\ a <= j - 1
  BY <1>6, <1>9
<1>11. CASE j <= b
  <2>1. j \in a..b
    BY <1>1, <1>5, <1>7, <1>10, <1>11
  <2>2. client.known \cup {chain[j]} = {chain[k] : k \in a..b}
    BY <1>5, <2>1
  <2>3. chain[b] >= chain[j]
    <3>1. j = b \/ chain[j] < chain[b]
      BY <1>1, <1>2, <1>5, <1>7, <1>11
    <3>2. QED
      BY <3>1, <1>5, <1>7, <1>8
  <2>4. Max({client.height, chain[j]}) = chain[b]
    BY <1>5, <1>7, <1>8, <2>3, MaxOfTwo
  <2>5. QED
    BY <1>4, <1>5, <2>2, <2>4 DEF n
<1>12. CASE ~(j <= b)
  <2>1. j = b + 1
    BY <1>1, <1>5, <1>7, <1>10, <1>12
  <2>2. client.known \cup {chain[j]} = {chain[k] : k \in a..j}
    <3>1. a..j = (a..b) \cup {j}
      BY <1>1, <1>5, <2>1
    <3>2. QED
      BY <1>5, <3>1
  <2>3. chain[b] < chain[j]
    BY <1>1, <1>2, <1>5, <1>7, <2>1
  <2>4. Max({client.height, chain[j]}) = chain[j]
    <3>1. ~(chain[b] >= chain[j])
      BY <1>5, <1>7, <1>8, <2>3
    <3>2. QED
      BY <1>5, <1>7, <1>8, <3>1, MaxOfTwo
  <2>5. client.height = chain[j - 1] /\ a <= j
    BY <1>1, <1>5, <1>10, <2>1
  <2>6. QED
    BY <1>4, <1>5, <1>7, <2>2, <2>4, <2>5 DEF n
<1>13. QED
  BY <1>11, <1>12

\* What a delivery does to the client, if anything.
LEMMA DeliverMoves ==
  ASSUME IInv, NEW r \in Relayers, Deliver(r), client' # client
  PROVE  \E j \in 2..Len(chain) :
           /\ list[r][got[r] + 1].claimed = chain[j]
           /\ chain[j - 1] \in client.known
           /\ client' = [height |-> Max({client.height, chain[j]}),
                         known  |-> client.known \cup {chain[j]}]
           /\ UNCHANGED pc
<1> USE DEF IInv
<1>1. pc[r] = "stream" /\ got[r] < Len(list[r])
  BY DEF Deliver
<1>2. PICK o \in 0..Len(chain) : Segment(list[r], o, trusted[r])
  BY <1>1 DEF ListShape
<1> DEFINE j == o + got[r] + 2
           m == list[r][got[r] + 1]
<1>3. j \in 2..Len(chain) /\ m = [agreed |-> chain[o + got[r] + 1], claimed |-> chain[j]]
  BY <1>1, <1>2, NextConnects
<1>4. j - 1 = o + got[r] + 1
  BY <1>2, Typed
<1>5. m.agreed = chain[j - 1] /\ m.claimed = chain[j]
  BY <1>3, <1>4
<1>6. Accepts(m) /\ client' = Updated(m) /\ UNCHANGED pc
  BY DEF Deliver
<1> HIDE DEF j, m
<1>7. QED
  BY <1>3, <1>5, <1>6 DEF Accepts, Updated, m

\* Deliver keeps the invariant.
LEMMA DeliverStep ==
  ASSUME IInv, NEW r \in Relayers, Deliver(r)
  PROVE  IInv'
<1> USE RelayAssumption DEF IInv
<1>1. UNCHANGED <<chain, view, latest, trusted, list, built, faults>>
      /\ got' = [got EXCEPT ![r] = @ + 1]
      /\ pc' \in {pc, [pc EXCEPT ![r] = "idle"]}
  BY DEF Deliver
<1>2. pc[r] = "stream" /\ got[r] < Len(list[r]) /\ client # Nil
  BY DEF Deliver, SessionHasClient
<1>3. got' \in [Relayers -> Nat] /\ got'[r] = got[r] + 1 /\ got'[r] <= Len(list[r])
      /\ \A s \in Relayers \ {r} : got'[s] = got[s]
  BY <1>1, <1>2, Typed DEF TypeOK
<1>4. pc' \in [Relayers -> {"idle", "query", "list", "stream"}]
      /\ \A s \in Relayers : pc'[s] # "idle" => pc'[s] = pc[s]
  BY <1>1 DEF TypeOK
<1>5. ChainGrows'
  BY <1>1 DEF ChainGrows
<1>6. ASSUME client' \in [height : Heights, known : SUBSET Heights] \cup {Nil}
      PROVE  TypeOK'
  BY <1>1, <1>3, <1>4, <1>6 DEF TypeOK
<1>7. ListShape'
  <2>1. ASSUME NEW s \in Relayers, pc'[s] = "stream"
        PROVE  \E o \in 0..Len(chain') : Segment(list[s], o, trusted[s])'
    <3>1. PICK o \in 0..Len(chain) : Segment(list[s], o, trusted[s])
      BY <1>4, <2>1 DEF ListShape
    <3>2. Segment(list[s], o, trusted[s])'
      BY <1>1, <3>1 DEF Segment
    <3>3. QED
      BY <1>1, <3>2
  <2>2. QED
    BY <2>1 DEF ListShape
<1>8. CASE client' = client
  <2>1. TypeOK'
    BY <1>6, <1>8 DEF TypeOK
  <2>2. ClientShape'
    BY <1>1, <1>8 DEF ClientShape, OnBoundaries, OffBoundary, Boundaries
  <2>3. SessionHasClient'
    BY <1>1, <1>4, <1>8 DEF SessionHasClient
  <2>4. pc'[r] = "stream" => list[r][got[r] + 1].claimed \in client.known
    <3>1. ASSUME pc'[r] = "stream"
          PROVE  client' = Updated(list[r][got[r] + 1])
      BY <3>1 DEF Deliver, TypeOK
    <3>2. QED
      BY <1>8, <3>1 DEF Updated
  <2>5. DeliveredKnown'
    <3>1. ASSUME pc'[r] = "stream", NEW k \in 1..got'[r]
          PROVE  list[r][k].claimed \in client.known
      <4>1. k \in 1..got[r] \/ k = got[r] + 1
        BY <1>3, Typed
      <4>2. QED
        BY <1>2, <2>4, <3>1, <4>1 DEF DeliveredKnown
    <3>2. QED
      BY <1>1, <1>3, <1>4, <1>8, <3>1 DEF DeliveredKnown
  <2>6. QED
    BY <1>5, <1>7, <2>1, <2>2, <2>3, <2>5
<1>9. CASE client' # client
  <2>1. PICK j \in 2..Len(chain) :
          /\ list[r][got[r] + 1].claimed = chain[j]
          /\ chain[j - 1] \in client.known
          /\ client' = [height |-> Max({client.height, chain[j]}),
                        known  |-> client.known \cup {chain[j]}]
    BY <1>9, DeliverMoves
  <2>2. PICK a, b \in 1..Len(chain) :
          /\ a <= b
          /\ client.known \cup {chain[j]} = {chain[k] : k \in a..b}
          /\ Max({client.height, chain[j]}) = chain[b]
    BY <1>2, <2>1, AcceptedExtends
  <2>3. chain[j] \in Heights /\ chain[j] \in 1..Last(chain)
    BY BoundaryHeights
  <2>4. client.height \in Heights /\ client.known \in SUBSET Heights /\ chain[b] \in Heights
    BY <1>2, <2>2, Typed
  <2>5. client'.height = chain[b] /\ client'.known = {chain[k] : k \in a..b}
    BY <2>1, <2>2
  <2>6. TypeOK'
    <3>1. client' \in [height : Heights, known : SUBSET Heights]
      BY <2>1, <2>2, <2>3, <2>4
    <3>2. QED
      BY <1>6, <3>1
  <2>7. ClientShape'
    <3>1. OnBoundaries'
      BY <1>1, <2>2, <2>5 DEF OnBoundaries
    <3>2. client'.height \in 1..Last(chain)
      <4>1. client.height \in 1..Last(chain)
        BY <1>2 DEF ClientShape
      <4>2. client.height \in Nat /\ chain[j] \in Nat
        BY <2>3, <2>4, HeightsNat
      <4>3. Max({client.height, chain[j]}) \in {client.height, chain[j]}
        BY <4>2, MaxOfTwo
      <4>4. QED
        BY <2>1, <2>3, <4>1, <4>3
    <3>3. QED
      BY <1>1, <3>1, <3>2 DEF ClientShape
  <2>8. client.known \subseteq client'.known /\ chain[j] \in client'.known
    BY <2>1
  <2>9. SessionHasClient'
    <3>1. client' # Nil
      <4>1. client' \in [height : Heights, known : SUBSET Heights]
        BY <2>1, <2>2, <2>3, <2>4
      <4>2. QED
        BY <4>1 DEF Heights
    <3>2. QED
      BY <1>1, <1>4, <2>8, <3>1 DEF SessionHasClient
  <2>10. DeliveredKnown'
    <3>1. ASSUME NEW s \in Relayers, pc'[s] = "stream", NEW k \in 1..got'[s]
          PROVE  list[s][k].claimed \in client'.known
      <4>1. k \in 1..got[s] \/ (s = r /\ k = got[r] + 1)
        BY <1>3, Typed
      <4>2. pc[s] = "stream"
        BY <1>4, <3>1
      <4>3. QED
        BY <2>1, <2>8, <4>1, <4>2 DEF DeliveredKnown
    <3>2. QED
      BY <1>1, <3>1 DEF DeliveredKnown
  <2>11. QED
    BY <1>5, <1>7, <2>6, <2>7, <2>9, <2>10
<1>10. QED
  BY <1>8, <1>9

-----------------------------------------------------------------------------
(* The theorems.                                                           *)

\* Every step keeps the invariant.
LEMMA NextIInv == IInv /\ [Next]_vars => IInv'
<1> SUFFICES ASSUME IInv, [Next]_vars PROVE IInv'
  OBVIOUS
<1>1. ASSUME NEW h \in (Last(chain) + 1)..(Last(chain) + MaxSpan), Publish(h) PROVE IInv'
  BY <1>1, PublishStep
<1>2. ASSUME NEW q \in Replicas, Sync(q) \/ CreateAtLatest(q) PROVE IInv'
  BY <1>2, QuietSteps, CreateSteps
<1>3. ASSUME NEW h \in 1..Last(chain), CreateAt(h) PROVE IInv'
  BY <1>3, CreateSteps
<1>4. ASSUME NEW r \in Relayers, NEW q \in Replicas, GetLatest(r, q) \/ List(r, q) PROVE IInv'
  BY <1>4, QuietSteps, ListStep
<1>5. ASSUME NEW r \in Relayers, QueryClient(r) \/ Deliver(r) \/ Finish(r) \/ Abort(r) PROVE IInv'
  BY <1>5, QueryStep, DeliverStep, QuietSteps
<1>6. ASSUME NEW r \in Relayers, NEW k \in DOMAIN list[r],
             BuildFails(r, k) \/ \E q \in Replicas : Build(r, k, q)
      PROVE  IInv'
  BY <1>6, BuildSteps
<1>7. CASE UNCHANGED vars
  BY <1>7, QuietSteps
<1>8. QED
  BY <1>1, <1>2, <1>3, <1>4, <1>5, <1>6, <1>7 DEF Next

\* The invariant holds initially.
LEMMA InitIInv == Init => IInv
<1> SUFFICES ASSUME Init PROVE IInv
  OBVIOUS
<1> USE RelayAssumption DEF Init
<1>1. chain \in Seq(Heights) /\ Len(chain) = 1 /\ chain[1] = 0
  BY DEF Heights
<1>2. TypeOK
  BY <1>1 DEF TypeOK, Heights
<1>3. ChainGrows
  BY <1>1 DEF ChainGrows
<1>4. QED
  BY <1>2, <1>3 DEF IInv, ClientShape, SessionHasClient, ListShape, DeliveredKnown

\* The invariant holds in every state.
THEOREM Invariance == Spec => []IInv
  BY InitIInv, NextIInv, PTL DEF Spec

\* Relayers, lists and client keep their types for any number of relayers, preimage
\* makers and heights: a session never takes more results than it asked for.
THEOREM TypeCorrect == Spec => []TypeOK
<1>1. IInv => TypeOK
  BY DEF IInv
<1>2. QED
  BY <1>1, Invariance, PTL

\* Whatever other relayers, lagging preimage makers and failures do to it, the header
\* a relayer takes from the stream next starts from a consensus state that the
\* client has, if the client was created where a preimage begins.
THEOREM HeadersConnect == Spec => []Connected
<1>1. ASSUME IInv, Aligned PROVE OnBoundaries
  <2>1. client # Nil /\ ClientShape
    BY <1>1 DEF IInv, Aligned
  <2>2. ASSUME OffBoundary PROVE FALSE
    <3>1. client.height \in Nat
      BY <1>1, <2>1, Typed, HeightsNat DEF IInv
    <3>2. Min({client.height}) = client.height
      BY <3>1, MinLeast
    <3>3. QED
      BY <1>1, <2>2, <3>2 DEF OffBoundary, Aligned
  <2>3. QED
    BY <2>1, <2>2 DEF ClientShape
<1>2. ASSUME IInv, Aligned, NEW r \in Relayers, pc[r] = "stream", got[r] < Len(list[r])
      PROVE  list[r][got[r] + 1].agreed \in client.known
  <2>1. PICK o \in 0..Len(chain) : Segment(list[r], o, trusted[r])
    BY <1>2 DEF IInv, ListShape
  <2>2. /\ list[r][got[r] + 1] = [agreed  |-> chain[o + got[r] + 1],
                                 claimed |-> chain[o + got[r] + 2]]
        /\ chain[o + got[r] + 1] \in client.known
    BY <1>1, <1>2, <2>1, NextConnects
  <2>3. QED
    BY <2>2
<1>3. IInv => Connected
  BY <1>2 DEF Connected
<1>4. QED
  BY <1>3, Invariance, PTL

-----------------------------------------------------------------------------
(* The refinement.                                                         *)

\* Initial states are initial states of ClientAdvance.
LEMMA InitRefines == Init => Advances!Init
  BY DEF Init, Advances!Init

\* Both modules mean the same last height.
LEMMA SameLast == Advances!Last(chain) = Last(chain)
  BY DEF Advances!Last, Last

\* A delivery is one step of the client along the chain, or none.
LEMMA DeliverRefines ==
  ASSUME IInv, NEW r \in Relayers, Deliver(r)
  PROVE  Advances!Advance \/ UNCHANGED Advances!vars
<1> USE DEF IInv
<1>1. UNCHANGED chain
  BY DEF Deliver
<1>2. CASE client' = client
  BY <1>1, <1>2 DEF Advances!vars
<1>3. CASE client' # client
  <2>1. PICK j \in 2..Len(chain) :
          /\ chain[j - 1] \in client.known
          /\ client' = [height |-> Max({client.height, chain[j]}),
                        known  |-> client.known \cup {chain[j]}]
    BY <1>3, DeliverMoves
  <2>2. client # Nil /\ client' # Nil
    <3>1. client # Nil
      BY DEF Deliver, SessionHasClient
    <3>2. pc[r] = "stream" /\ IInv'
      BY DeliverStep DEF Deliver
    <3>3. client' # Nil
      <4>1. UNCHANGED pc
        BY <1>3, DeliverMoves
      <4>2. QED
        BY <3>2, <4>1 DEF SessionHasClient
    <3>4. QED
      BY <3>1, <3>3
  <2>3. \/ client'.height = client.height
        \/ client.height = chain[j - 1] /\ client'.height = chain[j]
    BY <2>1, <2>2, AcceptedExtends
  <2>4. j - 1 \in 1..(Len(chain) - 1) /\ j - 1 + 1 = j
    BY Typed
  <2>5. QED
    BY <1>1, <2>2, <2>3, <2>4 DEF Advances!Advance, Advances!vars
<1>4. QED
  BY <1>2, <1>3

\* Every step is a step of ClientAdvance or none.
LEMMA NextRefines == IInv /\ [Next]_vars => [Advances!Next]_(Advances!vars)
<1> SUFFICES ASSUME IInv, [Next]_vars PROVE [Advances!Next]_(Advances!vars)
  OBVIOUS
<1> USE DEF Advances!Next
<1>1. ASSUME NEW h \in (Last(chain) + 1)..(Last(chain) + MaxSpan), Publish(h)
      PROVE  Advances!Next
  BY <1>1, SameLast DEF Publish, Advances!Publish
<1>2. ASSUME client = Nil, NEW h \in 1..Last(chain), client' = [height |-> h, known |-> {h}],
             UNCHANGED chain
      PROVE  Advances!Next
  <2>1. h \in Heights
    BY <1>2, LastHeight, RelayAssumption DEF IInv, Heights
  <2>2. client' # Nil
    BY <1>2, <2>1, RelayAssumption DEF Heights
  <2>3. client'.height = h
    BY <1>2
  <2>4. QED
    BY <1>2, <2>2, <2>3, SameLast DEF Advances!Create
<1>3. ASSUME NEW q \in Replicas, CreateAtLatest(q) PROVE Advances!Next
  <2>1. view[q] \in 2..Len(chain)
    BY <1>3, Typed DEF IInv, TypeOK, CreateAtLatest
  <2>2. chain[view[q]] \in 1..Last(chain)
    BY <2>1, BoundaryHeights DEF IInv
  <2>3. QED
    BY <1>2, <1>3, <2>2 DEF CreateAtLatest
<1>4. ASSUME NEW h \in 1..Last(chain), CreateAt(h) PROVE Advances!Next
  BY <1>2, <1>4 DEF CreateAt
<1>5. ASSUME NEW r \in Relayers, Deliver(r) PROVE [Advances!Next]_(Advances!vars)
  BY <1>5, DeliverRefines
<1>6. ASSUME \/ \E q \in Replicas : Sync(q)
             \/ \E r \in Relayers, q \in Replicas : GetLatest(r, q) \/ List(r, q)
             \/ \E r \in Relayers : QueryClient(r) \/ Finish(r) \/ Abort(r)
             \/ \E r \in Relayers : \E k \in DOMAIN list[r] :
                  BuildFails(r, k) \/ \E q \in Replicas : Build(r, k, q)
             \/ UNCHANGED vars
      PROVE  UNCHANGED Advances!vars
  <2>1. UNCHANGED <<chain, client>>
    BY <1>6 DEF Sync, GetLatest, List, QueryClient, Finish, Abort, BuildFails, Build, vars
  <2>2. QED
    BY <2>1 DEF Advances!vars
<1>7. QED
  BY <1>1, <1>3, <1>4, <1>5, <1>6 DEF Next

\* The client under any number of relayers moves as ClientAdvance says, one preimage
\* at a time and never back.
THEOREM RefinesAdvance == Spec => Advances!SafeSpec
  BY Invariance, InitRefines, NextRefines, PTL DEF Spec, Advances!SafeSpec
=============================================================================
