-------------------------------- MODULE Relay --------------------------------
(***************************************************************************)
(* Update sessions of relayers that run this prover against one client on  *)
(* the counterparty: GetLatestFinalizedHeader, SetupHeadersForUpdate, and  *)
(* the headers of its stream submitted as they come                        *)
(* (module/prover/prover.go, module/prover/l2/l2.go).                      *)
(*                                                                         *)
(* The stream is the one OrderedStream describes, which HeaderChan is      *)
(* shown to implement; what a header carries besides its two L2 heights is *)
(* the subject of HeaderBuilder, which shows that a built header convinces *)
(* a client that has a consensus state at its trusted height.  Here the    *)
(* preimage makers lag behind each other, several relayers update the same *)
(* client, calls fail and relayers restart.  External: all preimage makers *)
(* share one chain of the boundaries at which preimages begin and end, and *)
(* each knows a beginning of it.                                           *)
(***************************************************************************)
EXTENDS Naturals, Sequences, SequencesExt, FiniteSetsExt

CONSTANTS
  Relayers,   \* relayer processes
  Replicas,   \* preimage makers behind the endpoint selector
  MaxHeight,  \* bound on the L2 heights
  MaxSpan,    \* bound on the L2 blocks one preimage covers
  Window,     \* max_header_concurrency
  MaxFaults,  \* bound on failed calls and restarts
  Nil         \* no client

VARIABLES
  chain,    \* L2 heights at which preimages begin and end, in order
  view,     \* view[q]: how many of them preimage maker q knows
  client,   \* latest height and heights with a consensus state, or Nil
  pc,       \* pc[r]: what relayer r does next
  latest,   \* latest[r]: the height of the latest finalized header
  trusted,  \* trusted[r]: the client's latest height when it was queried
  list,     \* list[r]: the preimage metadata of the session
  built,    \* built[r][k]: "none", "header" or "error", the result of request k
  got,      \* got[r]: number of results received from the stream
  faults    \* failures so far

session == <<pc, latest, trusted, list, built, got>>
vars == <<chain, view, client, pc, latest, trusted, list, built, got, faults>>

ASSUME RelayAssumption ==
  /\ MaxHeight \in Nat /\ MaxSpan \in Nat \ {0} /\ Window \in Nat \ {0} /\ MaxFaults \in Nat
  /\ Nil \notin [height : 0..MaxHeight, known : SUBSET (0..MaxHeight)]

Heights == 0..MaxHeight
Metadata == [agreed : Heights, claimed : Heights]

\* The preimages a maker that knows n boundaries has, sorted by claimed height.
PreimagesOf(n) == [k \in 1..(n - 1) |-> [agreed |-> chain[k], claimed |-> chain[k + 1]]]

Init ==
  /\ chain = <<0>>
  /\ view = [q \in Replicas |-> 1]
  /\ client = Nil
  /\ pc = [r \in Relayers |-> "idle"]
  /\ latest = [r \in Relayers |-> 0]
  /\ trusted = [r \in Relayers |-> 0]
  /\ list = [r \in Relayers |-> <<>>]
  /\ built = [r \in Relayers |-> <<>>]
  /\ got = [r \in Relayers |-> 0]
  /\ faults = 0

-----------------------------------------------------------------------------
(* The preimage makers (external).                                         *)

\* A preimage is derived that continues from the previous one.
Publish(h) ==
  /\ h <= MaxHeight
  /\ chain' = Append(chain, h)
  /\ UNCHANGED <<view, client, session, faults>>

\* Preimage maker q learns of the next one.
Sync(q) ==
  /\ view[q] < Len(chain)
  /\ view' = [view EXCEPT ![q] = @ + 1]
  /\ UNCHANGED <<chain, client, session, faults>>

-----------------------------------------------------------------------------
\* CreateInitialLightClientState at the latest claimed height of maker q.
CreateAtLatest(q) ==
  /\ client = Nil
  /\ view[q] > 1
  /\ client' = [height |-> chain[view[q]], known |-> {chain[view[q]]}]
  /\ UNCHANGED <<chain, view, session, faults>>

\* CreateInitialLightClientState at a height the operator gives, which need not
\* be one where a preimage begins.
CreateAt(h) ==
  /\ client = Nil
  /\ client' = [height |-> h, known |-> {h}]
  /\ UNCHANGED <<chain, view, session, faults>>

-----------------------------------------------------------------------------
(* A session of relayer r.  Each call may reach any preimage maker: the    *)
(* endpoint selector is shared by the concurrent calls.                    *)

\* GetLatestFinalizedHeader: the claimed block of the latest metadata.
GetLatest(r, q) ==
  /\ pc[r] = "idle"
  /\ client # Nil
  /\ view[q] > 1
  /\ latest' = [latest EXCEPT ![r] = chain[view[q]]]
  /\ pc' = [pc EXCEPT ![r] = "query"]
  /\ UNCHANGED <<chain, view, client, trusted, list, built, got, faults>>

\* Query the client state; nothing to do if it is at the latest height or ahead.
QueryClient(r) ==
  /\ pc[r] = "query"
  /\ trusted' = [trusted EXCEPT ![r] = client.height]
  /\ pc' = [pc EXCEPT ![r] = IF client.height >= latest[r] THEN "idle" ELSE "list"]
  /\ UNCHANGED <<chain, view, client, latest, list, built, got, faults>>

\* The preimages a maker that knows n boundaries has with a claimed height in a
\* range: the maker sorts them by claimed height, so they are next to each other.
Claiming(n, heights) ==
  LET found == {k \in 1..(n - 1) : chain[k + 1] \in heights}
  IN  IF found = {} THEN <<>> ELSE SubSeq(PreimagesOf(n), Min(found), Max(found))

\* Faulty variants of ListPreimageMetadata: gt_claimed taken as "from" (Connected),
\* lt_claimed without the + 1 (CatchesUp).
ListFromTrusted(r, n) == Claiming(n, {h \in Heights : h >= trusted[r] /\ h < latest[r] + 1})
ListBelowLatest(r, n) == Claiming(n, {h \in Heights : h > trusted[r] /\ h < latest[r]})

\* ListPreimageMetadata, from a maker that knows n boundaries.
ListPreimageMetadata(r, n) ==
  Claiming(n, {h \in Heights : h > trusted[r] /\ h < latest[r] + 1})

\* Faulty variant of List: the new stream's counter is not started from zero
\* (TypeOK).
ListKeepsSequence(r, q) ==
  /\ pc[r] = "list"
  /\ list' = [list EXCEPT ![r] = ListPreimageMetadata(r, view[q])]
  /\ built' = [built EXCEPT ![r] = [k \in DOMAIN list'[r] |-> "none"]]
  /\ pc' = [pc EXCEPT ![r] = "stream"]
  /\ UNCHANGED <<chain, view, client, latest, trusted, got, faults>>

\* List the preimages and start the stream.
List(r, q) ==
  /\ pc[r] = "list"
  /\ list' = [list EXCEPT ![r] = ListPreimageMetadata(r, view[q])]
  /\ built' = [built EXCEPT ![r] = [k \in DOMAIN list'[r] |-> "none"]]
  /\ got' = [got EXCEPT ![r] = 0]
  /\ pc' = [pc EXCEPT ![r] = "stream"]
  /\ UNCHANGED <<chain, view, client, latest, trusted, faults>>

\* A worker builds the k-th header: its trusted height is the agreed block's.
\* GetPreimage fails if it reaches a maker that does not have the preimage.
Build(r, k, q) ==
  /\ pc[r] = "stream"
  /\ built[r][k] = "none"
  /\ k <= got[r] + Window
  /\ built' = [built EXCEPT ![r][k] =
                 IF list[r][k].claimed <= chain[view[q]] THEN "header" ELSE "error"]
  /\ UNCHANGED <<chain, view, client, pc, latest, trusted, list, got, faults>>

\* Some other call of the function fails.
BuildFails(r, k) ==
  /\ faults < MaxFaults
  /\ pc[r] = "stream"
  /\ built[r][k] = "none"
  /\ k <= got[r] + Window
  /\ built' = [built EXCEPT ![r][k] = "error"]
  /\ faults' = faults + 1
  /\ UNCHANGED <<chain, view, client, pc, latest, trusted, list, got>>

\* The light client (external) verifies a header from the consensus state at its
\* trusted height and stores one at the claimed height.
Accepts(m) == m.agreed \in client.known
Updated(m) == [height |-> Max({client.height, m.claimed}),
               known  |-> client.known \cup {m.claimed}]

\* The stream delivers its next result.  The relayer submits a header, and ends
\* the session at an error or when the client rejects the header.
Deliver(r) ==
  /\ pc[r] = "stream"
  /\ got[r] < Len(list[r])
  /\ built[r][got[r] + 1] # "none"
  /\ LET m == list[r][got[r] + 1]
     IN  IF built[r][got[r] + 1] = "header" /\ Accepts(m)
         THEN client' = Updated(m) /\ UNCHANGED pc
         ELSE pc' = [pc EXCEPT ![r] = "idle"] /\ UNCHANGED client
  /\ got' = [got EXCEPT ![r] = @ + 1]
  /\ UNCHANGED <<chain, view, latest, trusted, list, built, faults>>

\* The stream closes.
Finish(r) ==
  /\ pc[r] = "stream"
  /\ got[r] = Len(list[r])
  /\ pc' = [pc EXCEPT ![r] = "idle"]
  /\ UNCHANGED <<chain, view, client, latest, trusted, list, built, got, faults>>

\* A call outside the stream fails, a submission is lost or the relayer restarts;
\* the prover keeps nothing between sessions.
Abort(r) ==
  /\ faults < MaxFaults
  /\ pc[r] # "idle"
  /\ pc' = [pc EXCEPT ![r] = "idle"]
  /\ faults' = faults + 1
  /\ UNCHANGED <<chain, view, client, latest, trusted, list, built, got>>

SyncSome == \E q \in Replicas : Sync(q)

Session(r) ==
  \/ \E q \in Replicas : GetLatest(r, q) \/ List(r, q)
  \/ \E k \in DOMAIN list[r], q \in Replicas : Build(r, k, q)
  \/ QueryClient(r) \/ Deliver(r) \/ Finish(r)

Next ==
  \/ \E h \in (Last(chain) + 1)..(Last(chain) + MaxSpan) : Publish(h)
  \/ \E q \in Replicas : Sync(q) \/ CreateAtLatest(q)
  \/ \E h \in 1..Last(chain) : CreateAt(h)
  \/ \E r \in Relayers, q \in Replicas : GetLatest(r, q) \/ List(r, q)
  \/ \E r \in Relayers : QueryClient(r) \/ Deliver(r) \/ Finish(r) \/ Abort(r)
  \/ \E r \in Relayers : \E k \in DOMAIN list[r] :
       BuildFails(r, k) \/ \E q \in Replicas : Build(r, k, q)

\* Relayers go on with their sessions and start new ones, and preimage makers
\* learn of every preimage.
Fairness ==
  /\ WF_vars(SyncSome)
  /\ \A r \in Relayers : WF_vars(Session(r))

Spec == Init /\ [][Next]_vars /\ Fairness

-----------------------------------------------------------------------------
\* The values of every variable.
TypeOK ==
  /\ chain \in Seq(Heights)
  /\ view \in [Replicas -> 1..Len(chain)]
  /\ client \in [height : Heights, known : SUBSET Heights] \cup {Nil}
  /\ pc \in [Relayers -> {"idle", "query", "list", "stream"}]
  /\ latest \in [Relayers -> Heights]
  /\ trusted \in [Relayers -> Heights]
  /\ list \in [Relayers -> Seq(Metadata)]
  /\ built \in [Relayers -> Seq({"none", "header", "error"})]
  /\ got \in [Relayers -> Nat]
  /\ \A r \in Relayers : Len(built[r]) = Len(list[r]) /\ got[r] <= Len(list[r])
  /\ faults \in 0..MaxFaults

Boundaries == ToSet(chain)

\* The client was created where a preimage begins, as it is when no height is given.
Aligned == client # Nil /\ Min(client.known) \in Boundaries

\* What the prover's tests assert of the headers of one session, here while
\* another relayer moves the client, makers lag and calls fail: a header that is
\* next in line has a consensus state on the client to start from.
Connected ==
  Aligned => \A r \in Relayers :
    (pc[r] = "stream" /\ got[r] < Len(list[r])) => list[r][got[r] + 1].agreed \in client.known

\* A height a preimage claims is reached by the client in the end, whatever
\* failures and restarts there were, if the client was created on a boundary.
CatchesUp ==
  \A h \in Heights :
    (h \in Boundaries /\ Aligned) ~> (client # Nil /\ client.height >= h)

\* The client under any number of relayers is the one ClientAdvance describes: each
\* step of its height is one preimage, and while there is a next one it is taken.
Advances == INSTANCE ClientAdvance
              WITH height <- IF client = Nil THEN Nil ELSE client.height

Implements == Advances!Spec
=============================================================================
