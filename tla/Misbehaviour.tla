----------------------------- MODULE Misbehaviour -----------------------------
(***************************************************************************)
(* The generators of misbehaviour test data, tools/misbehaviour/l2: past   *)
(* (a faulty L2 history that ends at a game's block) and future (a game    *)
(* newer than the trusted state, with the L1 history down to the game's    *)
(* submission).  Both are one sequence of calls to an L1 and an L2 node    *)
(* that go on growing, to a dispute game factory and to a preimage maker.  *)
(*                                                                         *)
(* L1 and L2 blocks are their numbers.  A game is its type, the L1 block   *)
(* that created it and the L2 block and output it claims.  A header is its *)
(* number, parent hash and coinbase; hashes and output roots do not        *)
(* collide.                                                                *)
(***************************************************************************)
EXTENDS Integers, SequencesExt

CONSTANTS
  GameTypes, \* types of dispute games
  GameType,  \* the one looked for
  MaxL1,     \* bound on L1 block numbers
  MaxL2,     \* bound on L2 block numbers
  MaxGames   \* bound on games

ASSUME MisbehaviourAssumption ==
  /\ GameType \in GameTypes
  /\ MaxL1 \in Nat /\ MaxL2 \in Nat \ {0} /\ MaxGames \in Nat

VARIABLES
  kind,           \* "past" or "future", the tool
  l1Head, l2Head, \* newest blocks of the two chains
  finalized,      \* finalized L1 block the newest preimage was made with
  games,          \* the games of the factory in creation order
  pc,             \* the next step of run, "written" or "failed"
  start, game,    \* index to search from, and of the game found
  l1Header,       \* block of LatestL1Header
  resolvedL2,     \* block the game's timestamp belongs to
  submittedL1,    \* block of the submitted header
  proofs,         \* L1 blocks at which the game was proven, with the answer
  history         \* L1HeaderHistory, or L2HeaderHistory and OutputRoot of both files

world == <<kind, l1Head, l2Head, finalized, games>>
locals == <<start, game, l1Header, resolvedL2, submittedL1, proofs, history>>
vars == <<world, pc, locals>>

Game == [type : GameTypes, created : 1..MaxL1, l2 : 1..MaxL2, honest : BOOLEAN]

-----------------------------------------------------------------------------
(* L2 headers, the past tool's files and how the light client judges them. *)

Canonical(n) == [number |-> n, parent |-> <<n - 1>>, coinbase |-> "feeVault"]
Hash(h) == IF h = Canonical(h.number) THEN <<h.number>> ELSE <<h.number, h.parent, h.coinbase>>

\* State root and message passer storage root are those of the block of that number,
\* also in a header that was changed.
OutputRoot(h) == [stateRoot |-> h.number, storageRoot |-> h.number, blockHash |-> Hash(h)]

\* The header above r, relinked.
Trusted(r) == [Canonical(r.number + 1) EXCEPT !.parent = Hash(r)]

\* Faulty variant of FaultyHistory: the output root is computed before the trusted
\* header is relinked (Verdicts).
FaultyHistoryEarlyOutput(resolved) ==
  LET r == [Canonical(resolved) EXCEPT !.coinbase = "zero"]
  IN  [headers |-> <<Trusted(r), r>>, outputRoot |-> OutputRoot(Canonical(resolved + 1))]

\* createFaultyL2History: the headers, newest first, and the output root the consensus
\* state gets.
FaultyHistory(resolved) ==
  LET r == [Canonical(resolved) EXCEPT !.coinbase = "zero"]
  IN  [headers |-> <<Trusted(r), r>>, outputRoot |-> OutputRoot(Trusted(r))]

\* createHonestL2History.
HonestHistory(resolved) ==
  LET r == Canonical(resolved)
  IN  [headers |-> <<Trusted(r), r>>, outputRoot |-> OutputRoot(Trusted(r))]

\* The light client trusts the consensus state's output root, which must be the one of
\* the history's first header, and compares the last one's with the game's claim.
Verdict(file, g) ==
  LET first == file.headers[1]
      last == file.headers[2]
      linked == file.outputRoot = OutputRoot(first) /\ first.parent = Hash(last)
      claimed == (OutputRoot(last) = OutputRoot(Canonical(g.l2))) = g.honest
  IN  CASE ~linked -> "rejected"
        [] linked /\ ~claimed -> "misbehaviour"
        [] linked /\ claimed -> "agreement"

-----------------------------------------------------------------------------
Init ==
  /\ kind \in {"past", "future"}
  /\ l1Head = 0 /\ l2Head = 1 /\ finalized = 0 /\ games = <<>>
  /\ pc = "count"
  /\ start = 0 /\ game = 0 /\ l1Header = 0 /\ resolvedL2 = 0 /\ submittedL1 = 0
  /\ proofs = {} /\ history = <<>>

\* An L1 block, which may create a game for an L2 block.
NewL1 ==
  /\ l1Head < MaxL1
  /\ l1Head' = l1Head + 1
  /\ \/ UNCHANGED games
     \/ /\ Len(games) < MaxGames
        /\ \E g \in [type : GameTypes, created : {l1Head'}, l2 : 1..l2Head, honest : BOOLEAN] :
             games' = Append(games, g)
  /\ UNCHANGED <<kind, l2Head, finalized, pc, locals>>

NewL2 ==
  /\ l2Head < MaxL2
  /\ l2Head' = l2Head + 1
  /\ UNCHANGED <<kind, l1Head, finalized, games, pc, locals>>

\* A preimage made with a newer finalized L1 block.
NewPreimage(b) ==
  /\ b \in finalized..l1Head
  /\ finalized' = b
  /\ UNCHANGED <<kind, l1Head, l2Head, games, pc, locals>>

\* GameCount; the past tool leaves the newest game out, as it needs an L2 block more.
Count ==
  /\ pc = "count"
  /\ start' = Len(games) - (IF kind = "past" THEN 1 ELSE 0)
  /\ pc' = IF start' < 1 THEN "failed" ELSE "find"
  /\ UNCHANGED <<world, game, l1Header, resolvedL2, submittedL1, proofs, history>>

\* Faulty variant of Find: the result is not looked at (TypeOK).
FindUnchecked ==
  /\ pc = "find"
  /\ game' = Max({0} \cup {k \in 1..start : games[k].type = GameType})
  /\ pc' = "l1"
  /\ UNCHANGED <<world, start, l1Header, resolvedL2, submittedL1, proofs, history>>

\* FindLatestGames from start back, one game of the type.
Find ==
  /\ pc = "find"
  /\ LET found == {k \in 1..start : games[k].type = GameType}
     IN  IF found = {}
         THEN pc' = "failed" /\ UNCHANGED game
         ELSE pc' = "l1" /\ game' = Max(found)
  /\ UNCHANGED <<world, start, l1Header, resolvedL2, submittedL1, proofs, history>>

\* The finalized L1 header of the newest preimage and the light client state for it.
GetL1 ==
  /\ pc = "l1"
  /\ l1Header' = finalized
  /\ pc' = "resolved"
  /\ UNCHANGED <<world, start, game, resolvedL2, submittedL1, proofs, history>>

\* CreateGameProof: the factory's storage at block b either holds the game or not.
ProofAt(b) == [block |-> b, exists |-> games[game].created <= b]

ProveResolved ==
  /\ pc = "resolved"
  /\ proofs' = {ProofAt(l1Header)}
  /\ pc' = "block"
  /\ UNCHANGED <<world, start, game, l1Header, resolvedL2, submittedL1, history>>

\* FindL2BlockByTimestamp; past also needs the block above, future the one below.
ResolveL2 ==
  /\ pc = "block"
  /\ resolvedL2' = games[game].l2
  /\ pc' = CASE kind = "past" -> IF resolvedL2' < l2Head THEN "history" ELSE "failed"
             [] kind = "future" -> "submitted"
  /\ UNCHANGED <<world, start, game, l1Header, submittedL1, proofs, history>>

\* Faulty variant of Submitted: the game's L1 head itself (SealedProof).
SubmittedHead ==
  /\ pc = "submitted"
  /\ submittedL1' = games[game].created - 1
  /\ proofs' = proofs \cup {ProofAt(submittedL1')}
  /\ pc' = "history"
  /\ UNCHANGED <<world, start, game, l1Header, resolvedL2, history>>

\* The game's L1 head is the parent of the block that created it; prove it there.
Submitted ==
  /\ pc = "submitted"
  /\ submittedL1' = (games[game].created - 1) + 1
  /\ proofs' = proofs \cup {ProofAt(submittedL1')}
  /\ pc' = "history"
  /\ UNCHANGED <<world, start, game, l1Header, resolvedL2, history>>

\* Faulty variant of L1History: an empty history is written too (SealedProof).
L1HistoryUnchecked ==
  /\ pc = "history" /\ kind = "future"
  /\ history' = [k \in 1..(l1Header - submittedL1 + 1) |-> l1Header - (k - 1)]
  /\ pc' = "written"
  /\ UNCHANGED <<world, start, game, l1Header, resolvedL2, submittedL1, proofs>>

\* createL1History, from the finalized header down to the submitted one.
L1History ==
  /\ pc = "history" /\ kind = "future"
  /\ history' = [k \in 1..(l1Header - submittedL1 + 1) |-> l1Header - (k - 1)]
  /\ pc' = IF history' = <<>> THEN "failed" ELSE "written"
  /\ UNCHANGED <<world, start, game, l1Header, resolvedL2, submittedL1, proofs>>

\* Faulty variant of L2History: the consensus state of the first file is written with
\* the second one too (Verdicts).
L2HistoryOneState ==
  /\ pc = "history" /\ kind = "past"
  /\ LET faulty == FaultyHistory(resolvedL2)
         honest == HonestHistory(resolvedL2)
     IN  history' = <<faulty, [honest EXCEPT !.outputRoot = faulty.outputRoot]>>
  /\ pc' = "written"
  /\ UNCHANGED <<world, start, game, l1Header, resolvedL2, submittedL1, proofs>>

\* Both histories of the past tool, each with a consensus state of its own.
L2History ==
  /\ pc = "history" /\ kind = "past"
  /\ history' = <<FaultyHistory(resolvedL2), HonestHistory(resolvedL2)>>
  /\ pc' = "written"
  /\ UNCHANGED <<world, start, game, l1Header, resolvedL2, submittedL1, proofs>>

\* A call fails and run returns its error.
CallFails ==
  /\ pc \notin {"written", "failed"}
  /\ pc' = "failed"
  /\ UNCHANGED <<world, locals>>

Next ==
  \/ NewL1 \/ NewL2 \/ \E b \in 0..MaxL1 : NewPreimage(b)
  \/ Count \/ Find \/ GetL1 \/ ProveResolved \/ ResolveL2
  \/ Submitted \/ L1History \/ L2History \/ CallFails

Spec == Init /\ [][Next]_vars

-----------------------------------------------------------------------------
\* The values of every variable.
TypeOK ==
  /\ kind \in {"past", "future"}
  /\ l1Head \in 0..MaxL1 /\ finalized \in 0..l1Head /\ l2Head \in 1..MaxL2
  /\ Len(games) <= MaxGames /\ \A k \in 1..Len(games) : games[k] \in Game
  /\ pc \in {"count", "find", "l1", "resolved", "block", "submitted", "history", "written", "failed"}
  /\ start \in -1..Len(games)
  /\ game \in 0..Len(games)
  /\ game = 0 => pc \in {"count", "find", "failed"}
  /\ {l1Header, submittedL1} \subseteq 0..l1Head /\ resolvedL2 \in 0..l2Head
  /\ proofs \subseteq [block : 0..l1Head, exists : BOOLEAN]

\* What the future tool writes fits together although L1 goes on and the preimage may
\* be older than the game: the game is proven at LatestL1Header and at the submitted
\* header, did not exist before the latter, and the history leads from one to the other.
SealedProof ==
  pc = "written" /\ kind = "future" =>
    /\ \A p \in proofs : p.exists
    /\ {p.block : p \in proofs} = {l1Header, submittedL1}
    /\ ~ProofAt(submittedL1 - 1).exists
    /\ Head(history) = l1Header /\ Last(history) = submittedL1
    /\ \A k \in 1..(Len(history) - 1) : history[k + 1] = history[k] - 1

\* The two files of the past tool are what they are named for, if the game is honest:
\* started from the consensus state written with it, the light client takes either
\* history for connected, and sees misbehaviour in the first and none in the second.
Verdicts ==
  pc = "written" /\ kind = "past" /\ games[game].honest =>
    /\ Verdict(history[1], games[game]) = "misbehaviour"
    /\ Verdict(history[2], games[game]) = "agreement"
=============================================================================
