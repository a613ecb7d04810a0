-------------------------- MODULE MisbehaviourProofs --------------------------
(***************************************************************************)
(* Theorems about the misbehaviour tools for L2.  Misbehaviour, for any    *)
(* number of blocks, games and types of games: what the two tools write    *)
(* fits together however far L1, L2 and the preimage maker get between     *)
(* their calls.  BlockSearch, which both tools call, for every chain,      *)
(* every timestamp and every number of steps: what it finds and what it    *)
(* misses.                                                                 *)
(***************************************************************************)
EXTENDS Misbehaviour, BlockSearch, NumberLemmas, SequenceTheorems

-----------------------------------------------------------------------------
(* The inductive invariant.                                                *)

\* A game was created in a block L1 has, for a block L2 has.
GamesKnown ==
  /\ games \in Seq(Game)
  /\ \A k \in 1..Len(games) : games[k].created <= l1Head /\ games[k].l2 <= l2Head

\* The game that was found stays where it is in the list.
Searched == pc \in {"l1", "resolved", "block", "submitted", "history", "written"}
GameChosen == Searched => game \in 1..Len(games)

\* The game was proven at the L1 header, and by the future tool at the block that
\* created it too.
Exists(b) == [block |-> b, exists |-> games[game].created <= b]
ProofsMade ==
  /\ pc \in {"block", "submitted"} => proofs = {Exists(l1Header)}
  /\ pc = "submitted" => kind = "future"
  /\ pc \in {"history", "written"} /\ kind = "future" =>
       /\ submittedL1 = games[game].created
       /\ proofs = {Exists(l1Header), Exists(submittedL1)}
  /\ pc \in {"history", "written"} /\ kind = "past" => resolvedL2 = games[game].l2

\* What is written.
HistoryMade ==
  pc = "written" =>
    \/ /\ kind = "future" /\ submittedL1 <= l1Header
       /\ history = [k \in 1..(l1Header - submittedL1 + 1) |-> l1Header - (k - 1)]
    \/ /\ kind = "past"
       /\ history = <<FaultyHistory(resolvedL2), HonestHistory(resolvedL2)>>

IInv ==
  /\ TypeOK
  /\ GamesKnown
  /\ GameChosen
  /\ ProofsMade
  /\ HistoryMade

-----------------------------------------------------------------------------
(* The steps of the world.                                                 *)

\* The game that was found is a game of the list, of blocks the chains have.
LEMMA GameIn ==
  ASSUME IInv, Searched
  PROVE  /\ game \in 1..Len(games) /\ game # 0 /\ games[game] \in Game
         /\ games[game].created \in 1..l1Head /\ games[game].l2 \in 1..l2Head
         /\ l1Head \in Nat /\ l2Head \in Nat
<1>1. game \in 1..Len(games) /\ games \in Seq(Game)
  BY DEF IInv, GameChosen, GamesKnown
<1>2. games[game] \in Game
  BY <1>1
<1>3. games[game].created \in 1..MaxL1 /\ games[game].l2 \in 1..MaxL2
      /\ games[game].created <= l1Head /\ games[game].l2 <= l2Head
  BY <1>1, <1>2 DEF Game, IInv, GamesKnown
<1>4. l1Head \in Nat /\ l2Head \in Nat
  BY MisbehaviourAssumption DEF IInv, TypeOK
<1>5. QED
  BY <1>1, <1>2, <1>3, <1>4, MisbehaviourAssumption

\* A step of the chains or of the preimage maker keeps the games there are.
LEMMA WorldStep ==
  ASSUME IInv, UNCHANGED <<kind, pc, locals>>, games' \in Seq(Game), Len(games') <= MaxGames,
         Len(games') >= Len(games), \A k \in 1..Len(games) : games'[k] = games[k],
         l1Head' \in 0..MaxL1, l1Head' >= l1Head, l2Head' \in 1..MaxL2, l2Head' >= l2Head,
         finalized' \in 0..l1Head',
         \A k \in 1..Len(games') : games'[k].created <= l1Head' /\ games'[k].l2 <= l2Head'
  PROVE  IInv'
<1> USE DEF IInv
<1>1. /\ UNCHANGED <<kind, pc, start, game, l1Header, resolvedL2, submittedL1, proofs, history>>
      /\ games \in Seq(Game) /\ l1Head \in 0..MaxL1 /\ l2Head \in 1..MaxL2
      /\ Len(games) \in Nat /\ Len(games') \in Nat
  BY DEF locals, TypeOK, GamesKnown
<1>2. TypeOK'
  <2>1. \A k \in 1..Len(games') : games'[k] \in Game
    OBVIOUS
  <2>2. start' \in -1..Len(games') /\ game' \in 0..Len(games')
    BY <1>1 DEF TypeOK
  <2>3. {l1Header, submittedL1}' \subseteq 0..l1Head' /\ resolvedL2' \in 0..l2Head'
    BY <1>1, MisbehaviourAssumption DEF TypeOK
  <2>4. proofs' \subseteq [block : 0..l1Head', exists : BOOLEAN]
    <3>1. 0..l1Head \subseteq 0..l1Head'
      BY <1>1, MisbehaviourAssumption
    <3>2. proofs \subseteq [block : 0..l1Head, exists : BOOLEAN]
      BY DEF TypeOK
    <3>3. QED
      BY <1>1, <3>1, <3>2
  <2>5. QED
    BY <1>1, <2>1, <2>2, <2>3, <2>4 DEF TypeOK
<1>3. GamesKnown'
  BY DEF GamesKnown
<1>4. GameChosen'
  BY <1>1 DEF GameChosen, Searched
<1>5. ProofsMade'
  <2>1. Searched => games'[game] = games[game]
    BY DEF GameChosen
  <2>2. Searched => Exists(l1Header)' = Exists(l1Header) /\ Exists(submittedL1)' = Exists(submittedL1)
    BY <1>1, <2>1 DEF Exists
  <2>3. QED
    BY <1>1, <2>1, <2>2 DEF ProofsMade, Searched
<1>6. HistoryMade'
  BY <1>1 DEF HistoryMade
<1>7. QED
  BY <1>2, <1>3, <1>4, <1>5, <1>6

\* NewL1 keeps the invariant.
LEMMA NewL1Step ==
  ASSUME IInv, NewL1
  PROVE  IInv'
<1> USE DEF IInv
<1>1. /\ l1Head < MaxL1 /\ l1Head' = l1Head + 1 /\ UNCHANGED <<kind, l2Head, finalized, pc, locals>>
      /\ games \in Seq(Game) /\ Len(games) <= MaxGames
      /\ l1Head \in 0..MaxL1 /\ l2Head \in 1..MaxL2 /\ finalized \in 0..l1Head
      /\ \A k \in 1..Len(games) : games[k].created <= l1Head /\ games[k].l2 <= l2Head
      /\ \A k \in 1..Len(games) : games[k] \in Game
      /\ MaxL1 \in Nat /\ MaxL2 \in Nat /\ Len(games) \in Nat
  BY MisbehaviourAssumption DEF NewL1, TypeOK, GamesKnown
<1>2. l1Head' \in 0..MaxL1 /\ l1Head' >= l1Head /\ finalized' \in 0..l1Head'
      /\ l2Head' \in 1..MaxL2 /\ l2Head' >= l2Head /\ UNCHANGED <<kind, pc, locals>>
  BY <1>1
<1>3. \A k \in 1..Len(games) : games[k].created <= l1Head' /\ games[k].l2 <= l2Head'
  BY <1>1 DEF Game
<1>4. CASE UNCHANGED games
  BY <1>1, <1>2, <1>3, <1>4, WorldStep
<1>5. CASE /\ Len(games) < MaxGames
           /\ \E g \in [type : GameTypes, created : {l1Head'}, l2 : 1..l2Head, honest : BOOLEAN] :
                games' = Append(games, g)
  <2>1. PICK g \in [type : GameTypes, created : {l1Head'}, l2 : 1..l2Head, honest : BOOLEAN] :
               games' = Append(games, g)
    BY <1>5
  <2>2. g \in Game /\ g.created <= l1Head' /\ g.l2 <= l2Head'
    BY <1>1, <1>2 DEF Game
  <2>3. /\ games' \in Seq(Game) /\ Len(games') = Len(games) + 1 /\ games'[Len(games) + 1] = g
        /\ \A k \in 1..Len(games) : games'[k] = games[k]
    BY <1>1, <2>1, <2>2, AppendProperties
  <2>4. \A k \in 1..Len(games') : k \in 1..Len(games) \/ k = Len(games) + 1
    BY <1>1, <2>3
  <2>5. \A k \in 1..Len(games') : games'[k].created <= l1Head' /\ games'[k].l2 <= l2Head'
    BY <1>3, <2>2, <2>3, <2>4
  <2>6. Len(games') >= Len(games) /\ Len(games') <= MaxGames
    BY <1>1, <1>5, <2>3, MisbehaviourAssumption
  <2>7. QED
    BY <1>2, <2>3, <2>5, <2>6, WorldStep
<1>6. QED
  BY <1>4, <1>5 DEF NewL1

\* NewL2 keeps the invariant.
LEMMA NewL2Step ==
  ASSUME IInv, NewL2
  PROVE  IInv'
<1> USE DEF IInv
<1>1. /\ l2Head < MaxL2 /\ l2Head' = l2Head + 1 /\ UNCHANGED <<kind, l1Head, finalized, games, pc, locals>>
      /\ games \in Seq(Game) /\ Len(games) <= MaxGames
      /\ l1Head \in 0..MaxL1 /\ l2Head \in 1..MaxL2 /\ finalized \in 0..l1Head
      /\ \A k \in 1..Len(games) : games[k].created <= l1Head /\ games[k].l2 <= l2Head
      /\ \A k \in 1..Len(games) : games[k] \in Game
      /\ MaxL1 \in Nat /\ MaxL2 \in Nat /\ Len(games) \in Nat
  BY MisbehaviourAssumption DEF NewL2, TypeOK, GamesKnown
<1>2. /\ l1Head' \in 0..MaxL1 /\ l1Head' >= l1Head /\ finalized' \in 0..l1Head'
      /\ l2Head' \in 1..MaxL2 /\ l2Head' >= l2Head
  BY <1>1
<1>3. \A k \in 1..Len(games) : games[k].created <= l1Head' /\ games[k].l2 <= l2Head'
  BY <1>1 DEF Game
<1>4. QED
  BY <1>1, <1>2, <1>3, WorldStep

\* NewPreimage keeps the invariant.
LEMMA NewPreimageStep ==
  ASSUME IInv, NEW b, NewPreimage(b)
  PROVE  IInv'
<1> USE DEF IInv
<1>1. /\ b \in finalized..l1Head /\ finalized' = b /\ UNCHANGED <<kind, l1Head, l2Head, games, pc, locals>>
      /\ games \in Seq(Game) /\ Len(games) <= MaxGames
      /\ l1Head \in 0..MaxL1 /\ l2Head \in 1..MaxL2 /\ finalized \in 0..l1Head
      /\ \A k \in 1..Len(games) : games[k].created <= l1Head /\ games[k].l2 <= l2Head
      /\ MaxL1 \in Nat /\ MaxL2 \in Nat /\ Len(games) \in Nat
  BY MisbehaviourAssumption DEF NewPreimage, TypeOK, GamesKnown
<1>2. l1Head' >= l1Head /\ l2Head' >= l2Head /\ finalized' \in 0..l1Head'
  BY <1>1
<1>3. QED
  BY <1>1, <1>2, WorldStep

-----------------------------------------------------------------------------
(* The steps of the tools.                                                 *)

\* They leave the world alone.
LEMMA Frame ==
  ASSUME IInv, UNCHANGED world
  PROVE  /\ GamesKnown' /\ UNCHANGED <<kind, l1Head, l2Head, finalized, games>>
         /\ kind \in {"past", "future"} /\ Len(games) \in Nat
         /\ l1Head \in Nat /\ l2Head \in Nat /\ finalized \in 0..l1Head
  BY MisbehaviourAssumption DEF IInv, GamesKnown, TypeOK, world

\* A step that fails keeps the invariant.
LEMMA FailStep ==
  ASSUME IInv, UNCHANGED world, pc' = "failed", start' \in -1..Len(games),
         UNCHANGED <<game, l1Header, submittedL1, resolvedL2, proofs>>
  PROVE  IInv'
<1>1. TypeOK'
  BY DEF IInv, TypeOK, world
<1>2. GamesKnown'
  BY Frame
<1>3. QED
  BY <1>1, <1>2 DEF IInv, GameChosen, Searched, ProofsMade, HistoryMade

\* Count keeps the invariant.
LEMMA CountStep ==
  ASSUME IInv, Count
  PROVE  IInv'
<1> USE DEF IInv
<1>1. /\ UNCHANGED <<world, game, l1Header, resolvedL2, submittedL1, proofs, history>>
      /\ pc = "count" /\ start' \in -1..Len(games)
      /\ pc' \in {"failed", "find"}
  BY Frame DEF Count, world
<1>2. CASE pc' = "failed"
  BY <1>1, <1>2, FailStep
<1>3. CASE pc' = "find"
  <2>1. TypeOK'
    BY <1>1, <1>3 DEF TypeOK, world
  <2>2. GamesKnown'
    BY <1>1, Frame
  <2>3. QED
    BY <1>3, <2>1, <2>2 DEF GameChosen, Searched, ProofsMade, HistoryMade
<1>4. QED
  BY <1>1, <1>2, <1>3

\* Find keeps the invariant.
LEMMA FindStep ==
  ASSUME IInv, Find
  PROVE  IInv'
<1> USE DEF IInv
<1> DEFINE found == {k \in 1..start : games[k].type = GameType}
<1>1. /\ UNCHANGED <<world, start, l1Header, resolvedL2, submittedL1, proofs, history>>
      /\ pc = "find"
      /\ \/ found = {} /\ pc' = "failed" /\ UNCHANGED game
         \/ found # {} /\ pc' = "l1" /\ game' = Max(found)
  BY DEF Find
<1>2. start \in -1..Len(games) /\ Len(games) \in Nat
  BY <1>1, Frame DEF TypeOK
<1>3. CASE pc' = "failed"
  BY <1>1, <1>2, <1>3, FailStep
<1>4. CASE pc' = "l1"
  <2>1. found \in SUBSET (0..Len(games)) /\ found # {}
    BY <1>1, <1>2, <1>4
  <2>2. Max(found) \in found
    BY <1>2, <2>1, MaxGreatest
  <2>3. game' \in 1..Len(games)
    BY <1>1, <1>2, <1>4, <2>2
  <2>4. TypeOK'
    BY <1>1, <1>4, <2>3 DEF TypeOK, world
  <2>5. GamesKnown' /\ Len(games') = Len(games)
    BY <1>1, Frame
  <2>6. QED
    BY <1>4, <2>3, <2>4, <2>5 DEF GameChosen, Searched, ProofsMade, HistoryMade
<1>5. QED
  BY <1>1, <1>3, <1>4

\* GetL1 keeps the invariant.
LEMMA GetL1Step ==
  ASSUME IInv, GetL1
  PROVE  IInv'
<1> USE DEF IInv
<1>1. /\ UNCHANGED <<world, start, game, resolvedL2, submittedL1, proofs, history>>
      /\ pc = "l1" /\ pc' = "resolved" /\ l1Header' = finalized
  BY DEF GetL1
<1>2. GamesKnown' /\ UNCHANGED <<games, kind, l1Head>> /\ finalized \in 0..l1Head
  BY <1>1, Frame
<1>3. TypeOK'
  BY <1>1, <1>2 DEF TypeOK, world
<1>4. GameChosen'
  BY <1>1, <1>2 DEF GameChosen, Searched
<1>5. QED
  BY <1>1, <1>2, <1>3, <1>4 DEF ProofsMade, HistoryMade

\* ProveResolved keeps the invariant.
LEMMA ProveResolvedStep ==
  ASSUME IInv, ProveResolved
  PROVE  IInv'
<1> USE DEF IInv
<1>1. /\ UNCHANGED <<world, start, game, l1Header, resolvedL2, submittedL1, history>>
      /\ pc = "resolved" /\ pc' = "block" /\ proofs' = {Exists(l1Header)}
  BY DEF ProveResolved, ProofAt, Exists
<1>2. GamesKnown' /\ UNCHANGED <<games, kind, l1Head>>
  BY <1>1, Frame
<1>3. l1Header \in 0..l1Head
  BY DEF TypeOK
<1>4. Exists(l1Header) \in [block : 0..l1Head, exists : BOOLEAN]
  BY <1>3 DEF Exists
<1>5. TypeOK'
  <2>1. proofs' \subseteq [block : 0..l1Head, exists : BOOLEAN]
    BY <1>1, <1>4
  <2>2. QED
    BY <1>1, <2>1 DEF TypeOK, world
<1>6. GameChosen'
  BY <1>1, <1>2 DEF GameChosen, Searched
<1>7. ProofsMade'
  BY <1>1, <1>2 DEF ProofsMade, Exists
<1>8. QED
  BY <1>1, <1>2, <1>5, <1>6, <1>7 DEF HistoryMade

\* ResolveL2 keeps the invariant.
LEMMA ResolveL2Step ==
  ASSUME IInv, ResolveL2
  PROVE  IInv'
<1> USE DEF IInv
<1>1. /\ UNCHANGED <<world, start, game, l1Header, submittedL1, proofs, history>>
      /\ pc = "block" /\ resolvedL2' = games[game].l2
  BY DEF ResolveL2
<1>2. GamesKnown' /\ UNCHANGED <<games, kind, l2Head>> /\ kind \in {"past", "future"}
  BY <1>1, Frame
<1>3. \/ kind = "past" /\ pc' = "history"
      \/ kind = "past" /\ pc' = "failed"
      \/ kind = "future" /\ pc' = "submitted"
  BY <1>2 DEF ResolveL2
<1>4. resolvedL2' \in 0..l2Head
  BY <1>1, GameIn DEF Searched
<1>5. TypeOK'
  BY <1>1, <1>3, <1>4 DEF TypeOK, world
<1>6. GameChosen'
  BY <1>1, <1>2 DEF GameChosen, Searched
<1>7. ProofsMade'
  BY <1>1, <1>2, <1>3 DEF ProofsMade, Exists
<1>8. QED
  BY <1>2, <1>3, <1>5, <1>6, <1>7 DEF HistoryMade

\* Submitted keeps the invariant.
LEMMA SubmittedStep ==
  ASSUME IInv, Submitted
  PROVE  IInv'
<1> USE DEF IInv
<1>1. /\ UNCHANGED <<world, start, game, l1Header, resolvedL2, history>>
      /\ pc = "submitted" /\ pc' = "history"
      /\ submittedL1' = (games[game].created - 1) + 1
      /\ proofs' = proofs \cup {[block |-> submittedL1', exists |-> games[game].created <= submittedL1']}
  BY DEF Submitted, ProofAt
<1>2. GamesKnown' /\ UNCHANGED <<games, kind, l1Head>>
  BY <1>1, Frame
<1>3. games[game].created \in 1..l1Head /\ l1Head \in Nat
  BY <1>1, GameIn DEF Searched
<1>4. submittedL1' = games[game].created /\ submittedL1' \in 0..l1Head
  BY <1>1, <1>3
<1>5. TypeOK'
  <2>1. proofs \subseteq [block : 0..l1Head, exists : BOOLEAN]
    BY DEF TypeOK
  <2> DEFINE e == [block |-> submittedL1', exists |-> games[game].created <= submittedL1']
  <2>e. e \in [block : 0..l1Head, exists : BOOLEAN] /\ proofs' = proofs \cup {e}
    BY <1>1, <1>4
  <2> HIDE DEF e
  <2>2. proofs' \subseteq [block : 0..l1Head, exists : BOOLEAN]
    BY <2>e, <2>1
  <2>3. QED
    BY <1>1, <1>4, <2>2 DEF TypeOK, world
<1>6. GameChosen'
  BY <1>1, <1>2 DEF GameChosen, Searched
<1>7. ProofsMade'
  <2>1. kind = "future" /\ proofs = {Exists(l1Header)}
    BY <1>1 DEF ProofsMade
  <2>2. Exists(l1Header)' = Exists(l1Header)
    BY <1>1, <1>2 DEF Exists
  <2>3. proofs' = {Exists(l1Header)', Exists(submittedL1)'}
    BY <1>1, <1>2, <2>1, <2>2 DEF Exists
  <2>4. QED
    BY <1>1, <1>2, <1>4, <2>1, <2>3 DEF ProofsMade
<1>8. QED
  BY <1>1, <1>2, <1>5, <1>6, <1>7 DEF HistoryMade

\* L1History keeps the invariant.
LEMMA L1HistoryStep ==
  ASSUME IInv, L1History
  PROVE  IInv'
<1> USE DEF IInv
<1> DEFINE n == l1Header - submittedL1 + 1
<1>1. /\ UNCHANGED <<world, start, game, l1Header, resolvedL2, submittedL1, proofs>>
      /\ pc = "history" /\ kind = "future"
      /\ history' = [k \in 1..n |-> l1Header - (k - 1)]
      /\ pc' = IF history' = <<>> THEN "failed" ELSE "written"
  BY DEF L1History
<1>2. GamesKnown' /\ UNCHANGED <<games, kind, l1Head>>
  BY <1>1, Frame
<1>3. l1Header \in Nat /\ submittedL1 \in Nat /\ start \in -1..Len(games)
  BY MisbehaviourAssumption DEF TypeOK
<1>4. CASE pc' = "failed"
  BY <1>1, <1>3, <1>4, FailStep
<1>5. CASE pc' = "written"
  <2>1. submittedL1 <= l1Header
    <3>1. CASE n < 1
      <4>1. 1..n = {}
        BY <1>3, <3>1
      <4>2. history' = <<>>
        BY <1>1, <4>1
      <4>3. QED
        BY <1>1, <1>5, <4>2
    <3>2. QED
      BY <1>3, <3>1
  <2>2. TypeOK'
    BY <1>1, <1>5 DEF TypeOK, world
  <2>3. GameChosen'
    BY <1>1, <1>2, <1>5 DEF GameChosen, Searched
  <2>4. ProofsMade'
    BY <1>1, <1>2, <1>5 DEF ProofsMade, Exists
  <2>5. HistoryMade'
    BY <1>1, <1>2, <2>1 DEF HistoryMade
  <2>6. QED
    BY <1>2, <2>2, <2>3, <2>4, <2>5
<1>6. QED
  BY <1>1, <1>4, <1>5

\* L2History keeps the invariant.
LEMMA L2HistoryStep ==
  ASSUME IInv, L2History
  PROVE  IInv'
<1> USE DEF IInv
<1>1. /\ UNCHANGED <<world, start, game, l1Header, resolvedL2, submittedL1, proofs>>
      /\ pc = "history" /\ kind = "past" /\ pc' = "written"
      /\ history' = <<FaultyHistory(resolvedL2), HonestHistory(resolvedL2)>>
  BY DEF L2History
<1>2. GamesKnown' /\ UNCHANGED <<games, kind, l1Head>>
  BY <1>1, Frame
<1>3. TypeOK'
  BY <1>1 DEF TypeOK, world
<1>4. GameChosen'
  BY <1>1, <1>2 DEF GameChosen, Searched
<1>5. ProofsMade'
  BY <1>1, <1>2 DEF ProofsMade, Exists
<1>6. HistoryMade'
  BY <1>1, <1>2 DEF HistoryMade, FaultyHistory, HonestHistory
<1>7. QED
  BY <1>2, <1>3, <1>4, <1>5, <1>6

\* The invariant holds initially.
LEMMA InitIInv == Init => IInv
<1> SUFFICES ASSUME Init PROVE IInv
  OBVIOUS
<1>1. TypeOK
  BY MisbehaviourAssumption DEF Init, TypeOK
<1>2. GamesKnown /\ GameChosen /\ ProofsMade /\ HistoryMade
  BY DEF Init, GamesKnown, GameChosen, Searched, ProofsMade, HistoryMade
<1>3. QED
  BY <1>1, <1>2 DEF IInv

\* Every step keeps the invariant.
LEMMA NextIInv == IInv /\ [Next]_vars => IInv'
<1> SUFFICES ASSUME IInv, [Next]_vars PROVE IInv'
  OBVIOUS
<1>1. ASSUME CallFails PROVE IInv'
  BY <1>1, FailStep DEF CallFails, locals, IInv, TypeOK
<1>2. ASSUME UNCHANGED vars PROVE IInv'
  BY <1>2 DEF vars, world, locals, IInv, TypeOK, GamesKnown, GameChosen, Searched,
              ProofsMade, Exists, HistoryMade, FaultyHistory, HonestHistory
<1>3. QED
  BY <1>1, <1>2, NewL1Step, NewL2Step, NewPreimageStep, CountStep, FindStep, GetL1Step,
     ProveResolvedStep, ResolveL2Step, SubmittedStep, L1HistoryStep, L2HistoryStep DEF Next

-----------------------------------------------------------------------------
(* What is written.                                                        *)

\* The invariant implies SealedProof.
LEMMA SealedInv == IInv => SealedProof
<1> SUFFICES ASSUME IInv, pc = "written", kind = "future" PROVE SealedProof
  BY DEF SealedProof
<1> DEFINE n == l1Header - submittedL1 + 1
           c == games[game].created
<1>1. /\ submittedL1 = c /\ proofs = {Exists(l1Header), Exists(submittedL1)}
      /\ submittedL1 <= l1Header
      /\ history = [k \in 1..n |-> l1Header - (k - 1)]
  BY DEF IInv, ProofsMade, HistoryMade
<1>2. c \in Nat /\ l1Header \in Nat /\ submittedL1 \in Nat
  <2>1. c \in 1..l1Head /\ l1Head \in Nat
    BY GameIn DEF Searched
  <2>2. {l1Header, submittedL1} \subseteq 0..l1Head
    BY DEF IInv, TypeOK
  <2>3. QED
    BY <2>1, <2>2
<1>3. \A q \in proofs : q.exists
  <2>1. Exists(l1Header).exists /\ Exists(submittedL1).exists
    <3>1. Exists(l1Header).exists = (c <= l1Header) /\ Exists(submittedL1).exists = (c <= submittedL1)
      BY DEF Exists
    <3>2. c <= l1Header /\ c <= submittedL1
      BY <1>1, <1>2
    <3>3. QED
      BY <3>1, <3>2
  <2>2. QED
    BY <1>1, <2>1
<1>4. {q.block : q \in proofs} = {l1Header, submittedL1}
  <2>1. Exists(l1Header).block = l1Header /\ Exists(submittedL1).block = submittedL1
    BY DEF Exists
  <2>2. QED
    BY <1>1, <2>1
<1>5. ~ProofAt(submittedL1 - 1).exists
  <2>1. ProofAt(submittedL1 - 1).exists = (c <= submittedL1 - 1)
    BY DEF ProofAt
  <2>2. ~ c <= submittedL1 - 1
    BY <1>1, <1>2
  <2>3. QED
    BY <2>1, <2>2
<1>6. n \in Nat /\ n >= 1 /\ l1Header - (n - 1) = submittedL1
  BY <1>1, <1>2
<1> HIDE DEF n
<1>7. /\ history \in Seq(Int) /\ Len(history) = n
      /\ \A k \in 1..n : history[k] = l1Header - (k - 1)
  <2>1. history \in [1..n -> Int]
    BY <1>1, <1>2
  <2>2. QED
    BY <1>1, <1>6, <2>1
<1>8. Head(history) = l1Header /\ Last(history) = submittedL1
  <2>1. history[1] = l1Header /\ history[n] = submittedL1
    BY <1>2, <1>6, <1>7
  <2>2. QED
    BY <1>6, <1>7, <2>1 DEF Last
<1>9. \A k \in 1..(Len(history) - 1) : history[k + 1] = history[k] - 1
  <2>1. ASSUME NEW k \in 1..(n - 1) PROVE history[k + 1] = history[k] - 1
    <3>1. k \in 1..n /\ k + 1 \in 1..n
      BY <1>6
    <3>2. history[k] = l1Header - (k - 1) /\ history[k + 1] = l1Header - ((k + 1) - 1)
      BY <1>7, <3>1
    <3>3. QED
      BY <1>2, <3>1, <3>2
  <2>2. QED
    BY <1>7, <2>1
<1>10. QED
  BY <1>3, <1>4, <1>5, <1>8, <1>9 DEF SealedProof

\* The hash of a block of the chain.
LEMMA CanonicalHash ==
  ASSUME NEW n
  PROVE  Hash(Canonical(n)) = <<n>>
<1>1. Canonical(n).number = n
  BY DEF Canonical
<1>2. QED
  BY <1>1 DEF Hash

\* The trusted header names the header below it as its parent.
LEMMA TrustedIsLinked ==
  ASSUME NEW r
  PROVE  Trusted(r).parent = Hash(r)
BY DEF Trusted, Canonical

\* A file made of a header and the one above it is judged by that header's output root.
LEMMA Judged ==
  ASSUME NEW r, NEW g, g.honest = TRUE,
         NEW f, f = [headers |-> <<Trusted(r), r>>, outputRoot |-> OutputRoot(Trusted(r))]
  PROVE  Verdict(f, g) = IF OutputRoot(r) = OutputRoot(Canonical(g.l2))
                         THEN "agreement" ELSE "misbehaviour"
<1>1. f.headers[1] = Trusted(r) /\ f.headers[2] = r /\ f.outputRoot = OutputRoot(Trusted(r))
  OBVIOUS
<1>2. f.outputRoot = OutputRoot(f.headers[1]) /\ f.headers[1].parent = Hash(f.headers[2])
  BY <1>1, TrustedIsLinked
<1>3. CASE OutputRoot(r) = OutputRoot(Canonical(g.l2))
  <2>1. (OutputRoot(f.headers[2]) = OutputRoot(Canonical(g.l2))) = g.honest
    BY <1>1, <1>3
  <2>2. QED
    BY <1>2, <1>3, <2>1 DEF Verdict
<1>4. CASE OutputRoot(r) # OutputRoot(Canonical(g.l2))
  <2>1. ~((OutputRoot(f.headers[2]) = OutputRoot(Canonical(g.l2))) = g.honest)
    BY <1>1, <1>4
  <2>2. QED
    BY <1>2, <1>4, <2>1 DEF Verdict
<1>5. QED
  BY <1>3, <1>4

\* The invariant implies Verdicts.
LEMMA VerdictsInv == IInv => Verdicts
<1> SUFFICES ASSUME IInv, pc = "written", kind = "past", games[game].honest
             PROVE  /\ Verdict(history[1], games[game]) = "misbehaviour"
                    /\ Verdict(history[2], games[game]) = "agreement"
  BY DEF Verdicts
<1> DEFINE b == resolvedL2
           g == games[game]
<1>1. /\ history = <<FaultyHistory(b), HonestHistory(b)>>
      /\ b = g.l2
  BY DEF IInv, HistoryMade, ProofsMade
<1>2. g.honest = TRUE /\ g.l2 \in Int
  BY GameIn DEF Searched, Game
<1> HIDE DEF b, g
<1>3. Verdict(FaultyHistory(b), g) = "misbehaviour"
  <2> DEFINE r == [number |-> b, parent |-> <<b - 1>>, coinbase |-> "zero"]
  <2>1. [Canonical(b) EXCEPT !.coinbase = "zero"] = r
    BY DEF Canonical
  <2>2. FaultyHistory(b) = [headers |-> <<Trusted(r), r>>, outputRoot |-> OutputRoot(Trusted(r))]
    BY <2>1 DEF FaultyHistory
  <2>3. Hash(r) = <<b, <<b - 1>>, "zero">>
    BY DEF Hash, Canonical
  <2>4. OutputRoot(r) # OutputRoot(Canonical(b))
    BY <2>3, CanonicalHash DEF OutputRoot
  <2> HIDE DEF r
  <2>5. QED
    BY <1>1, <1>2, <2>2, <2>4, Judged
<1>4. Verdict(HonestHistory(b), g) = "agreement"
  <2> DEFINE r == Canonical(b)
  <2>1. HonestHistory(b) = [headers |-> <<Trusted(r), r>>, outputRoot |-> OutputRoot(Trusted(r))]
    BY DEF HonestHistory
  <2> HIDE DEF r
  <2>2. OutputRoot(r) = OutputRoot(Canonical(b))
    BY DEF r
  <2>3. QED
    BY <1>1, <1>2, <2>1, <2>2, Judged
<1>5. QED
  BY <1>1, <1>3, <1>4 DEF g

-----------------------------------------------------------------------------
(* The theorems.                                                           *)

\* The invariant holds in every state.
LEMMA Invariance == Spec => []IInv
  BY InitIInv, NextIInv, PTL DEF Spec

\* Every variable keeps to its values: no game is looked at that was not found.
THEOREM TypeCorrect == Spec => []TypeOK
  BY Invariance, PTL DEF IInv

\* What the future tool writes is sealed: the game is proven at both ends of the L1
\* history and not before it, and the history has no gap.
THEOREM Sealed == Spec => []SealedProof
<1>1. IInv => SealedProof
  BY SealedInv
<1>2. QED
  BY Invariance, <1>1, PTL

\* The two files of the past tool are judged as they are named.
THEOREM JudgedAsNamed == Spec => []Verdicts
<1>1. IInv => Verdicts
  BY VerdictsInv
<1>2. QED
  BY Invariance, <1>1, PTL

-----------------------------------------------------------------------------
(* Block search: the inductive invariant.                                 *)

\* Block 0 is of time 0 and no two blocks have the same time.
ChainGrows ==
  /\ time[0] = 0
  /\ \A m, n \in 0..head : m < n => time[m] < time[n]

\* The guess is not above the block read first.
Guessed ==
  /\ stage \in {"previous", "walk"} => timestamp <= time[latest]
  /\ stage \in {"latest", "previous"} => i = 0
  /\ stage = "walk" => guess <= latest /\ candidate <= latest

\* The walk goes straight from the guess to a block of the timestamp and not past it.
Straight ==
  stage = "walk" => \A n \in Wanted :
    /\ guess <= n => candidate = guess + i /\ candidate <= n
    /\ guess > n => candidate = guess - i /\ n <= candidate

\* A chain with one block time.
Regular == \A k \in 1..latest : time[k] - time[k - 1] = time[1] - time[0]

\* There the guess is the block.
Exact ==
  Regular => \A n \in Wanted :
    /\ stage = "walk" => candidate = n /\ i = 0
    /\ stage = "found" => i = 1
    /\ stage # "missed"

SearchInv == SearchTypeOK /\ ChainGrows /\ Guessed /\ Straight /\ Exact /\ NearFound

-----------------------------------------------------------------------------
(* Block search: lemmas about the chain.                                  *)

\* The times of a regular chain are the multiples of its block time.
LEMMA RegularTimes ==
  ASSUME NEW l \in Nat, NEW f, NEW g \in Nat, f[0] = 0,
         \A k \in 0..l : f[k] \in Nat,
         \A k \in 1..l : f[k] - f[k - 1] = g
  PROVE  \A k \in 0..l : f[k] = k * g
<1> DEFINE Bad == {k \in 0..l : f[k] # k * g}
<1>1. SUFFICES ASSUME Bad # {} PROVE FALSE
  OBVIOUS
<1>2. Bad \in SUBSET Nat
  OBVIOUS
<1>3. PICK k \in Bad : \A j \in Bad : k <= j
  BY <1>1, <1>2, LeastExists
<1>4. k \in 0..l /\ f[k] # k * g
  OBVIOUS
<1>5. CASE k = 0
  BY <1>4, <1>5
<1>6. CASE k # 0
  <2>1. k \in 1..l /\ k - 1 \in 0..l
    BY <1>4, <1>6
  <2>2. k - 1 \notin Bad
    BY <1>3, <2>1
  <2>3. f[k - 1] = (k - 1) * g
    BY <2>1, <2>2
  <2>4. f[k] = (k - 1) * g + g
    BY <2>1, <2>3
  <2>5. (k - 1) * g + g = k * g
    BY <2>1
  <2> QED BY <1>4, <2>4, <2>5
<1> QED BY <1>5, <1>6

\* The block time of a growing chain is positive.
LEMMA BlockTimePositive ==
  ASSUME SearchTypeOK, ChainGrows, NEW n \in 0..head
  PROVE  BlockTime(n) \in Nat \ {0}
<1>1. CASE n = 0
  BY <1>1 DEF BlockTime
<1>2. CASE n # 0
  <2>1. n - 1 \in 0..head /\ n - 1 < n /\ n > 0
    BY <1>2 DEF SearchTypeOK
  <2>2. time[n - 1] \in Nat /\ time[n] \in Nat
    BY <2>1 DEF SearchTypeOK
  <2>3. time[n - 1] < time[n]
    BY <2>1 DEF ChainGrows
  <2> QED BY <2>1, <2>2, <2>3 DEF BlockTime
<1> QED BY <1>1, <1>2

\* The time of a block that exists does not change.
LEMMA TimeKept ==
  ASSUME SearchInv, SearchNext
  PROVE  /\ head' \in Nat /\ head <= head'
         /\ \A n \in 0..head : n \in 0..head' /\ time'[n] = time[n]
<1>1. CASE NewBlock
  <2>1. PICK gap \in 1..MaxGap :
          time' = [n \in 0..head' |-> IF n <= head THEN time[n] ELSE time[head] + gap]
    BY <1>1 DEF NewBlock
  <2> QED BY <1>1, <2>1 DEF SearchInv, SearchTypeOK, NewBlock
<1>2. CASE UNCHANGED <<head, time>>
  BY <1>2 DEF SearchInv, SearchTypeOK
<1> QED BY <1>1, <1>2 DEF SearchNext, GetLatest, Guess, Walk, GiveUp, HeaderFails

-----------------------------------------------------------------------------
(* Block search: initially, and in every step.                            *)

\* The invariant holds initially.
LEMMA SearchInitInv ==
  ASSUME SearchInit
  PROVE  SearchInv
<1>1. timestamp \in Nat /\ MaxSteps \in Nat /\ MaxHead \in Nat
  BY BlockSearchAssumption DEF SearchInit
<1>2. SearchTypeOK
  BY <1>1 DEF SearchInit, SearchTypeOK
<1>3. ChainGrows
  BY DEF SearchInit, ChainGrows
<1>4. Guessed /\ Straight /\ Exact /\ NearFound
  BY DEF SearchInit, Guessed, Straight, Exact, NearFound
<1> QED BY <1>2, <1>3, <1>4 DEF SearchInv

\* Every step keeps the types.
LEMMA TypeStep ==
  ASSUME SearchInv, SearchNext
  PROVE  SearchTypeOK'
<1> USE BlockSearchAssumption
<1>1. CASE NewBlock
  <2>1. PICK gap \in 1..MaxGap :
          time' = [n \in 0..head' |-> IF n <= head THEN time[n] ELSE time[head] + gap]
    BY <1>1 DEF NewBlock
  <2>2. time' \in [0..head' -> Nat]
    BY <1>1, <2>1 DEF SearchInv, SearchTypeOK, NewBlock
  <2> QED BY <1>1, <2>2 DEF SearchInv, SearchTypeOK, NewBlock, searchLocals
<1>2. CASE GetLatest
  BY <1>2 DEF SearchInv, SearchTypeOK, GetLatest
<1>3. CASE Guess
  <2>1. latest \in 0..head
    BY DEF SearchInv, SearchTypeOK
  <2>2. BlockTime(latest) \in Nat \ {0}
    BY <2>1, BlockTimePositive DEF SearchInv
  <2>3. time[latest] - timestamp \in Nat
    BY <1>3, <2>1 DEF SearchInv, SearchTypeOK, Guessed, Guess
  <2>4. (time[latest] - timestamp) \div BlockTime(latest) \in Nat
    BY <2>2, <2>3, DivMod
  <2>5. guess' \in Int
    BY <1>3, <2>1, <2>4 DEF Guess, SearchInv, SearchTypeOK
  <2> QED BY <1>3, <2>5 DEF SearchInv, SearchTypeOK, Guess
<1>4. CASE Walk
  BY <1>4 DEF SearchInv, SearchTypeOK, Walk
<1>5. CASE GiveUp
  BY <1>5 DEF SearchInv, SearchTypeOK, GiveUp, searchLocals
<1>6. CASE HeaderFails
  BY <1>6 DEF SearchInv, SearchTypeOK, HeaderFails, searchLocals
<1> QED BY <1>1, <1>2, <1>3, <1>4, <1>5, <1>6 DEF SearchNext

\* Every step keeps the chain in order.
LEMMA ChainStep ==
  ASSUME SearchInv, SearchNext
  PROVE  ChainGrows'
<1>1. CASE NewBlock
  <2>1. PICK gap \in 1..MaxGap :
          time' = [n \in 0..head' |-> IF n <= head THEN time[n] ELSE time[head] + gap]
    BY <1>1 DEF NewBlock
  <2>2. head \in Nat /\ gap \in Nat \ {0} /\ head' = head + 1
    BY <1>1, BlockSearchAssumption DEF SearchInv, SearchTypeOK, NewBlock
  <2>3. \A n \in 0..head : time[n] \in Nat
    BY DEF SearchInv, SearchTypeOK
  <2>4. ASSUME NEW m \in 0..head', NEW n \in 0..head', m < n
        PROVE  time'[m] < time'[n]
    <3>1. m \in 0..head /\ time'[m] = time[m]
      BY <2>1, <2>2, <2>4
    <3>2. CASE n <= head
      BY <2>1, <2>2, <2>4, <3>1, <3>2 DEF SearchInv, ChainGrows
    <3>3. CASE n = head + 1
      <4>1. time'[n] = time[head] + gap
        BY <2>1, <2>2, <3>3
      <4>2. m = head \/ time[m] < time[head]
        BY <2>2, <3>1 DEF SearchInv, ChainGrows
      <4> QED BY <2>2, <2>3, <3>1, <4>1, <4>2
    <3> QED BY <2>2, <3>2, <3>3
  <2>5. time'[0] = 0
    BY <2>1, <2>2 DEF SearchInv, ChainGrows
  <2> QED BY <2>4, <2>5 DEF ChainGrows
<1>2. CASE UNCHANGED <<head, time>>
  BY <1>2 DEF SearchInv, ChainGrows
<1> QED BY <1>1, <1>2 DEF SearchNext, GetLatest, Guess, Walk, GiveUp, HeaderFails

\* The blocks the search is for are still those, once the first block is read.
LEMMA WantedKept ==
  ASSUME SearchInv, SearchNext, UNCHANGED <<latest, timestamp>>
  PROVE  Wanted' = Wanted /\ (Regular' <=> Regular) /\ time'[latest] = time[latest]
<1>1. latest \in 0..head /\ head \in Nat
  BY DEF SearchInv, SearchTypeOK
<1>2. \A n \in 0..latest : time'[n] = time[n]
  BY <1>1, TimeKept
<1>3. Wanted' = Wanted
  BY <1>2 DEF Wanted
<1>4. ASSUME NEW k \in 1..latest
      PROVE  /\ time'[k] = time[k] /\ time'[k - 1] = time[k - 1]
             /\ time'[1] = time[1] /\ time'[0] = time[0]
  BY <1>1, <1>2
<1>5. Regular' <=> Regular
  BY <1>4 DEF Regular
<1> QED BY <1>1, <1>2, <1>3, <1>5

\* NewBlock keeps the invariant.
LEMMA NewBlockStep ==
  ASSUME SearchInv, NewBlock
  PROVE  Guessed' /\ Straight' /\ Exact' /\ NearFound'
<1>1. UNCHANGED <<timestamp, stage, latest, candidate, guess, i>> /\ SearchNext
  BY DEF NewBlock, searchLocals, SearchNext
<1>2. Wanted' = Wanted /\ (Regular' <=> Regular) /\ time'[latest] = time[latest]
  BY <1>1, WantedKept
<1>3. Guessed'
  BY <1>1, <1>2 DEF SearchInv, Guessed
<1>4. Straight'
  BY <1>1, <1>2 DEF SearchInv, Straight
<1>5. Exact'
  BY <1>1, <1>2 DEF SearchInv, Exact
<1>6. NearFound'
  BY <1>1, <1>2 DEF SearchInv, NearFound
<1> QED BY <1>3, <1>4, <1>5, <1>6

\* GetLatest keeps the invariant.
LEMMA GetLatestStep ==
  ASSUME SearchInv, GetLatest
  PROVE  Guessed' /\ Straight' /\ Exact' /\ NearFound'
<1>1. head \in 0..head /\ time[head] \in Nat /\ timestamp \in Nat
  BY DEF SearchInv, SearchTypeOK
<1>2. Guessed'
  BY <1>1 DEF SearchInv, Guessed, GetLatest
<1>3. stage' \in {"error", "previous"}
  BY DEF GetLatest
<1> QED BY <1>2, <1>3 DEF Straight, Exact, NearFound

\* On a regular chain the quotient is the distance to the block.
LEMMA GuessIsExact ==
  ASSUME SearchInv, Guess, Regular, NEW n \in Wanted
  PROVE  guess' = n
<1>1. latest \in 0..head /\ latest \in Nat /\ n \in 0..latest /\ time[n] = timestamp
  BY DEF SearchInv, SearchTypeOK, Wanted
<1>2. BlockTime(latest) \in Nat \ {0}
  BY <1>1, BlockTimePositive DEF SearchInv
<1>3. CASE latest = 0
  <2>1. n = 0 /\ time[latest] - timestamp = 0
    BY <1>1, <1>3 DEF SearchInv, ChainGrows
  <2>2. BlockTime(latest) = 1
    BY <1>3 DEF BlockTime
  <2> QED BY <1>3, <2>1, <2>2 DEF Guess
<1>4. CASE latest # 0
  <2> DEFINE g == BlockTime(latest)
  <2>1. latest \in 1..latest /\ 1 \in 1..latest
    BY <1>1, <1>4
  <2>2. g = time[latest] - time[latest - 1]
    BY <1>1, <1>4 DEF BlockTime
  <2>3. \A k \in 1..latest : time[k] - time[k - 1] = g
    BY <2>1, <2>2 DEF Regular
  <2>4. \A k \in 0..latest : time[k] \in Nat
    BY <1>1 DEF SearchInv, SearchTypeOK
  <2>5. g \in Nat /\ g \in Nat \ {0}
    BY <1>2
  <2>6. time[0] = 0
    BY DEF SearchInv, ChainGrows
  <2> HIDE DEF g
  <2>7. \A k \in 0..latest : time[k] = k * g
    BY <1>1, <2>3, <2>4, <2>5, <2>6, RegularTimes
  <2>8. time[latest] = latest * g /\ timestamp = n * g
    BY <1>1, <2>7
  <2> DEFINE q == latest - n
  <2>9. q \in Nat
    BY <1>1
  <2>10. latest * g - n * g = q * g
    BY <1>1, <2>5
  <2> HIDE DEF q
  <2>11. q * g \in Nat /\ q * g <= q * g /\ q * g < q * g + g
    BY <2>5, <2>9, ProductNat
  <2>12. (q * g) \div g = q
    BY <2>5, <2>9, <2>11, QuotientIs
  <2>13. guess' = latest - (time[latest] - timestamp) \div g
    BY DEF Guess, g
  <2>14. guess' = latest - q
    BY <2>8, <2>10, <2>12, <2>13
  <2> QED BY <1>1, <2>14 DEF q
<1> QED BY <1>3, <1>4

\* Guess keeps the invariant.
LEMMA GuessStep ==
  ASSUME SearchInv, Guess
  PROVE  Guessed' /\ Straight' /\ Exact' /\ NearFound'
<1>1. latest \in 0..head /\ latest \in Nat /\ timestamp <= time[latest] /\ i = 0
  BY DEF SearchInv, SearchTypeOK, Guessed, Guess
<1>2. time[latest] - timestamp \in Nat
  BY <1>1 DEF SearchInv, SearchTypeOK
<1>3. BlockTime(latest) \in Nat \ {0}
  BY <1>1, BlockTimePositive DEF SearchInv
<1>4. (time[latest] - timestamp) \div BlockTime(latest) \in Nat
  BY <1>2, <1>3, DivMod
<1>5. guess' <= latest /\ guess' \in Int
  BY <1>1, <1>4 DEF Guess
<1>6. stage' = "walk" /\ candidate' = guess' /\ UNCHANGED <<head, time, timestamp, latest, i>>
  BY DEF Guess
<1>7. SearchNext
  BY DEF SearchNext
<1>8. Wanted' = Wanted /\ (Regular' <=> Regular)
  BY <1>6, <1>7, WantedKept
<1>9. Guessed'
  BY <1>1, <1>5, <1>6 DEF Guessed
<1>10. Straight'
  <2>1. \A s, n \in Int : s + i = s /\ s - i = s /\ (s > n => n <= s)
    BY <1>1
  <2>2. SUFFICES ASSUME NEW n \in Wanted
                 PROVE  /\ guess' <= n => candidate' = guess' + i /\ candidate' <= n
                        /\ guess' > n => candidate' = guess' - i /\ n <= candidate'
    BY <1>6, <1>8 DEF Straight
  <2>3. n \in Int
    BY <1>1 DEF Wanted
  <2> QED BY <1>5, <1>6, <2>1, <2>3
<1>11. Exact'
  BY <1>1, <1>6, <1>8, GuessIsExact DEF Exact
<1>12. NearFound'
  BY <1>6 DEF NearFound
<1> QED BY <1>9, <1>10, <1>11, <1>12

\* One step of the walk, next to a block of the timestamp.
LEMMA WalkTowards ==
  ASSUME SearchInv, Walk, NEW n \in Wanted
  PROVE  /\ candidate = n => stage' = "found" /\ candidate' = candidate
         /\ candidate < n => stage' = stage /\ candidate' = candidate + 1
         /\ candidate > n => stage' = stage /\ candidate' = candidate - 1
<1>1. n \in 0..head /\ candidate \in 0..head /\ time[n] = timestamp
  BY DEF SearchInv, SearchTypeOK, Wanted, Walk
<1>2. time[n] \in Nat /\ time[candidate] \in Nat
  BY <1>1 DEF SearchInv, SearchTypeOK
<1>3. /\ candidate < n => time[candidate] < timestamp
      /\ candidate > n => time[candidate] > timestamp
  BY <1>1, <1>2 DEF SearchInv, ChainGrows
<1> QED BY <1>1, <1>2, <1>3 DEF Walk

\* Walk keeps the invariant.
LEMMA WalkStep ==
  ASSUME SearchInv, Walk
  PROVE  Guessed' /\ Straight' /\ Exact' /\ NearFound'
<1>1. UNCHANGED <<head, time, timestamp, latest, guess>> /\ SearchNext
  BY DEF Walk, SearchNext
<1>2. Wanted' = Wanted /\ (Regular' <=> Regular)
  BY <1>1, WantedKept
<1>3. /\ latest \in 0..head /\ head \in Nat /\ i \in Nat /\ i' = i + 1 /\ stage = "walk"
      /\ candidate \in 0..head /\ candidate <= latest /\ guess \in Int
      /\ guess <= latest /\ timestamp <= time[latest]
  BY BlockSearchAssumption DEF SearchInv, SearchTypeOK, Guessed, Walk
<1>4. stage' \in {"walk", "found"}
  BY <1>3 DEF Walk
<1>5. Guessed'
  <2>1. time[candidate] \in Nat /\ timestamp \in Nat /\ time[latest] \in Nat
    BY <1>3 DEF SearchInv, SearchTypeOK
  <2>2. candidate = latest => ~(time[candidate] < timestamp)
    BY <1>3, <2>1
  <2>3. candidate' <= latest
    BY <1>3, <2>1, <2>2 DEF Walk
  <2> QED BY <1>1, <1>3, <1>4, <2>3 DEF Guessed
<1>6. Straight'
  <2>1. SUFFICES ASSUME stage' = "walk", NEW n \in Wanted
                 PROVE  /\ guess <= n => candidate' = guess + i' /\ candidate' <= n
                        /\ guess > n => candidate' = guess - i' /\ n <= candidate'
    BY <1>1, <1>2 DEF Straight
  <2>2. n \in Int
    BY <1>3 DEF Wanted
  <2>3. /\ guess <= n => candidate = guess + i /\ candidate <= n
        /\ guess > n => candidate = guess - i /\ n <= candidate
    BY <1>3 DEF SearchInv, Straight
  <2>4. /\ candidate # n
        /\ candidate < n => candidate' = candidate + 1
        /\ candidate > n => candidate' = candidate - 1
    BY <2>1, WalkTowards
  <2> QED BY <1>3, <2>2, <2>3, <2>4
<1>7. Exact'
  <2>1. SUFFICES ASSUME Regular, NEW n \in Wanted
                 PROVE  /\ stage' = "walk" => candidate' = n /\ i' = 0
                        /\ stage' = "found" => i' = 1
                        /\ stage' # "missed"
    BY <1>2 DEF Exact
  <2>2. candidate = n /\ i = 0
    BY <1>3, <2>1 DEF SearchInv, Exact
  <2>3. stage' = "found"
    BY <2>2, WalkTowards
  <2> QED BY <1>3, <2>2, <2>3
<1>8. NearFound'
  BY <1>4 DEF NearFound
<1> QED BY <1>5, <1>6, <1>7, <1>8

\* GiveUp keeps the invariant.
LEMMA GiveUpStep ==
  ASSUME SearchInv, GiveUp
  PROVE  Guessed' /\ Straight' /\ Exact' /\ NearFound'
<1>1. /\ stage = "walk" /\ stage' = "missed" /\ (candidate < 0 \/ i = MaxSteps)
      /\ UNCHANGED <<head, time, timestamp, latest, candidate, guess, i>> /\ SearchNext
  BY DEF GiveUp, searchLocals, SearchNext
<1>2. Wanted' = Wanted /\ (Regular' <=> Regular)
  BY <1>1, WantedKept
<1>3. /\ latest \in Nat /\ candidate \in Int /\ guess \in Int /\ i \in Nat
      /\ MaxSteps \in Nat \ {0}
      /\ \A n \in Wanted : n \in Nat
  BY BlockSearchAssumption DEF SearchInv, SearchTypeOK, Wanted
<1>4. Guessed' /\ Straight'
  BY <1>1 DEF Guessed, Straight
<1>5. Exact'
  <2>1. SUFFICES ASSUME Regular, NEW n \in Wanted PROVE FALSE
    BY <1>2 DEF Exact
  <2>2. candidate = n /\ i = 0
    BY <1>1, <2>1 DEF SearchInv, Exact
  <2> QED BY <1>1, <1>3, <2>2
<1>6. NearFound'
  <2>1. SUFFICES ASSUME NEW n \in Wanted
                 PROVE  guess < 0 \/ guess - n >= MaxSteps \/ n - guess >= MaxSteps
    BY <1>1, <1>2 DEF NearFound
  <2>2. /\ guess <= n => candidate = guess + i /\ candidate <= n
        /\ guess > n => candidate = guess - i /\ n <= candidate
    BY <1>1 DEF SearchInv, Straight
  <2> QED BY <1>1, <1>3, <2>2
<1> QED BY <1>4, <1>5, <1>6

\* HeaderFails keeps the invariant.
LEMMA HeaderFailsStep ==
  ASSUME SearchInv, HeaderFails
  PROVE  Guessed' /\ Straight' /\ Exact' /\ NearFound'
<1>1. stage' = "error"
  BY DEF HeaderFails
<1> QED BY <1>1 DEF Guessed, Straight, Exact, NearFound

\* The invariant holds in every state.
LEMMA SearchInvariance == SearchSpec => []SearchInv
<1>1. ASSUME SearchInv, SearchNext PROVE SearchInv'
  <2>1. Guessed' /\ Straight' /\ Exact' /\ NearFound'
    BY <1>1, NewBlockStep, GetLatestStep, GuessStep, WalkStep, GiveUpStep, HeaderFailsStep
       DEF SearchNext
  <2>2. SearchTypeOK' /\ ChainGrows'
    BY <1>1, TypeStep, ChainStep
  <2> QED BY <2>1, <2>2 DEF SearchInv
<1>2. ASSUME SearchInv, UNCHANGED searchVars PROVE SearchInv'
  <2> USE <1>2 DEF searchVars, searchLocals
  <2>1. SearchTypeOK' /\ ChainGrows' /\ Guessed'
    BY DEF SearchInv, SearchTypeOK, ChainGrows, Guessed
  <2>2. Wanted' = Wanted /\ (Regular' <=> Regular)
    BY DEF Wanted, Regular
  <2>3. Straight' /\ Exact' /\ NearFound'
    BY <2>2 DEF SearchInv, Straight, Exact, NearFound
  <2> QED BY <2>1, <2>3 DEF SearchInv
<1> QED BY SearchInitInv, <1>1, <1>2, PTL DEF SearchSpec

-----------------------------------------------------------------------------
(* Block search: the theorems.                                            *)

\* Every variable keeps its type, the loop index its bound: FindL2BlockByTimestamp looks
\* at no more than MaxSteps blocks.
THEOREM SearchTypeCorrect == SearchSpec => []SearchTypeOK
<1>1. SearchInv => SearchTypeOK
  BY DEF SearchInv
<1> QED BY SearchInvariance, <1>1, PTL

\* On a chain with a fixed block time, however long, FindL2BlockByTimestamp finds the
\* block of a timestamp with the first header it reads after its guess.
THEOREM FoundAtOnce == SearchSpec => []RegularFound
<1>1. SearchInv => RegularFound
  BY DEF SearchInv, Exact, Regular, RegularFound
<1> QED BY SearchInvariance, <1>1, PTL

\* On any other chain it misses a block only if its guess is below the genesis block or
\* too many blocks away.
THEOREM FoundIfNear == SearchSpec => []NearFound
<1>1. SearchInv => NearFound
  BY DEF SearchInv
<1> QED BY SearchInvariance, <1>1, PTL

\* Its walk never leaves the part of the chain that existed when it began, and goes in one
\* direction to the block, if there is one.
THEOREM StaysInChain == SearchSpec => []InChain
<1>1. ASSUME SearchInv PROVE InChain
  <2>1. SUFFICES ASSUME stage = "walk"
                 PROVE candidate <= latest /\ (Wanted # {} => guess - candidate \in {i, -i})
    BY DEF InChain
  <2>2. ASSUME NEW n \in Wanted PROVE guess - candidate \in {i, -i}
    <3>1. /\ guess <= n => candidate = guess + i
          /\ guess > n => candidate = guess - i
      BY <1>1, <2>1 DEF SearchInv, Straight
    <3>2. n \in Int /\ guess \in Int /\ candidate \in Int /\ i \in Int
      BY <1>1 DEF SearchInv, SearchTypeOK, Wanted
    <3> QED BY <3>1, <3>2
  <2> QED BY <1>1, <2>1, <2>2 DEF SearchInv, Guessed
<1> QED BY SearchInvariance, <1>1, PTL
=============================================================================
