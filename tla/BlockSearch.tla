----------------------------- MODULE BlockSearch -----------------------------
(***************************************************************************)
(* FindL2BlockByTimestamp of tools/misbehaviour/l2/lib.go: from a          *)
(* timestamp to the L2 block of that time, by a guess from the last block  *)
(* time and a walk from there, while the L2 chain grows.                   *)
(***************************************************************************)
EXTENDS Integers

CONSTANTS
  MaxHead,  \* bound on the number of the last L2 block
  MaxGap,   \* bound on the time between two L2 blocks
  MaxSteps  \* blocks looked at before giving up, 1024 in the code

ASSUME BlockSearchAssumption == {MaxHead, MaxGap, MaxSteps} \subseteq Nat \ {0}

VARIABLES
  head,      \* number of the latest L2 block
  time,      \* time[n]: timestamp of block n
  timestamp, \* the argument
  stage,     \* "latest", "previous", "walk", or "found", "missed", "error"
  latest,    \* number of the block read first
  candidate,
  guess,     \* the first candidate
  i          \* the loop index

searchVars == <<head, time, timestamp, stage, latest, candidate, guess, i>>
searchLocals == <<latest, candidate, guess, i>>

SearchInit ==
  /\ head = 0
  /\ time = [n \in {0} |-> 0]
  /\ timestamp \in 0..(MaxHead * MaxGap + 1)
  /\ stage = "latest"
  /\ latest = 0 /\ candidate = 0 /\ guess = 0 /\ i = 0

\* The L2 chain grows, each block later than the one before.
NewBlock ==
  /\ head < MaxHead
  /\ head' = head + 1
  /\ \E gap \in 1..MaxGap :
       time' = [n \in 0..head' |-> IF n <= head THEN time[n] ELSE time[head] + gap]
  /\ UNCHANGED <<timestamp, stage, searchLocals>>

\* Read the latest header; nothing to find if the timestamp is ahead of it.
GetLatest ==
  /\ stage = "latest"
  /\ latest' = head
  /\ stage' = IF time[head] < timestamp THEN "error" ELSE "previous"
  /\ UNCHANGED <<head, time, timestamp, candidate, guess, i>>

\* Faulty variant of BlockTime: always one second (RegularFound).
BlockTimeOne(n) == 1

\* The time of the last block, 1 for the genesis block.
BlockTime(n) == IF n > 0 THEN time[n] - time[n - 1] ELSE 1

\* Read the header before and guess.
Guess ==
  /\ stage = "previous"
  /\ guess' = latest - (time[latest] - timestamp) \div BlockTime(latest)
  /\ candidate' = guess'
  /\ stage' = "walk"
  /\ UNCHANGED <<head, time, timestamp, latest, i>>

\* Faulty variant of Walk: step down by two (NearFound, InChain).
WalkByTwo ==
  /\ stage = "walk" /\ i < MaxSteps /\ candidate \in 0..head
  /\ i' = i + 1
  /\ \/ time[candidate] = timestamp /\ stage' = "found" /\ UNCHANGED candidate
     \/ time[candidate] > timestamp /\ candidate' = candidate - 2 /\ UNCHANGED stage
     \/ time[candidate] < timestamp /\ candidate' = candidate + 1 /\ UNCHANGED stage
  /\ UNCHANGED <<head, time, timestamp, latest, guess>>

\* Faulty variant of Walk: no bound on the loop (SearchTypeOK).
WalkForever ==
  /\ stage = "walk" /\ candidate \in 0..head
  /\ i' = i + 1
  /\ \/ time[candidate] = timestamp /\ stage' = "found" /\ UNCHANGED candidate
     \/ time[candidate] > timestamp /\ candidate' = candidate - 1 /\ UNCHANGED stage
     \/ time[candidate] < timestamp /\ candidate' = candidate + 1 /\ UNCHANGED stage
  /\ UNCHANGED <<head, time, timestamp, latest, guess>>

\* One iteration: read the candidate's header and step towards the timestamp.
Walk ==
  /\ stage = "walk" /\ i < MaxSteps /\ candidate \in 0..head
  /\ i' = i + 1
  /\ \/ time[candidate] = timestamp /\ stage' = "found" /\ UNCHANGED candidate
     \/ time[candidate] > timestamp /\ candidate' = candidate - 1 /\ UNCHANGED stage
     \/ time[candidate] < timestamp /\ candidate' = candidate + 1 /\ UNCHANGED stage
  /\ UNCHANGED <<head, time, timestamp, latest, guess>>

\* Below the genesis block, or after MaxSteps blocks.
GiveUp ==
  /\ stage = "walk" /\ (candidate < 0 \/ i = MaxSteps)
  /\ stage' = "missed"
  /\ UNCHANGED <<head, time, timestamp, searchLocals>>

\* A call fails; asking for a block that does not exist always does.
HeaderFails ==
  /\ \/ stage = "latest"
     \/ stage = "previous" /\ latest > 0
     \/ stage = "walk" /\ candidate >= 0 /\ i < MaxSteps
  /\ stage' = "error"
  /\ UNCHANGED <<head, time, timestamp, searchLocals>>

SearchNext == NewBlock \/ GetLatest \/ Guess \/ Walk \/ GiveUp \/ HeaderFails

SearchSpec == SearchInit /\ [][SearchNext]_searchVars

-----------------------------------------------------------------------------
\* The values of every variable.
SearchTypeOK ==
  /\ head \in 0..MaxHead /\ time \in [0..head -> Nat] /\ latest \in 0..head
  /\ timestamp \in Nat /\ candidate \in Int /\ guess \in Int
  /\ stage \in {"latest", "previous", "walk", "found", "missed", "error"}
  /\ i \in 0..MaxSteps

\* Blocks of the chain read first that the search is for.
Wanted == {n \in 0..latest : time[n] = timestamp}

\* On a chain with a fixed block time the block of a timestamp is found, at the first
\* look.
RegularFound ==
  (\A k \in 1..latest : time[k] - time[k - 1] = time[1] - time[0]) /\ Wanted # {} =>
    stage # "missed" /\ (stage = "found" => i = 1)

\* With uneven block times it is missed only if the guess lies below the genesis block
\* or MaxSteps or more away.
NearFound ==
  stage = "missed" => \A n \in Wanted : guess < 0 \/ guess - n >= MaxSteps \/ n - guess >= MaxSteps

\* No block is asked for above the one read first, so that a block that does not exist
\* yet never ends the search, and the walk never turns unless no block has that time.
InChain ==
  stage = "walk" =>
    /\ candidate <= latest
    /\ Wanted # {} => guess - candidate \in {i, -i}
=============================================================================
