---------------------------- MODULE ClientAdvance ----------------------------
(***************************************************************************)
(* What update sessions promise of the client they update, with no word on *)
(* relayers, lists, streams or preimage makers: it moves along the chain   *)
(* of preimages one at a time, from where it was created, skips none,      *)
(* never goes back, and does not stop short of the last one.  A client     *)
(* that was created inside a preimage stays where it is.  Relay is shown   *)
(* to implement this module.                                               *)
(***************************************************************************)
EXTENDS Naturals, SequencesExt

CONSTANTS
  MaxHeight,  \* bound on the L2 heights
  MaxSpan,    \* bound on the L2 blocks one preimage covers
  Nil         \* no client

VARIABLES
  chain,      \* L2 heights at which preimages begin and end, in order
  height      \* the client's latest height, or Nil

vars == <<chain, height>>

Init == chain = <<0>> /\ height = Nil

Publish ==
  /\ \E h \in (Last(chain) + 1)..(Last(chain) + MaxSpan) :
       h <= MaxHeight /\ chain' = Append(chain, h)
  /\ UNCHANGED height

Create ==
  /\ height = Nil
  /\ height' \in 1..Last(chain)
  /\ UNCHANGED chain

\* From the beginning of a preimage to its end.
Advance ==
  /\ \E k \in 1..(Len(chain) - 1) : height = chain[k] /\ height' = chain[k + 1]
  /\ UNCHANGED chain

Next == Publish \/ Create \/ Advance

\* The promise without its liveness.
SafeSpec == Init /\ [][Next]_vars

Spec == SafeSpec /\ WF_vars(Advance)
=============================================================================
