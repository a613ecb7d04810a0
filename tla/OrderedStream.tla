--------------------------- MODULE OrderedStream ---------------------------
(***************************************************************************)
(* What the header stream of the prover promises to the relayer that reads *)
(* it, with no word on goroutines, semaphores or buffers: the requests are *)
(* answered in any order, at most Window of them ahead of the reader, the  *)
(* answers come out in the order of the requests, and the stream closes    *)
(* after the last one.  HeaderChan is shown to implement this module.      *)
(***************************************************************************)
EXTENDS Naturals, Sequences

CONSTANTS
  MaxRequests,  \* bound on the length of the request list
  Window,       \* how many requests may be answered ahead of the reader
  MayAbandon,   \* TRUE iff the reader may stop before the stream ends
  Nil           \* the answer to a request that has not been answered

VARIABLES
  requests,     \* number of requests of this stream
  answer,       \* answer[i]: the answer to request i, or Nil
  delivered,    \* the answers the reader has received
  reader        \* "reading", "stopped" (gave up) or "finished" (saw the end)

vars == <<requests, answer, delivered, reader>>

\* A request is answered with a header or with an error, tagged with the
\* request it belongs to.
AnswersTo(i) == [chunk : {i}, outcome : {"header", "error"}]

Init ==
  /\ requests \in 0..MaxRequests
  /\ answer = [i \in 0..requests-1 |-> Nil]
  /\ delivered = <<>>
  /\ reader = "reading"

Answer(i) ==
  /\ answer[i] = Nil
  /\ i < Len(delivered) + Window
  /\ \E a \in AnswersTo(i) : answer' = [answer EXCEPT ![i] = a]
  /\ UNCHANGED <<requests, delivered, reader>>

AnswerSome == \E i \in 0..requests-1 : Answer(i)

Deliver ==
  /\ reader = "reading"
  /\ Len(delivered) < requests
  /\ answer[Len(delivered)] # Nil
  /\ delivered' = Append(delivered, answer[Len(delivered)])
  /\ UNCHANGED <<requests, answer, reader>>

Finish ==
  /\ reader = "reading"
  /\ Len(delivered) = requests
  /\ reader' = "finished"
  /\ UNCHANGED <<requests, answer, delivered>>

Stop ==
  /\ MayAbandon
  /\ reader = "reading"
  /\ reader' = "stopped"
  /\ UNCHANGED <<requests, answer, delivered>>

Next == AnswerSome \/ Deliver \/ Finish \/ Stop

\* The promise without its liveness.
SafeSpec == Init /\ [][Next]_vars

Fairness == WF_vars(AnswerSome) /\ WF_vars(Deliver) /\ WF_vars(Finish)

Spec == SafeSpec /\ Fairness
=============================================================================
