----------------------------- MODULE HeaderChan -----------------------------
(***************************************************************************)
(* makeHeaderChan of module/prover/prover.go: a dispatcher goroutine       *)
(* starts one worker per request, at most maxHeaderConcurrency of them     *)
(* between the semaphore's acquisition and its release; the workers finish *)
(* in any order; a sequencer goroutine delivers their results through the  *)
(* unbuffered channel "out" in the order of the requests.                  *)
(*                                                                         *)
(* A channel operation is one step; so are a worker's atomic Store and the *)
(* sequencer's atomic Load and Swap.  What a worker computes is abstracted *)
(* to a header or an error tagged with the index of its request.           *)
(***************************************************************************)
EXTENDS Naturals, Sequences, FiniteSets

CONSTANTS
  MaxRequests,            \* bound on the length of the request list
  ConfiguredConcurrency,  \* max_header_concurrency of the configuration
  MayAbandon,             \* TRUE iff the relayer may stop reading early
  Nil                     \* a nil pointer of the buffer

VARIABLES
  requests,   \* len(requests)
  next,       \* the dispatcher's loop index
  sem,        \* number of values in the channel sem
  done,       \* number of values in the channel done
  worker,     \* worker[i]: the goroutine started for request i
  buffer,     \* buffer[i]: the atomic pointer a worker stores its result in
  pc,         \* where the sequencer is
  sequence,   \* the sequencer's counter
  result,     \* the pointer the sequencer loaded last
  delivered,  \* what the relayer has received, in order
  reader      \* the relayer: "reading", "stopped" or "finished"

vars == <<requests, next, sem, done, worker, buffer, pc, sequence, result,
          delivered, reader>>

\* Faulty variant of Cap: the configured value taken as it is (StreamEnds).
CapUnchecked == ConfiguredConcurrency

\* NewProver raises a configured concurrency of 0 to 1.
Cap == IF ConfiguredConcurrency > 1 THEN ConfiguredConcurrency ELSE 1

Chunks == 0..requests-1

ResultsOf(i) == [chunk : {i}, outcome : {"header", "error"}]
Result == [chunk : 0..MaxRequests-1, outcome : {"header", "error"}]

ASSUME HeaderChanAssumption ==
  /\ MaxRequests \in Nat
  /\ ConfiguredConcurrency \in Nat
  /\ MayAbandon \in BOOLEAN
  /\ Nil \notin Result

\* Faulty variant of DoneCap: room for one completion per slot (WorkersExit).
DonePerSlot == Cap

\* The values done can hold without a send blocking.
DoneCap == requests

Init ==
  /\ requests \in 0..MaxRequests
  /\ next = 0
  /\ sem = 0
  /\ done = 0
  /\ worker = [i \in Chunks |-> "idle"]
  /\ buffer = [i \in Chunks |-> Nil]
  /\ pc = "wait"
  /\ sequence = 0
  /\ result = Nil
  /\ delivered = <<>>
  /\ reader = "reading"

-----------------------------------------------------------------------------
(***************************************************************************)
(* Faulty variants, each a mistake this code could plausibly contain.  The *)
(* specification does not use them; substituting one for the definition it *)
(* varies must break the property named beside it.                         *)
(***************************************************************************)

\* Of Dispatch: one request too many (TypeOK).
DispatchPastEnd ==
  /\ next <= requests
  /\ sem < Cap
  /\ sem' = sem + 1
  /\ worker' = [worker EXCEPT ![next] = "running"]
  /\ next' = next + 1
  /\ UNCHANGED <<requests, done, buffer, pc, sequence, result, delivered, reader>>

\* Of Store: a failed fn stores nothing (StreamEnds).
StoreHeaderOnly(i) ==
  /\ worker[i] = "running"
  /\ worker' = [worker EXCEPT ![i] = "stored"]
  /\ \/ UNCHANGED buffer
     \/ buffer' = [buffer EXCEPT ![i] = [chunk |-> i, outcome |-> "header"]]
  /\ UNCHANGED <<requests, next, sem, done, pc, sequence, result, delivered, reader>>

\* Of Signal: the semaphore is released by the worker (HeldWithinWindow).
SignalAndRelease(i) ==
  /\ worker[i] = "stored"
  /\ done < requests
  /\ worker' = [worker EXCEPT ![i] = "exited"]
  /\ done' = done + 1
  /\ sem' = sem - 1
  /\ UNCHANGED <<requests, next, buffer, pc, sequence, result, delivered, reader>>

\* Of Load: deliver whatever is ready (OrderedDelivery, Implements).
LoadAnyReady ==
  /\ pc = "scan"
  /\ sequence < requests
  /\ result' \in {buffer[i] : i \in {j \in Chunks : j >= sequence}}
  /\ pc' = IF result' = Nil THEN "wait" ELSE "send"
  /\ UNCHANGED <<requests, next, sem, done, worker, buffer, sequence, delivered, reader>>

\* Of Release: one delivery per completion, no inner loop (NeverStuck).
ReleaseThenWait ==
  /\ pc = "release"
  /\ sem > 0
  /\ sem' = sem - 1
  /\ pc' = "wait"
  /\ UNCHANGED <<requests, next, done, worker, buffer, sequence, result, delivered, reader>>

-----------------------------------------------------------------------------
\* The dispatcher: acquire the semaphore, start the worker of the next request.
Dispatch ==
  /\ next < requests
  /\ sem < Cap
  /\ sem' = sem + 1
  /\ worker' = [worker EXCEPT ![next] = "running"]
  /\ next' = next + 1
  /\ UNCHANGED <<requests, done, buffer, pc, sequence, result, delivered, reader>>

\* Worker i: fn returns a header or an error, which is stored either way.
Store(i) ==
  /\ worker[i] = "running"
  /\ worker' = [worker EXCEPT ![i] = "stored"]
  /\ \E r \in ResultsOf(i) : buffer' = [buffer EXCEPT ![i] = r]
  /\ UNCHANGED <<requests, next, sem, done, pc, sequence, result, delivered, reader>>

\* Worker i: the deferred send on done, after which the goroutine ends.
Signal(i) ==
  /\ worker[i] = "stored"
  /\ done < DoneCap
  /\ worker' = [worker EXCEPT ![i] = "exited"]
  /\ done' = done + 1
  /\ UNCHANGED <<requests, next, sem, buffer, pc, sequence, result, delivered, reader>>

-----------------------------------------------------------------------------
\* The sequencer: receive one completion.
Wait ==
  /\ pc = "wait"
  /\ sequence < requests
  /\ done > 0
  /\ done' = done - 1
  /\ pc' = "scan"
  /\ UNCHANGED <<requests, next, sem, worker, buffer, sequence, result, delivered, reader>>

\* Load the next result; a nil pointer sends the sequencer back to waiting.
Load ==
  /\ pc = "scan"
  /\ sequence < requests
  /\ result' = buffer[sequence]
  /\ pc' = IF result' = Nil THEN "wait" ELSE "send"
  /\ UNCHANGED <<requests, next, sem, done, worker, buffer, sequence, delivered, reader>>

\* Hand the result to the reader: out is unbuffered, both sides take part.
Deliver ==
  /\ pc = "send"
  /\ reader = "reading"
  /\ delivered' = Append(delivered, result)
  /\ pc' = "retire"
  /\ UNCHANGED <<requests, next, sem, done, worker, buffer, sequence, result, reader>>

\* Drop the buffered result and move to the next request.
Retire ==
  /\ pc = "retire"
  /\ buffer' = [buffer EXCEPT ![sequence] = Nil]
  /\ sequence' = sequence + 1
  /\ pc' = "release"
  /\ UNCHANGED <<requests, next, sem, done, worker, result, delivered, reader>>

\* Let the dispatcher start one more worker.
Release ==
  /\ pc = "release"
  /\ sem > 0
  /\ sem' = sem - 1
  /\ pc' = "scan"
  /\ UNCHANGED <<requests, next, done, worker, buffer, sequence, result, delivered, reader>>

\* Both loops end once every request is delivered; the deferred close runs.
Close ==
  /\ pc \in {"wait", "scan"}
  /\ sequence = requests
  /\ pc' = "closed"
  /\ UNCHANGED <<requests, next, sem, done, worker, buffer, sequence, result, delivered, reader>>

-----------------------------------------------------------------------------
\* The relayer ranges over the stream until it is closed, or gives up early.
Finish ==
  /\ pc = "closed"
  /\ reader = "reading"
  /\ reader' = "finished"
  /\ UNCHANGED <<requests, next, sem, done, worker, buffer, pc, sequence, result, delivered>>

Stop ==
  /\ MayAbandon
  /\ reader = "reading"
  /\ reader' = "stopped"
  /\ UNCHANGED <<requests, next, sem, done, worker, buffer, pc, sequence, result, delivered>>

Complete ==
  /\ pc = "closed"
  /\ reader # "reading"
  /\ \A i \in Chunks : worker[i] = "exited"

\* Nothing is left to do.  Any other state without a step is a deadlock.
Terminated == Complete /\ UNCHANGED vars

Work(i) == Store(i) \/ Signal(i)
Sequencer == Wait \/ Load \/ Deliver \/ Retire \/ Release \/ Close

Next ==
  \/ Dispatch
  \/ \E i \in Chunks : Store(i) \/ Signal(i)
  \/ Wait \/ Load \/ Deliver \/ Retire \/ Release \/ Close
  \/ Finish \/ Stop
  \/ Terminated

(***************************************************************************)
(* Goroutines that can run are run, and fn returns: its requests have      *)
(* client timeouts (util/http.go, l2_rollup.go) or the relayer's context.  *)
(* Deliver belongs to the sequencer: it needs the reader, so its fairness  *)
(* also says that a relayer that has not given up takes the next header.   *)
(***************************************************************************)
Fairness ==
  /\ WF_vars(Dispatch)
  /\ \A i \in 0..MaxRequests-1 : WF_vars(i \in Chunks /\ Work(i))
  /\ WF_vars(Sequencer)
  /\ WF_vars(Finish)

Spec == Init /\ [][Next]_vars /\ Fairness

-----------------------------------------------------------------------------
\* The values of every variable.
TypeOK ==
  /\ requests \in 0..MaxRequests
  /\ next \in 0..requests
  /\ sem \in 0..Cap
  /\ done \in 0..requests
  /\ worker \in [Chunks -> {"idle", "running", "stored", "exited"}]
  /\ buffer \in [Chunks -> Result \cup {Nil}]
  /\ pc \in {"wait", "scan", "send", "retire", "release", "closed"}
  /\ sequence \in 0..requests
  /\ result \in Result \cup {Nil}
  /\ delivered \in Seq(Result)
  /\ reader \in {"reading", "stopped", "finished"}

\* "Always deliver in order from zero": whatever the order in which the workers
\* finish, the k-th delivery is the answer to the k-th request, and the stream
\* ends only after the last one, errors included.
OrderedDelivery ==
  /\ \A k \in 1..Len(delivered) : delivered[k].chunk = k - 1
  /\ reader = "finished" => Len(delivered) = requests

\* Requests a worker is computing, or whose result is kept in memory.
Held == {i \in Chunks : worker[i] = "running" \/ buffer[i] # Nil}

\* "Reset buffer to avoid large memory usage" and "allow next worker to start
\* only when the collect sequence is delivered": however slow the reader is, at
\* most Cap requests are being computed or have a result in the buffer.
HeldWithinWindow == Cardinality(Held) <= Cap

\* The sequencer takes several results for one completion and none for others;
\* still, when it waits for a completion, one is pending, or the goroutine that
\* will produce the next result exists and can finish, or can be started.  And
\* the semaphore it releases is never empty, which would block it forever.
NeverStuck ==
  /\ (pc = "wait" /\ sequence < requests) =>
       \/ done > 0
       \/ worker[sequence] = "running"
       \/ worker[sequence] = "stored" /\ done < DoneCap
       \/ sequence = next /\ sem < Cap
  /\ pc = "release" => sem > 0

\* A worker that was started ends, even if the relayer stops reading: the
\* channel done has room for every completion, so the deferred send returns.
WorkersExit ==
  \A i \in 0..MaxRequests-1 :
    (i \in Chunks /\ worker[i] = "running") ~> (i \in Chunks => worker[i] = "exited")

\* A relayer that keeps reading sees the stream close.
StreamEnds == <>(reader # "reading")

-----------------------------------------------------------------------------
\* The refinement: an answer is the delivered result once there is one, and
\* what the buffer holds before that.
AnswerOf(i) == IF i < Len(delivered) THEN delivered[i + 1] ELSE buffer[i]

Stream == INSTANCE OrderedStream
            WITH Window <- Cap, answer <- [i \in Chunks |-> AnswerOf(i)]

\* The goroutines implement the stream OrderedStream describes.
Implements == Stream!Spec
=============================================================================
