--------------------------- MODULE HeaderChanProofs ---------------------------
(***************************************************************************)
(* Theorems about HeaderChan, for every number of requests and every       *)
(* configured concurrency: the inductive invariant IInv, the safety        *)
(* properties that follow from it, and the safety part of the refinement   *)
(* of OrderedStream.                                                       *)
(***************************************************************************)
EXTENDS HeaderChan, FiniteSetTheorems, TLAPS

-----------------------------------------------------------------------------
(* The inductive invariant, one part per relation between the goroutines.  *)

\* The semaphore counts the requests started and not yet released.
SemCounts ==
  /\ sequence <= next
  /\ sem = IF pc = "release" THEN next - sequence + 1 ELSE next - sequence

\* Workers exist for the requests below next; those below sequence are over.
WorkersStarted ==
  \A i \in Chunks : /\ worker[i] = "idle" <=> i >= next
                    /\ i < sequence => worker[i] \in {"stored", "exited"}

\* The buffer holds the results that are stored and not yet retired.
BufferHolds ==
  \A i \in Chunks :
    /\ buffer[i] # Nil <=> (i >= sequence /\ worker[i] \in {"stored", "exited"})
    /\ buffer[i] # Nil => buffer[i].chunk = i

\* The result being delivered is the one at sequence.
ResultInHand ==
  pc \in {"send", "retire"} =>
    sequence < requests /\ result = buffer[sequence] /\ result # Nil

\* The reader has everything below sequence, and the result being retired.
DeliveredSoFar ==
  /\ Len(delivered) = IF pc = "retire" THEN sequence + 1 ELSE sequence
  /\ \A k \in 1..Len(delivered) : delivered[k].chunk = k - 1

\* The stream is closed at the end only, and seen closed only then.
ClosedAtEnd ==
  /\ pc = "closed" => sequence = requests
  /\ reader = "finished" => pc = "closed"

\* A worker that has ended with its result next in line left a completion.
NoLostWakeup ==
  (pc = "wait" /\ sequence < requests /\ worker[sequence] = "exited") => done > 0

\* Completions pending come from distinct workers that have ended.
Exited == {i \in Chunks : worker[i] = "exited"}
DoneCounts == done <= Cardinality(Exited)

IInv ==
  /\ TypeOK
  /\ SemCounts
  /\ WorkersStarted
  /\ BufferHolds
  /\ ResultInHand
  /\ DeliveredSoFar
  /\ ClosedAtEnd
  /\ NoLostWakeup
  /\ DoneCounts

-----------------------------------------------------------------------------
(* Lemmas.                                                                 *)

\* There is at least one slot.
LEMMA CapPositive == Cap \in Nat \ {0}
  BY HeaderChanAssumption DEF Cap

\* A result is not nil and knows its request.
LEMMA ResultsInResult ==
  ASSUME requests \in 0..MaxRequests, NEW i \in Chunks, NEW r \in ResultsOf(i)
  PROVE  r \in Result /\ r # Nil /\ r.chunk = i
  BY HeaderChanAssumption DEF Chunks, ResultsOf, Result

\* There are as many chunks as requests.
LEMMA ChunksFinite ==
  ASSUME requests \in Nat
  PROVE  IsFiniteSet(Chunks) /\ Cardinality(Chunks) = requests
  BY FS_Interval DEF Chunks

\* The workers that have ended are a finite number.
LEMMA ExitedFinite ==
  ASSUME TypeOK
  PROVE  IsFiniteSet(Exited) /\ Cardinality(Exited) \in 0..requests
<1>1. requests \in Nat /\ Exited \subseteq Chunks
  BY HeaderChanAssumption DEF TypeOK, Exited
<1>2. QED
  BY <1>1, ChunksFinite, FS_Subset, FS_CardinalityType

\* The initial states satisfy the invariant.
LEMMA InitIInv == Init => IInv
<1> SUFFICES ASSUME Init PROVE IInv
  OBVIOUS
<1> USE HeaderChanAssumption, CapPositive DEF Init, Chunks
<1>1. TypeOK
  BY DEF TypeOK
<1>2. DoneCounts
  <2>1. Exited = {}
    BY DEF Exited
  <2>2. QED
    BY <2>1, FS_EmptySet DEF DoneCounts
<1>3. SemCounts /\ WorkersStarted /\ BufferHolds /\ ResultInHand
  BY DEF SemCounts, WorkersStarted, BufferHolds, ResultInHand
<1>4. DeliveredSoFar /\ ClosedAtEnd /\ NoLostWakeup
  BY DEF DeliveredSoFar, ClosedAtEnd, NoLostWakeup
<1>5. QED
  BY <1>1, <1>2, <1>3, <1>4 DEF IInv

\* Every step keeps it.
LEMMA NextIInv == IInv /\ [Next]_vars => IInv'
<1> SUFFICES ASSUME IInv, [Next]_vars PROVE IInv'
  OBVIOUS
<1> USE HeaderChanAssumption, CapPositive DEF IInv
<1>1. CASE Dispatch
  <2> USE <1>1 DEF Dispatch, Chunks
  <2>1. TypeOK'
    BY DEF TypeOK
  <2>2. SemCounts'
    BY DEF TypeOK, SemCounts
  <2>3. WorkersStarted'
    BY DEF TypeOK, WorkersStarted
  <2>4. BufferHolds'
    BY DEF TypeOK, BufferHolds, WorkersStarted
  <2>5. ResultInHand'
    BY DEF TypeOK, ResultInHand
  <2>6. DeliveredSoFar'
    BY DEF TypeOK, DeliveredSoFar
  <2>7. ClosedAtEnd'
    BY DEF TypeOK, ClosedAtEnd
  <2>8. NoLostWakeup'
    BY DEF TypeOK, NoLostWakeup
  <2>9. DoneCounts'
    BY DEF TypeOK, DoneCounts, Exited
  <2> QED
    BY <2>1, <2>2, <2>3, <2>4, <2>5, <2>6, <2>7, <2>8, <2>9
<1>2. ASSUME NEW i \in Chunks, Store(i) PROVE IInv'
  <2> USE <1>2 DEF Store, Chunks
  <2>r. PICK r \in ResultsOf(i) : buffer' = [buffer EXCEPT ![i] = r]
    OBVIOUS
  <2>1. TypeOK'
    BY <2>r, ResultsInResult DEF TypeOK
  <2>2. SemCounts'
    BY DEF TypeOK, SemCounts
  <2>3. WorkersStarted'
    BY DEF TypeOK, WorkersStarted
  <2>4. BufferHolds'
    BY <2>r, ResultsInResult DEF TypeOK, BufferHolds, WorkersStarted
  <2>5. ResultInHand'
    BY <2>r DEF TypeOK, ResultInHand, BufferHolds
  <2>6. DeliveredSoFar'
    BY DEF TypeOK, DeliveredSoFar
  <2>7. ClosedAtEnd'
    BY DEF TypeOK, ClosedAtEnd
  <2>8. NoLostWakeup'
    BY DEF TypeOK, NoLostWakeup
  <2>9. DoneCounts'
    BY DEF TypeOK, DoneCounts, Exited
  <2> QED
    BY <2>1, <2>2, <2>3, <2>4, <2>5, <2>6, <2>7, <2>8, <2>9
<1>3. ASSUME NEW i \in Chunks, Signal(i) PROVE IInv'
  <2> USE <1>3 DEF Signal, Chunks
  <2>1. TypeOK'
    BY DEF TypeOK, DoneCap
  <2>2. SemCounts'
    BY DEF TypeOK, SemCounts
  <2>3. WorkersStarted'
    BY DEF TypeOK, WorkersStarted
  <2>4. BufferHolds'
    BY DEF TypeOK, BufferHolds
  <2>5. ResultInHand'
    BY DEF TypeOK, ResultInHand
  <2>6. DeliveredSoFar'
    BY DEF TypeOK, DeliveredSoFar
  <2>7. ClosedAtEnd'
    BY DEF TypeOK, ClosedAtEnd
  <2>8. NoLostWakeup'
    BY DEF TypeOK, NoLostWakeup
  <2>9. DoneCounts'
    <3>1. Exited' = Exited \cup {i} /\ i \notin Exited
      BY DEF TypeOK, Exited
    <3>2. IsFiniteSet(Exited) /\ Cardinality(Exited) \in Nat
      BY ExitedFinite
    <3>3. Cardinality(Exited') = Cardinality(Exited) + 1
      BY <3>1, <3>2, FS_AddElement
    <3> QED
      BY <3>2, <3>3 DEF TypeOK, DoneCounts
  <2> QED
    BY <2>1, <2>2, <2>3, <2>4, <2>5, <2>6, <2>7, <2>8, <2>9
<1>4. CASE Wait
  <2> USE <1>4 DEF Wait, Chunks
  <2>1. TypeOK'
    BY DEF TypeOK
  <2>2. SemCounts'
    BY DEF TypeOK, SemCounts
  <2>3. WorkersStarted'
    BY DEF TypeOK, WorkersStarted
  <2>4. BufferHolds'
    BY DEF TypeOK, BufferHolds
  <2>5. ResultInHand'
    BY DEF TypeOK, ResultInHand
  <2>6. DeliveredSoFar'
    BY DEF TypeOK, DeliveredSoFar
  <2>7. ClosedAtEnd'
    BY DEF TypeOK, ClosedAtEnd
  <2>8. NoLostWakeup'
    BY DEF TypeOK, NoLostWakeup
  <2>9. DoneCounts'
    <3>1. Exited' = Exited /\ Cardinality(Exited) \in Nat
      BY ExitedFinite DEF Exited
    <3> QED
      BY <3>1 DEF TypeOK, DoneCounts
  <2> QED
    BY <2>1, <2>2, <2>3, <2>4, <2>5, <2>6, <2>7, <2>8, <2>9
<1>5. CASE Load
  <2> USE <1>5 DEF Load, Chunks
  <2>1. TypeOK'
    BY DEF TypeOK
  <2>2. SemCounts'
    BY DEF TypeOK, SemCounts
  <2>3. WorkersStarted'
    BY DEF TypeOK, WorkersStarted
  <2>4. BufferHolds'
    BY DEF TypeOK, BufferHolds
  <2>5. ResultInHand'
    BY DEF TypeOK, ResultInHand
  <2>6. DeliveredSoFar'
    BY DEF TypeOK, DeliveredSoFar
  <2>7. ClosedAtEnd'
    BY DEF TypeOK, ClosedAtEnd
  <2>8. NoLostWakeup'
    BY DEF TypeOK, NoLostWakeup, BufferHolds
  <2>9. DoneCounts'
    BY DEF TypeOK, DoneCounts, Exited
  <2> QED
    BY <2>1, <2>2, <2>3, <2>4, <2>5, <2>6, <2>7, <2>8, <2>9
<1>6. CASE Deliver
  <2> USE <1>6 DEF Deliver, Chunks
  <2>1. TypeOK'
    BY DEF TypeOK, ResultInHand
  <2>2. SemCounts'
    BY DEF TypeOK, SemCounts
  <2>3. WorkersStarted'
    BY DEF TypeOK, WorkersStarted
  <2>4. BufferHolds'
    BY DEF TypeOK, BufferHolds
  <2>5. ResultInHand'
    BY DEF TypeOK, ResultInHand
  <2>6. DeliveredSoFar'
    BY DEF TypeOK, DeliveredSoFar, ResultInHand, BufferHolds
  <2>7. ClosedAtEnd'
    BY DEF TypeOK, ClosedAtEnd
  <2>8. NoLostWakeup'
    BY DEF TypeOK, NoLostWakeup
  <2>9. DoneCounts'
    BY DEF TypeOK, DoneCounts, Exited
  <2> QED
    BY <2>1, <2>2, <2>3, <2>4, <2>5, <2>6, <2>7, <2>8, <2>9
<1>7. CASE Retire
  <2> USE <1>7 DEF Retire, Chunks
  <2>1. TypeOK'
    BY DEF TypeOK, ResultInHand
  <2>2. SemCounts'
    BY DEF TypeOK, SemCounts, ResultInHand, BufferHolds, WorkersStarted
  <2>3. WorkersStarted'
    BY DEF TypeOK, WorkersStarted, ResultInHand, BufferHolds
  <2>4. BufferHolds'
    BY DEF TypeOK, BufferHolds
  <2>5. ResultInHand'
    BY DEF TypeOK, ResultInHand
  <2>6. DeliveredSoFar'
    BY DEF TypeOK, DeliveredSoFar
  <2>7. ClosedAtEnd'
    BY DEF TypeOK, ClosedAtEnd
  <2>8. NoLostWakeup'
    BY DEF TypeOK, NoLostWakeup
  <2>9. DoneCounts'
    BY DEF TypeOK, DoneCounts, Exited
  <2> QED
    BY <2>1, <2>2, <2>3, <2>4, <2>5, <2>6, <2>7, <2>8, <2>9
<1>8. CASE Release
  <2> USE <1>8 DEF Release, Chunks
  <2>1. TypeOK'
    BY DEF TypeOK
  <2>2. SemCounts'
    BY DEF TypeOK, SemCounts
  <2>3. WorkersStarted'
    BY DEF TypeOK, WorkersStarted
  <2>4. BufferHolds'
    BY DEF TypeOK, BufferHolds
  <2>5. ResultInHand'
    BY DEF TypeOK, ResultInHand
  <2>6. DeliveredSoFar'
    BY DEF TypeOK, DeliveredSoFar
  <2>7. ClosedAtEnd'
    BY DEF TypeOK, ClosedAtEnd
  <2>8. NoLostWakeup'
    BY DEF TypeOK, NoLostWakeup
  <2>9. DoneCounts'
    BY DEF TypeOK, DoneCounts, Exited
  <2> QED
    BY <2>1, <2>2, <2>3, <2>4, <2>5, <2>6, <2>7, <2>8, <2>9
<1>9. CASE Close
  <2> USE <1>9 DEF Close, Chunks
  <2>1. TypeOK'
    BY DEF TypeOK
  <2>2. SemCounts'
    BY DEF TypeOK, SemCounts
  <2>3. WorkersStarted'
    BY DEF TypeOK, WorkersStarted
  <2>4. BufferHolds'
    BY DEF TypeOK, BufferHolds
  <2>5. ResultInHand'
    BY DEF TypeOK, ResultInHand
  <2>6. DeliveredSoFar'
    BY DEF TypeOK, DeliveredSoFar
  <2>7. ClosedAtEnd'
    BY DEF TypeOK, ClosedAtEnd
  <2>8. NoLostWakeup'
    BY DEF TypeOK, NoLostWakeup
  <2>9. DoneCounts'
    BY DEF TypeOK, DoneCounts, Exited
  <2> QED
    BY <2>1, <2>2, <2>3, <2>4, <2>5, <2>6, <2>7, <2>8, <2>9
<1>10. CASE Finish
  <2> USE <1>10 DEF Finish, Chunks
  <2>1. TypeOK'
    BY DEF TypeOK
  <2>2. SemCounts'
    BY DEF TypeOK, SemCounts
  <2>3. WorkersStarted'
    BY DEF TypeOK, WorkersStarted
  <2>4. BufferHolds'
    BY DEF TypeOK, BufferHolds
  <2>5. ResultInHand'
    BY DEF TypeOK, ResultInHand
  <2>6. DeliveredSoFar'
    BY DEF TypeOK, DeliveredSoFar
  <2>7. ClosedAtEnd'
    BY DEF TypeOK, ClosedAtEnd
  <2>8. NoLostWakeup'
    BY DEF TypeOK, NoLostWakeup
  <2>9. DoneCounts'
    BY DEF TypeOK, DoneCounts, Exited
  <2> QED
    BY <2>1, <2>2, <2>3, <2>4, <2>5, <2>6, <2>7, <2>8, <2>9
<1>11. CASE Stop
  <2> USE <1>11 DEF Stop, Chunks
  <2>1. TypeOK'
    BY DEF TypeOK
  <2>2. SemCounts'
    BY DEF TypeOK, SemCounts
  <2>3. WorkersStarted'
    BY DEF TypeOK, WorkersStarted
  <2>4. BufferHolds'
    BY DEF TypeOK, BufferHolds
  <2>5. ResultInHand'
    BY DEF TypeOK, ResultInHand
  <2>6. DeliveredSoFar'
    BY DEF TypeOK, DeliveredSoFar
  <2>7. ClosedAtEnd'
    BY DEF TypeOK, ClosedAtEnd
  <2>8. NoLostWakeup'
    BY DEF TypeOK, NoLostWakeup
  <2>9. DoneCounts'
    BY DEF TypeOK, DoneCounts, Exited
  <2> QED
    BY <2>1, <2>2, <2>3, <2>4, <2>5, <2>6, <2>7, <2>8, <2>9
<1>12. CASE UNCHANGED vars
  BY <1>12 DEF vars, TypeOK, SemCounts, WorkersStarted, BufferHolds, ResultInHand,
     DeliveredSoFar, ClosedAtEnd, NoLostWakeup, DoneCounts, Exited, Chunks
<1> QED
  BY <1>1, <1>2, <1>3, <1>4, <1>5, <1>6, <1>7, <1>8, <1>9, <1>10, <1>11, <1>12 DEF Next, Terminated

\* The inductive invariant holds in every reachable state.
THEOREM Invariance == Spec => []IInv
  BY InitIInv, NextIInv, PTL DEF Spec

-----------------------------------------------------------------------------
(* The properties of the runs, for every value of the constants.           *)

\* Every variable of the goroutines of makeHeaderChan stays in its type; the
\* semaphore never exceeds maxHeaderConcurrency, nor done its capacity.
THEOREM TypeCorrect == Spec => []TypeOK
  BY Invariance, PTL DEF IInv

\* The reader receives the answer to request 0, then to 1, and so on, whatever
\* the order in which the workers of makeHeaderChan finish, and sees the end of
\* the stream only after the last.
THEOREM InOrder == Spec => []OrderedDelivery
<1>1. IInv => OrderedDelivery
  BY HeaderChanAssumption
  DEF IInv, TypeOK, DeliveredSoFar, ClosedAtEnd, OrderedDelivery
<1>2. QED
  BY <1>1, Invariance, PTL

\* At most maxHeaderConcurrency requests are being computed or have their result
\* in the buffer of makeHeaderChan.
THEOREM BoundedMemory == Spec => []HeldWithinWindow
<1>1. ASSUME IInv PROVE HeldWithinWindow
  <2> USE HeaderChanAssumption, CapPositive DEF IInv, TypeOK
  <2>1. Held \subseteq sequence..(next - 1)
    BY <1>1 DEF Held, Chunks, WorkersStarted, BufferHolds
  <2>2. IsFiniteSet(sequence..(next - 1)) /\ Cardinality(sequence..(next - 1)) = next - sequence
    <3>1. sequence \in Nat /\ next \in Nat /\ sequence <= next
      BY <1>1 DEF SemCounts
    <3>2. sequence \in Int /\ next - 1 \in Int
      BY <3>1
    <3>3. /\ IsFiniteSet(sequence..(next - 1))
          /\ Cardinality(sequence..(next - 1)) =
               IF sequence > next - 1 THEN 0 ELSE (next - 1) - sequence + 1
      BY <3>2, FS_Interval, Zenon
    <3>4. QED
      BY <3>1, <3>3
  <2>3. Cardinality(Held) <= next - sequence
    BY <2>1, <2>2, FS_Subset
  <2>4. next - sequence <= Cap
    BY <1>1 DEF SemCounts
  <2>5. Cardinality(Held) \in Nat
    BY <2>1, <2>2, FS_Subset, FS_CardinalityType
  <2>6. QED
    BY <1>1, <2>3, <2>4, <2>5 DEF HeldWithinWindow
<1>2. QED
  BY <1>1, Invariance, PTL

\* The sequencer of makeHeaderChan never waits for a completion nobody will send
\* nor blocks on the semaphore.
THEOREM SequencerAlive == Spec => []NeverStuck
<1>1. ASSUME IInv PROVE NeverStuck
  <2> USE <1>1, HeaderChanAssumption, CapPositive DEF IInv, TypeOK
  <2>1. ASSUME pc = "release" PROVE sem > 0
    BY <2>1 DEF SemCounts
  <2>2. ASSUME pc = "wait", sequence < requests, worker[sequence] = "stored"
        PROVE  done < DoneCap
    <3>1. Exited \subseteq Chunks /\ sequence \in Chunks /\ sequence \notin Exited
      BY <2>2 DEF Exited, Chunks
    <3>2. IsFiniteSet(Chunks) /\ Cardinality(Chunks) = requests
      BY ChunksFinite
    <3>3. Cardinality(Exited) \in 0..requests /\ requests \in Nat
      BY ExitedFinite
    <3>4. Cardinality(Exited) # requests
      BY <3>1, <3>2, FS_Subset
    <3>5. QED
      BY <3>3, <3>4 DEF DoneCounts, DoneCap
  <2>3. ASSUME pc = "wait", sequence < requests, worker[sequence] = "idle"
        PROVE  sequence = next /\ sem < Cap
    BY <2>3 DEF SemCounts, WorkersStarted, Chunks
  <2>4. QED
    BY <2>1, <2>2, <2>3 DEF NoLostWakeup, NeverStuck, Chunks
<1>2. QED
  BY <1>1, Invariance, PTL

-----------------------------------------------------------------------------
(* The refinement of OrderedStream, safety part.                           *)

\* The mapped answers.
StreamAnswer == [i \in Chunks |-> AnswerOf(i)]

\* Initial states map to initial states.
LEMMA InitRefines == Init => Stream!Init
  BY HeaderChanAssumption
  DEF Init, Stream!Init, Chunks, AnswerOf

\* A worker's Store answers its request, within the window of the reader.
LEMMA StoreAnswers ==
  ASSUME IInv, NEW i \in Chunks, Store(i)
  PROVE  Stream!Answer(i)
<1> USE HeaderChanAssumption, CapPositive DEF IInv, TypeOK
<1>1. PICK r \in ResultsOf(i) : buffer' = [buffer EXCEPT ![i] = r]
  BY DEF Store
<1>2. Len(delivered) <= i
  <2>1. worker[i] = "running" /\ i \in Nat /\ sequence <= i
    BY DEF Store, WorkersStarted, Chunks
  <2>2. CASE pc = "retire"
    <3>1. sequence # i
      BY <2>1, <2>2 DEF ResultInHand, BufferHolds
    <3>2. QED
      BY <2>1, <2>2, <3>1 DEF DeliveredSoFar
  <2>3. CASE pc # "retire"
    BY <2>1, <2>3 DEF DeliveredSoFar
  <2>4. QED
    BY <2>2, <2>3
<1>3. i < Len(delivered) + Cap
  BY DEF Store, DeliveredSoFar, WorkersStarted, SemCounts, Chunks
<1>4. buffer[i] = Nil
  BY DEF Store, BufferHolds
<1>5. StreamAnswer[i] = Nil
  BY <1>2, <1>4 DEF StreamAnswer, AnswerOf, Chunks
<1>6. StreamAnswer' = [StreamAnswer EXCEPT ![i] = r]
  <2>1. UNCHANGED <<Chunks, delivered>>
    BY DEF Store, Chunks
  <2>2. AnswerOf(i)' = r
    BY <1>1, <1>2, <2>1 DEF AnswerOf, Chunks
  <2>3. \A j \in Chunks : j # i => AnswerOf(j)' = AnswerOf(j)
    BY <1>1, <2>1 DEF AnswerOf
  <2>4. QED
    BY <2>1, <2>2, <2>3 DEF StreamAnswer
<1>7. r \in Stream!AnswersTo(i)
  BY DEF ResultsOf, Stream!AnswersTo
<1>8. QED
  BY <1>3, <1>5, <1>6, <1>7 DEF Stream!Answer, StreamAnswer, Store

\* A delivery by the sequencer delivers the next answer.
LEMMA DeliverDelivers ==
  ASSUME IInv, Deliver
  PROVE  Stream!Deliver
<1> USE HeaderChanAssumption DEF IInv, TypeOK, Deliver
<1>1. Len(delivered) = sequence /\ sequence \in Chunks
  BY DEF DeliveredSoFar, ResultInHand, Chunks
<1>2. StreamAnswer[Len(delivered)] = result /\ result # Nil
  BY <1>1 DEF StreamAnswer, AnswerOf, ResultInHand
<1>3. StreamAnswer' = StreamAnswer
  BY <1>1 DEF StreamAnswer, AnswerOf, ResultInHand, Chunks
<1>4. QED
  BY <1>1, <1>2, <1>3 DEF Stream!Deliver, StreamAnswer, Chunks

\* Retiring a result is invisible: the reader has it already.
LEMMA RetireStutters ==
  ASSUME IInv, Retire
  PROVE  UNCHANGED Stream!vars
<1> USE HeaderChanAssumption DEF IInv, TypeOK, Retire
<1>1. sequence < Len(delivered)
  BY DEF DeliveredSoFar
<1>2. StreamAnswer' = StreamAnswer
  BY <1>1 DEF StreamAnswer, AnswerOf, Chunks
<1>3. QED
  BY <1>2 DEF Stream!vars, StreamAnswer

\* Every step of the goroutines is a step of the stream or invisible.
LEMMA NextRefines == IInv /\ [Next]_vars => [Stream!Next]_(Stream!vars)
<1> SUFFICES ASSUME IInv, [Next]_vars PROVE [Stream!Next]_(Stream!vars)
  OBVIOUS
<1> USE DEF Stream!Next
<1>1. ASSUME NEW i \in Chunks, Store(i) PROVE Stream!Next
  BY <1>1, StoreAnswers DEF Stream!AnswerSome, Chunks
<1>2. CASE Deliver
  BY <1>2, DeliverDelivers
<1>3. CASE Retire
  BY <1>3, RetireStutters
<1>4. CASE Finish
  BY <1>4 DEF Finish, Stream!Finish, IInv, ClosedAtEnd, DeliveredSoFar, Chunks, AnswerOf
<1>5. CASE Stop
  BY <1>5 DEF Stop, Stream!Stop, Chunks, AnswerOf
<1>6. ASSUME \/ Dispatch \/ \E i \in Chunks : Signal(i)
             \/ Wait \/ Load \/ Release \/ Close \/ UNCHANGED vars
      PROVE  UNCHANGED Stream!vars
  <2>1. UNCHANGED <<requests, buffer, delivered, reader>>
    BY <1>6 DEF Dispatch, Signal, Wait, Load, Release, Close, vars
  <2>2. QED
    BY <2>1 DEF Stream!vars, Chunks, AnswerOf
<1>7. QED
  BY <1>1, <1>2, <1>3, <1>4, <1>5, <1>6 DEF Next, Terminated

\* The goroutines of makeHeaderChan implement the safety part of OrderedStream.
THEOREM RefinesStream == Spec => Stream!SafeSpec
  BY Invariance, InitRefines, NextRefines, PTL DEF Spec, Stream!SafeSpec

=============================================================================
