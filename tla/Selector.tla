------------------------------- MODULE Selector -------------------------------
(***************************************************************************)
(* Selector of module/util/selector.go: concurrent callers, such as the    *)
(* workers of a header stream, are spread over the preimage maker          *)
(* endpoints by a shared counter that wraps.                               *)
(***************************************************************************)
EXTENDS Integers, FiniteSets

CONSTANTS
  Values,       \* number of values of the counter, 2^32 in the code
  MaxEndpoints, \* bound on the number of endpoints
  Callers,      \* concurrent callers of Get
  MaxCalls      \* bound on the calls made

ASSUME SelectorAssumption ==
  /\ Values \in Nat \ {0}
  /\ MaxEndpoints \in 1..Values
  /\ IsFiniteSet(Callers)
  /\ MaxCalls \in Nat

VARIABLES
  endpoints, \* number of endpoints configured
  counter,   \* the atomic counter
  stage,     \* stage[c]: "idle", or "index" between Add and the use of its result
  value,     \* value[c]: the local value
  issued,    \* issued[e]: how often endpoint e was returned
  calls      \* calls made so far, for the bound and the properties

selectorVars == <<endpoints, counter, stage, value, issued, calls>>

Targets == 0..(endpoints - 1)

SelectorInit ==
  /\ endpoints \in 1..MaxEndpoints
  /\ counter = 0
  /\ stage = [c \in Callers |-> "idle"]
  /\ value = [c \in Callers |-> 0]
  /\ issued = [e \in Targets |-> 0]
  /\ calls = 0

\* Faulty variant of Add: the counter does not wrap (SelectorTypeOK).
AddUnbounded(c) ==
  /\ stage[c] = "idle" /\ calls < MaxCalls
  /\ calls' = calls + 1
  /\ counter' = counter + 1
  /\ value' = [value EXCEPT ![c] = counter']
  /\ stage' = [stage EXCEPT ![c] = "index"]
  /\ UNCHANGED <<endpoints, issued>>

\* value.Add(1): add and read in one atomic operation.
Add(c) ==
  /\ stage[c] = "idle" /\ calls < MaxCalls
  /\ calls' = calls + 1
  /\ counter' = (counter + 1) % Values
  /\ value' = [value EXCEPT ![c] = counter']
  /\ stage' = [stage EXCEPT ![c] = "index"]
  /\ UNCHANGED <<endpoints, issued>>

\* Faulty variant of Index: read the counter again (Balanced).
IndexReread(c) ==
  /\ stage[c] = "index"
  /\ issued' = [issued EXCEPT ![counter % endpoints] = @ + 1]
  /\ stage' = [stage EXCEPT ![c] = "idle"]
  /\ UNCHANGED <<endpoints, counter, value, calls>>

\* Return the endpoint at the value's remainder.
Index(c) ==
  /\ stage[c] = "index"
  /\ issued' = [issued EXCEPT ![value[c] % endpoints] = @ + 1]
  /\ stage' = [stage EXCEPT ![c] = "idle"]
  /\ UNCHANGED <<endpoints, counter, value, calls>>

SelectorNext == \E c \in Callers : Add(c) \/ Index(c)

SelectorSpec == SelectorInit /\ [][SelectorNext]_selectorVars

-----------------------------------------------------------------------------
\* The values of every variable.
SelectorTypeOK ==
  /\ endpoints \in 1..MaxEndpoints
  /\ counter \in 0..(Values - 1)
  /\ stage \in [Callers -> {"idle", "index"}]
  /\ value \in [Callers -> 0..(Values - 1)]
  /\ issued \in [Targets -> 0..MaxCalls]
  /\ calls \in 0..MaxCalls

\* Times the counter has wrapped out of step with the endpoints.
Skips == IF Values % endpoints = 0 THEN 0 ELSE calls \div Values

\* However concurrent callers interleave, no endpoint gets more than one call above
\* its share, and one more per wrap of the counter if the number of endpoints does
\* not divide its range; calls still on their way count for either side.
Balanced ==
  \A e, f \in Targets :
    issued[e] - issued[f] <= 1 + Skips + Cardinality({c \in Callers : stage[c] = "index"})
=============================================================================
