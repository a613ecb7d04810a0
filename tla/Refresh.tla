------------------------------- MODULE Refresh -------------------------------
(***************************************************************************)
(* CheckRefreshRequired of module/prover/prover.go with the configuration  *)
(* ProverConfig.Validate admits (module/config/config.go), in the loop of  *)
(* a relayer that updates the client when it is told to.                   *)
(*                                                                         *)
(* Durations are signed integers that wrap at Half, as int64 does at 2^63; *)
(* the parts of the fraction are unsigned ones of the same width.          *)
(* Time is counted in the unit of durations.  The client's timestamp is    *)
(* read first and the newest preimage's later, from a preimage maker that  *)
(* may be behind.                                                          *)
(***************************************************************************)
EXTENDS Integers

CONSTANTS
  Half,     \* 2^(w-1) for integers of w bits
  MaxTime   \* bound on the timestamps, below Half

ASSUME RefreshAssumption == Half \in Nat \ {0} /\ MaxTime \in 0..(Half - 1)

VARIABLES
  config,     \* trusting_period and the fraction refresh_threshold_rate
  clientTime, \* timestamp of the client's latest L2 block
  latestTime, \* timestamp of the newest preimage's claimed block
  pc,         \* "idle", "compare", "fresh" (no refresh required) or "update"
  lcLast,     \* lcLastTimestamp
  elapsed     \* elapsedTime of the last comparison

vars == <<config, clientTime, latestTime, pc, lcLast, elapsed>>

Times == 0..MaxTime

\* The value an int64 holds after arithmetic, and Go's division, which truncates.
Wrap(x) == ((x + Half) % (2 * Half)) - Half
Size(x) == IF x < 0 THEN -x ELSE x
Quotient(x, y) ==
  IF (x < 0) = (y < 0) THEN Size(x) \div Size(y) ELSE -(Size(x) \div Size(y))

Config == [period : -Half..(Half - 1), num : 0..(2 * Half - 1), den : 0..(2 * Half - 1)]

\* Faulty variant of Valid: the fraction may exceed one (NotDeclined, Refreshed).
ValidAnyRate(c) == c.period > 0 /\ c.den # 0 /\ c.num # 0

\* Validate, as far as this function depends on it.
Valid(c) == c.period > 0 /\ c.den # 0 /\ c.num # 0 /\ c.num <= c.den

\* Faulty variant of Threshold: divide first (NotEarly).
ThresholdDivideFirst(c) == Wrap(Quotient(c.period, Wrap(c.den)) * Wrap(c.num))

\* durationMulByFraction of the trusting period and the rate.
Threshold(c) == Wrap(Quotient(Wrap(c.period * Wrap(c.num)), Wrap(c.den)))

Init ==
  /\ config \in {c \in Config : Valid(c)}
  /\ clientTime = 0
  /\ latestTime = 0
  /\ pc = "idle"
  /\ lcLast = 0
  /\ elapsed = 0

\* A preimage is published that claims a later block.
Publish(t) ==
  /\ t > latestTime
  /\ latestTime' = t
  /\ UNCHANGED <<config, clientTime, pc, lcLast, elapsed>>

\* Another relayer, or another purpose, updates the client.
OtherUpdate(t) ==
  /\ t > clientTime
  /\ t <= latestTime
  /\ clientTime' = t
  /\ UNCHANGED <<config, latestTime, pc, lcLast, elapsed>>

\* Query the client and the timestamp of its latest block.
ReadClient ==
  /\ pc \in {"idle", "fresh"}
  /\ lcLast' = clientTime
  /\ pc' = "compare"
  /\ UNCHANGED <<config, clientTime, latestTime, elapsed>>

\* Faulty variant of Compare: unsigned subtraction (TypeOK).
CompareUnsigned(t) ==
  /\ pc = "compare"
  /\ elapsed' = (t - lcLast) % (2 * Half)
  /\ pc' = IF elapsed' > Threshold(config) THEN "update" ELSE "fresh"
  /\ UNCHANGED <<config, clientTime, latestTime, lcLast>>

\* Get the newest preimage's timestamp t and compare.
Compare(t) ==
  /\ pc = "compare"
  /\ elapsed' = t - lcLast
  /\ pc' = IF elapsed' > Threshold(config) THEN "update" ELSE "fresh"
  /\ UNCHANGED <<config, clientTime, latestTime, lcLast>>

\* A query fails and CheckRefreshRequired returns its error, or the update fails.
Fail ==
  /\ pc \in {"compare", "update"}
  /\ pc' = "idle"
  /\ UNCHANGED <<config, clientTime, latestTime, lcLast, elapsed>>

\* The relayer (external) updates the client to the newest preimage.
Update ==
  /\ pc = "update"
  /\ clientTime' = latestTime
  /\ pc' = "idle"
  /\ UNCHANGED <<config, latestTime, lcLast, elapsed>>

Next ==
  \/ \E t \in Times : Publish(t) \/ OtherUpdate(t)
  \/ ReadClient \/ Fail \/ Update
  \/ \E t \in 0..latestTime : Compare(t)

\* The relayer goes on polling; every so often its queries succeed and the preimage
\* maker it asks is up to date, and every so often an update succeeds.
Fairness ==
  /\ WF_vars(ReadClient)
  /\ SF_vars(Compare(latestTime))
  /\ SF_vars(Update)

Spec == Init /\ [][Next]_vars /\ Fairness

-----------------------------------------------------------------------------
\* The values of every variable.
TypeOK ==
  /\ config \in {c \in Config : Valid(c)}
  /\ clientTime \in Times
  /\ latestTime \in Times
  /\ pc \in {"idle", "compare", "fresh", "update"}
  /\ lcLast \in Times
  /\ elapsed \in -MaxTime..MaxTime

\* The parts of the fraction keep their value when they are cast to int64.
Signed == config.den < Half

\* A refresh is never declined when more than the trusting period lies between the
\* two timestamps compared: even if the product of period and numerator wraps, the
\* threshold is not above the period.
NotDeclined == pc = "fresh" /\ Signed => elapsed <= config.period

\* No refresh before the configured share of the trusting period has passed, unless
\* the product wraps.
NotEarly ==
  pc = "update" /\ Signed /\ config.period * config.num < Half =>
    elapsed * config.den > config.period * config.num

\* A client that falls behind the newest preimage by more than its trusting period
\* is updated, although preimage makers may be behind when they are asked.
Refreshed ==
  (Signed /\ latestTime - clientTime > config.period)
    ~> (latestTime - clientTime <= config.period)
=============================================================================
