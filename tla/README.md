# Verification of the Optimism IBC relay prover

TLA+ modules, TLC configurations and TLAPS proofs for the Go prover in
`src/module`: the part of a relayer that builds, from an OP Stack chain (L2), its
settlement chain (L1) and a *preimage maker*, the headers that update a light
client of L2 on a counterparty chain.

## 1. The system

| Part | Where | State | Operations |
|------|-------|-------|------------|
| Prover | `module/prover/prover.go` | configuration only | `GetLatestFinalizedHeader`, `SetupHeadersForUpdate`, `CheckRefreshRequired`, `CreateInitialLightClientState`, `ProveState` |
| Header stream | `makeHeaderChan` in `prover.go` | channels `out`, `sem`, `done`, a buffer of atomic pointers, the sequencer's counter | one dispatcher, one sequencer and one worker per request |
| L1 client | `module/prover/l1` | none; reads a beacon node and an execution node | `GetFinalizedL1Header`, `BuildInitialState`, `GetSyncCommitteesFromAgreedToClaimed`, `GetSyncCommitteesFromClaimedToLatest` |
| L2 client | `module/prover/l2` | none; reads op-node, L2 and the preimage maker | `GetLatestPreimageMetadata`, `ListPreimageMetadata`, `GetPreimage`, `OutputAtBlock` |
| Endpoint selector | `module/util/selector.go` | a 32-bit counter shared by concurrent calls | `Get` |
| HTTP client | `module/util/http.go` | none | `POST`: an answer, an error or a timeout; no retry |
| Configuration | `module/config` | none | `Validate`, `Build` |
| Client types | `module/types` | none | accessors; the light client methods panic, the light client itself runs elsewhere |
| Generated protobuf code | `module/types/optimism.pb.go`, `module/config/config.pb.go` | a decoder's index, bounds and the message filled so far | `Marshal`, `Size`, `Unmarshal` of twelve messages, `skipOptimism`, `skipConfig` |
| Misbehaviour tools | `tools/misbehaviour` | none | generators of test data from dispute games |

How they interact: in an update the relayer calls `GetLatestFinalizedHeader`
(the claimed block of the newest preimage), then `SetupHeadersForUpdate`, which
queries the client's height on the counterparty, lists the preimages between the
two heights and hands the list to `makeHeaderChan`. There a worker per preimage
builds one header: where the L1 origins of the preimage's agreed and claimed L2
blocks lie, two chains of sync committee updates (*trusted to deterministic*,
stored by the light client, and *deterministic to latest*, verified only), the
account proof and the preimage. The relayer takes headers from the stream in
order and submits them; each one starts from the consensus state the previous
one left.

What is hard, and what makes each part correct:

* **Stream.** Three kinds of goroutines, two counting channels, an unbuffered
  channel and a lock-free buffer. A completion token does not say which request
  completed, so waking the sequencer is delicate. Results must come out in order
  and complete, memory must stay bounded with a slow reader, nothing may wait
  forever, and workers must end when the reader does not drain the stream.
* **Header construction.** A dozen calls to servers that move on in between. The
  updates must form one chain of committees however many rotations lie between
  agreed, claimed and latest, must not run past the finalized L1 head the
  preimage was made from, and the state they leave must be a function of the
  claimed block, or two relayers would store different states for one height.
* **Update session.** The client's height is read, then used after several calls
  to preimage makers that lag behind each other, while other relayers update the
  same client. Headers must connect; every published height is reached in the end
  despite failures and restarts.
* **Generated code.** What a relayer writes is read by a light client built from
  another release. Tags, sizes and cases are written three times over; the decoder
  walks untrusted lengths with fixed-width integers, merges fields that come twice and
  steps over those it does not know. A message must arrive as it was sent, a truncated
  or damaged one must never make the decoder read outside its slice or run forever.
* **Refresh decision, selector, configuration.** Fixed-width arithmetic and its
  boundaries.

`PROJECT.json` lists the components with what is left out of each, and the hazards
with the line where each one bites and the properties aimed at it.

## 2. The modules

### OrderedStream and HeaderChan: `makeHeaderChan`

`OrderedStream` is what the relayer is promised: requests are answered with a header
or an error, in any order, at most `Window` ahead of the reader; the answers are
delivered in the order of the requests; the stream ends after the last.

`HeaderChan` is the code. Its variables are the code's: `sem` and `done` count the
values in the two channels, `buffer` holds the pointers, `next` is the dispatcher's
loop index, `sequence` and `result` the sequencer's locals, `pc` its place in the two
nested loops (`wait` top of the outer loop, `scan` top of the inner, `send`,
`retire`, `release` the three statements after the nil check). One action is one
channel or atomic operation: `Dispatch` (acquire and spawn), `Store` and `Signal` of a
worker, `Wait`, `Load`, `Deliver`, `Retire`, `Release`, `Close` of the sequencer.
`Finish` and `Stop` are the relayer (external), which ranges over the stream or gives
up. The moments between the semaphore's acquisition and the start of the goroutine,
and between `Swap(nil)` and `sequence++`, touch no state another goroutine reads, so
each pair is one step. `Terminated` is a self-loop in the one state where nothing is
left to do: with TLC's deadlock check on, every other stop is an error.

`HeaderChanProofs` holds the theorems (section 4).

### HeaderBuilder: the function run by a worker

One header, one call after the other, while L1 goes on finalizing. An L2 block is
represented by the slot of its L1 origin, a slot determines its period, a committee is
named by the period it serves, and a light client update by the slot it finalizes.
`pc` is the next call; `agreedPeriod`, `claimedPeriod` and `latestPeriod` are the
code's; `t2d` and `d2l` are the two chains; `p`, `trusted` and `base` are the locals
of the two `GetSyncCommittees...` functions. Every call that reads data L1 can still
change is an action of its own; those whose answer is fixed (`FixedCall`) only move
`pc`. `CallFails` lets any call fail. The client's state comes from `CreateClient`,
which is `BuildInitialState`, at an earlier time.

External, from how the code uses them: the beacon node's update of a period may be
replaced by a later one while the period lasts and not after, it finalizes a slot of
its own period; the preimage maker stores with a preimage the finalized head, its period and
the update of that moment; the light client checks an update with its current committee, or
with its next one when `is_next` is set, and then moves on with it (as the test data
generator in `prover_test.go:346-386` replays it). These are assumptions, and so is who
signs:

* a finality update is signed by the committee of the period its finalized slot lies in.
  `GetFinalizedL1Header` takes the latest period from the preimage maker's metadata
  (`l1.go:108`), `FinalityHeader` takes it from the slot of `meta.l1`, and either way the
  last header of the second chain is checked by that period's committee;
* the light client update of a period is signed by that period's committee.

On L1 it is the slot of the signature that decides, and that one is later than the
finalized slot: shortly after a period ends, a finality update is signed by the next
committee while what it finalizes is still in the old period. This window is outside the
model. `HeaderVerifies` and `ToolsVerify` do not speak of a preimage made in it; the code
only logs the signature slot (`prover.go:142`), so which metadata a preimage maker stores then is
for the preimage maker to decide, and it is not in this repository.

### MisbehaviourL1: the L1 data of the misbehaviour tools

Extends `HeaderBuilder`: a tool runs on a preimage in place of the function. `ReadL2` is
what both L2 tools make of the cached snapshot and `ReadL1` what the L1 tool makes of
snapshot and finality update; `Write` asks the beacon node, which has moved on, for the
state before them (`BuildInitialState`, the same operator as for a client) and names its
next committee as the one to check by. A header carries the slot of its execution update
beside that of its consensus update, as the two come from different answers.

### Relay, MCRelay and ClientAdvance: sessions against one client

`chain` holds the L2 heights at which preimages begin and end, `view[q]` how many of
them preimage maker `q` knows: an assumption about the environment, that all preimage
makers share one chain of boundaries, each knowing a beginning of it, so that they lag
behind each other but never cut the L2 chain differently. With makers that cut it
differently a list from one need not start at a height another one's preimage ended, and
nothing in the code repairs that. `client` is the light client's latest height and the
heights with a consensus state. A relayer goes `idle` (`GetLatest`), `query`
(`QueryClient`, with both early returns), `list` (`List`), `stream` (`Build`,
`BuildFails`, `Deliver`, `Finish`). `Abort` is a call that fails outside the stream, a
lost submission or a restart: the prover keeps nothing between sessions. The stream is
`OrderedStream`'s and a built header stands for its two heights: `HeaderBuilder` shows
that such a header convinces a client with a state at the agreed height. The client is
created at the latest claimed height or at an explicit one, which need not be a
boundary; `Connected` and `CatchesUp` are about clients created on a boundary,
`Aligned`. Preimages are those made after L1's first sync committee period: for an
earlier one no header can be built (`PeriodErrorsAtGenesisOnly`), and a client in front
of it stays there.

`ClientAdvance` is what sessions promise of the client with nothing said about how: its
height moves from the beginning of a preimage to its end, and as long as there is a next
preimage it goes on. A client created inside a preimage has no step to take. `Relay`
implements it (`Implements`) with `height` mapped to the client's latest height.

### Refresh: `CheckRefreshRequired` and `Validate`

A relayer polls: `ReadClient` reads the timestamp of the client's latest block,
`Compare(t)` that of the newest preimage the maker asked knows of and decides (`fresh`
or `update`), `Update` (external) updates the client, `Fail` is any query or update that
fails. `lcLast` and `elapsed` are the code's locals. Meanwhile preimages are published
and someone else may update the client. `Threshold` is `durationMulByFraction` with
its casts, product and truncating division, all of which wrap at `Half` (2^63 in the
code); a configuration is any that `Validate` admits. Time is counted in nanoseconds in
the code and in small units here; timestamps are far enough below 2^63 that their
difference does not wrap (`time.Time.Sub` saturates instead, beyond 292 years).

### Selector

The shared counter of `Selector.Get`: `Add` is the atomic add and read, `Index` the use
of the value it returned; other callers run in between. `issued` counts what was
returned and `calls` the additions, so that the shares of a counter that wrapped can be
compared with the calls that were made.

### BlockSearch: `FindL2BlockByTimestamp`

From the test data generators in `tools/misbehaviour/l2`: the block whose timestamp a
dispute game carries, guessed from the time of the last block (`Guess`) and then walked
to (`Walk`, one loop iteration); `stage` is its place in the function and `guess` the
candidate it starts from. `time` holds the timestamps of a chain that grows
meanwhile, each block later than the one before (`NewBlock`, external).

### Misbehaviour: `tools/misbehaviour/l2/past` and `future`

`kind` says which tool runs; `pc` is the next step of its `run`. Between any two steps L1
and L2 grow, games are created and preimages made (external). A game is proven at an L1
block (`ProofAt`, which is `CreateGameProof`) with the answer that block's state gives. The
L2 headers of the past tool are records of what the histories depend on, and a file is
the headers with the output root its consensus state gets (`OutputRoot`: state root and
message passer storage root of the block's number, which a changed header keeps, and the
hash, which changes). `Verdict` (external) is the light client's judgement, from the
comments at `past/main.go:104` and `past/main.go:239`: the first header must have the
trusted output root and the last one as its parent, and the last one's output root is
compared with the game's claim.

### Wire, Messages, Codec and MCCodec: the generated protobuf code

`Wire` is the format: writing, sizes, and the reading of a varint, a tag and a delimited
element, with the casts to `int`, `uint32` and `int32` of the code and its checks for
lengths that are negative or wrap. `Messages` has the twelve messages three times, from
the three bodies the generator wrote for each: the cases of `Unmarshal`, the bytes of
`MarshalToSizedBuffer` with their tags, and the sum in `Size`. That the three agree is
what is checked and not assumed: a tag is a number here as it is there. A message of
another package, and a duration, is *external*: the bytes of its encoding, which its own
`Unmarshal` may refuse.

`Codec` sends a message: `Encode` (`Marshal`, which panics if `Size` is too small and
drops the tail if it is too large), one change to the bytes or none (`Cut`, `Join` with a
second message, `Extend` by a field the receiver does not know, `Corrupt` a byte;
external), and the decoder. `calls` is its stack: the `Unmarshal` of a message and of the
messages in it, the loop over a map entry, `skipOptimism`. A step is one iteration of
the loop on top: `Scalar`, `String`, `Nested`, `OpenEntry`, `EntryKey`, `EntryValue`,
`OpenSkip`, `SkipMore`, `SkipEnds`, or an error (`Malformed`, `SkipFails`, `Refused`), and
`Return` and `Done` at the end of a loop. What came out is written and read once more
(`Again`). `MCCodec` chooses the messages.

The generator's code is the same for every field of a kind but for names and numbers,
which is why `Messages` is a table and `Codec` has one action per kind of field.

### The proof modules

`HeaderChanProofs`, `RelayProofs`, `HeaderBuilderProofs` (for `MisbehaviourL1` too),
`FixedWidthProofs` (for `Refresh` and `Selector`), `MisbehaviourProofs` (for `BlockSearch`
too), `CodecProofs` and, extending it, `DecodingProofs` hold the theorems about the modules they extend (section 4). `NumberLemmas`
has what they share: induction, least and greatest elements of sets of numbers, division
and remainders.

The modules of the system also contain faulty variants of its actions. They are not part of the
specification: put in the place of the original, each must break the property named
beside it, which shows that the property depends on the code it is about.

## 3. What the runs check

| Run | Bounds | Shows |
|-----|--------|-------|
| `drain` | 0 to 4 requests, concurrency 2, reader drains | `OrderedDelivery`, `HeldWithinWindow`, `NeverStuck`, no deadlock |
| `abandon` | the same, the reader may stop at any time | `WorkersExit`, and `Implements`: refinement of `OrderedStream` with its fairness |
| `serial` | 0 to 3 requests, configured concurrency 0 | `StreamEnds`: concurrency 0 becomes 1 and the stream closes |
| `builder` | 4 periods of 3 slots | `HeaderVerifies`, `SlotsOrdered`, `Deterministic`, `PeriodErrorsAtGenesisOnly`, `ToolsVerify` |
| `builder_past` | 4 periods of 2 slots | finding: a comment's claim fails in period 0 |
| `relay_safe` | 2 relayers, 2 preimage makers, heights to 4, 1 fault | `Connected` |
| `relay_live` | 2 relayers, 2 preimage makers, heights to 3, 1 fault, a window of 1 | `CatchesUp`, and `Implements`: refinement of `ClientAdvance` with its fairness |
| `refresh` | integers from -6 to 5 (unsigned to 11), timestamps to 5, all configurations | `NotDeclined`, `NotEarly`, `Refreshed` |
| `selector` | 1 to 4 endpoints, 2 callers, counter of 8 values, 20 calls | `Balanced`; equal shares where the number divides 8, as `selector_test.go` expects of one caller and two endpoints |
| `block_search` | chains of up to 6 blocks, block times 1 to 3, 3 steps | `RegularFound`, `NearFound`, `InChain` |
| `codec` | words of 16 bits (8 for 32), every kind of message with no, one or all fields set, one change to the bytes | `SizeExact`, `RoundTrip`, `UnknownSkipped`, `LastWins`, `CutIsPartial`, `Stable`, `InBounds`, `Terminates` |
| `misbehaviour` | 3 L1 blocks, 3 L2 blocks, 2 games of 2 types, either tool | `SealedProof`, `Verdicts` |

Why the bounds suffice. Two workers and four requests give every relation between
completion order, window and sequencer: results ready out of order, several taken for
one token, tokens left over, a window that slides twice. The theorems cover all other
values. Four periods let agreed, claimed and latest differ by none, one or two
rotations each, with two iterations in either loop; three slots per period let an update
be replaced twice, before and after a preimage is made from it. Four heights with preimages
of one or two blocks give streams of up to four headers and explicit heights inside a
preimage; two relayers suffice for one to overtake the other, two makers for a list older than the latest metadata. One fault
per behaviour is enough because a session keeps nothing for the next. In `Refresh` the
product of period and numerator goes up to 25, four times round the range; 20 calls
wrap the selector's counter twice. Six blocks and three steps in `BlockSearch` let a
guess land below the chain, beyond the reach of the walk, or next to a timestamp no block
has. Three L1 blocks and two games in `Misbehaviour` let the L1 header lie before, at or
after the creation of the game, and the game not be the newest. Words of 16 bits keep
what 64 have: a varint may be longer than the word, lose bits, or be a negative `int`;
values take one to three bytes and one message is longer than 127, so that its own
length takes two. Bytes are damaged in buffers of up to twelve, by values that turn tags
into unknown, illegal or group tags and lengths into larger, longer or unending ones.

`abandon`, `serial` and the runs of the other modules switch the deadlock check off:
the goroutines of an abandoned stream stay blocked, one header is built per behaviour,
and L2 heights, timestamps and calls are bounded.

**Fairness.** In `HeaderChan` goroutines that can run do run (the Go scheduler), and a
worker's function returns: its HTTP calls have timeouts (`util/http.go:23`,
`l2_rollup.go:24`), the others the relayer's context. `Deliver` needs both sides of an
unbuffered channel; its fairness also says that a relayer that has not given up reads
on. Giving up is never forced. In `Relay` a relayer goes on with its sessions and
starts new ones, and preimage makers learn of every preimage in the end; nothing forces
a preimage to be published or a client to be created. A round-robin selector is not
needed: `CatchesUp` holds for every choice of preimage makers. In `Refresh` the relayer
polls on, and every so often its queries reach an up-to-date maker and an update succeeds
(strong fairness); nobody else has to update the client. In `Codec` the goroutine that
decodes goes on (weak fairness of `Decode`).

**Refresh, beyond the properties.** Its properties are conditioned on `Signed`: a
denominator of 2^63 or more becomes negative when cast to `int64`, `Validate` admits it,
and then nothing is promised. A product that wraps makes the threshold smaller, possibly
negative: the client is refreshed early or at every poll, but never late. A two-week
trusting period in nanoseconds wraps from a numerator of 7626 on, so a fraction is best
written in lowest terms.

**Finding.** `GetSyncCommitteesFromAgreedToClaimed` says it needs no snapshot "since both
agreed and claimed use past periods (period - 1)". `GetPreviousPeriodByBlockNumber`
leaves period 0 as it is, so on a chain in its first sync committee period the two
periods are the current one. The consequence is contained: the check in
`GetSyncCommitteesFromClaimedToLatest` makes every such header an error
(`Deterministic`, `PeriodErrorsAtGenesisOnly`).

## 4. What is proved

Every theorem holds for all values of the constants that the module's one assumption
admits. The assumptions say that bounds are numbers, that a nil pointer is no value, and
what the code's own constants need: a period has slots (`HeaderBuilderAssumption`), a
preimage and a window are not empty (`RelayAssumption`), there are no more endpoints than
values of the counter (`SelectorAssumption`), the L2 chain has a block
(`MisbehaviourAssumption`), a timestamp fits into half the integers
(`RefreshAssumption`). TLC evaluates them for the values of each run. The bounds of
section 3 are constants as well, so none of them limits a theorem.

No property is inductive as it stands. Each proof module names an invariant `IInv` that
is, shows that it holds initially and that every action keeps it, and derives the
properties from it.

**The stream** (`HeaderChanProofs`), for every number of requests, every configured
concurrency and either kind of reader. `IInv` has nine parts, each a relation between
goroutines that the properties need and do not state: `SemCounts` (the semaphore counts
what was dispatched and not released), `WorkersStarted`, `BufferHolds` (a pointer is
stored exactly between a worker's `Store` and the sequencer's `Retire`), `ResultInHand`,
`DeliveredSoFar`, `ClosedAtEnd`, `NoLostWakeup`, `DoneCounts` (tokens come from distinct
workers that have ended) and `TypeOK`.

* `TypeCorrect`: `TypeOK`; `InOrder`: `OrderedDelivery`;
* `BoundedMemory`: `HeldWithinWindow`, as the requests held lie between `sequence` and
  `next`, whose distance the semaphore bounds;
* `SequencerAlive`: `NeverStuck`. `NoLostWakeup` is inductive because the sequencer goes
  back to waiting only after it has seen a nil pointer at `sequence`; the worker of that
  request has then not stored, and its token is still to come;
* `RefinesStream`: `Stream!SafeSpec`. `Store` maps to `Answer`, `Deliver`, `Finish` and
  `Stop` to themselves, the rest to stuttering.

**Header construction** (`HeaderBuilderProofs`), for every length and number of sync
committee periods, whatever L1 finalizes between two calls. The heart of `IInv` is what a
chain of updates looks like while it is built. `T2DShape` and `D2LShape` say that element
k is the update of period k after the first, checked by that period's committee, that it
is the beacon node's present answer for a period that is over, or the cached snapshot for
the latest, and that the cursor `trusted` is the state these updates leave;
`T2DComplete` that the finished chain ends with the claimed header. `StoreShape`,
`MetaShape` and `ClaimedShape` place client, preimage and claimed header in their
periods, `UpdatesInPeriod` the beacon node's answers; `PeriodErrors` is about the checks.

* `TypeCorrect`: `TypeOK`; `SlotsInOrder`: `SlotsOrdered`;
* `HeadersVerify`: `HeaderVerifies`. `ChainVerifies` is the lemma: a chain of one update
  per period, closed by one checked with the current committee, convinces a client whose
  committees are those of its beginning;
* `StateDeterministic`: `Deterministic`. The last update of the first chain is the one of
  the claimed block's previous period, and that period is over unless it is the first;
* `PeriodChecks`: `PeriodErrorsAtGenesisOnly`;
* `ToolsCorrect`: `ToolsVerify`, and all of the above of `ToolSpec`, where a tool may run
  in place of the function. `ToolIInv` adds that what a tool has read are updates of the
  newest preimage's period.

**Update sessions** (`RelayProofs`), for any number of relayers and preimage makers, any
chain of preimages and any number of failures. `ClientShape`: a client created on a
boundary knows exactly the boundaries from there to its latest height, any other knows
its first height only. `ListShape`: the list of a session is a segment of the chain of
preimages, however old the maker's view, and starts over the trusted height.
`SessionHasClient` and `DeliveredKnown` tie a session to the client.

* `TypeCorrect`: `TypeOK`; `HeadersConnect`: `Connected`, as a header starts where the one
  before it, or the trusted height, ends;
* `RefinesAdvance`: `Advances!SafeSpec`. A header that connects is either news, and moves
  the height to the next boundary, or one that another relayer had delivered before.

**Refresh** (in `FixedWidthProofs`), for every integer width, every bound on timestamps and
every configuration `Validate` admits with `Signed`. `IInv` adds to `TypeOK` that the last
outcome is the one its numbers call for (`Asked`, `Declined`).

* `TypeCorrect`: `TypeOK`;
* `RefreshNotDeclined`: `NotDeclined`. `ThresholdWithinPeriod` says that the threshold is
  at most the trusting period whether or not the product wraps: wrapping a natural number
  never makes it larger, and the product is at most period times denominator;
* `RefreshNotEarly`: `NotEarly`. Without a wrap the threshold is the share of the period
  rounded down, and `elapsed` is an integer above it.

**Selector** (in `FixedWidthProofs`), for any range of the counter, any number of endpoints up
to it and any finite set of concurrent callers. `SharesKept`: what was issued to an
endpoint, with the calls on their way to it, is its share of the numbers the counter went
through; a round of the counter gives every endpoint its share to one, and one more only
to the first few (`SelectorTypeCorrect`: `SelectorTypeOK`, `EvenlyShared`: `Balanced`).

**Misbehaviour tools** (`MisbehaviourProofs`), for any number of blocks, games and types of
games. `GamesKnown`, `GameChosen`: games are only added, so the one that was found stays
at its index. `ProofsMade`: a proof has the answer of the block it was made at.
`HistoryMade`: what is written.

* `TypeCorrect`: `TypeOK`; `Sealed`: `SealedProof`; `JudgedAsNamed`: `Verdicts`.

**Block search** (in `MisbehaviourProofs`), for every growing chain, every timestamp and every
limit on the walk. `Straight`: the walk is between the guess and the block, on either
side, and has made as many steps as it is away from the guess. `Exact`: on a chain with
one block time the guess is the block, as the times are multiples of it
(`RegularTimes`, by the least counterexample).

* `SearchTypeCorrect`: `SearchTypeOK`; `FoundAtOnce`: `RegularFound`; `FoundIfNear`: `NearFound`;
  `StaysInChain`: `InChain`.

**Generated code** (`CodecProofs`, `DecodingProofs`), for every width of a word, every message offered, every
order a map is ranged over and every byte that may be damaged. The argument has three layers, the first in `CodecProofs`.

*Single calls.* `IInv` is `TypeOK` and `Stack`: every call on the stack works on a slice of
bytes with its index inside, and is one that the call below it can have made.
`VarintIsRead`, `DelimitedIsRead` and `TagIsRead` say that what was written is read,
for every number; the reads stay within the slice whatever the bytes are.

* `SizeIsExact`: `SizeExact`; `TypeCorrect`: `TypeOK`; `ReadsInside`: `InBounds`.

*What a call comes to.* No induction over the decoder's recursion is available, so a call
is followed by a set: a set of calls, each with the value it is to end with, is `Closed` if
whatever one of them does next leads to calls of the set, none of them is stuck, and one at
the end of its slice has its value. A call `Decodes` to a value if it is in some closed set. Bytes
`Carries` a value to another one if, wherever they are stored, a call before them with the
first decodes to whatever the call after them with the second does; such bytes compose, so a
message is carried field by field, a list element by element, a map entry by entry, a nested
message by its own bytes (`EncodingWrites`), and any message by an unknown field to itself.

*The runs.* `Tracked` puts a stack of calls on its way to the value the outermost one is
to end with, and every step of the decoder keeps it there. For the second pass, whose
messages come out of arbitrary bytes, `PlainStack` says that what the decoder has made so
far can be written again: an external message in it is a row of fields that any decoder
steps over alike (`Plain`), because what `skipOptimism` steps over depends on nothing
behind it. `FInv` is `IInv`, `Rewritable` (the stack is plain), `Origin`, and, unless the
bytes were cut or damaged, `Leading`: no error, and the buffer or the stack stands for the goal.
It quantifies over all closed sets, so TLC cannot evaluate it; its consequences are what
the `codec` run checks.

* `WhatIsSent`: `RoundTrip`; `NewerFieldsSkipped`: `UnknownSkipped`;
* `JoinedAreMerged`: `LastWins`; `ReadAgain`: `Stable`, cut and damaged bytes included;
* `CutIsRefusedOrPartial`: `CutIsPartial`.

For the last one a decoder may fail (`Lax`; all the others are `Strict`): a call that can only
fail is then in a closed set with any value. Bytes `Breaks` a value and a message if
wherever a buffer ends in them, or at one of their ends, the call before them decodes to a
part of the message. An element does: without its tail its number or its length cannot be
read (`VarintCut`, `DelimitedCut`), which is an error, and at its ends the field is as it
was or as it is meant to be. Such bytes compose like those that carry (`BreaksConcat`), so
a message does too, and `CInv`, which adds `Lossy` to `FInv`, follows a part of what was sent
from the cut to the end of the second pass.

The assumptions about the constants: a byte is a word, and an `int32` holds the field number of a tag of one
byte (`WireAssumption`); the messages offered are messages of their kinds
(`CodecAssumption`); the encoders of external messages write whole fields and no groups, as
proto3 has none (`PayloadAssumption`). A slice is no longer than an `int` counts
(`Addressable`), in `Marshal` and on the way; an unknown field has one of the first fifteen
numbers, one of each wire type.

**Model-checked only.** Liveness (`WorkersExit`, `StreamEnds`, the fairness part of both
`Implements`, `CatchesUp`, `Refreshed`, `Terminates`) is beyond the proof system used.
Every invariant and every action property that a run shows to hold is a theorem.

## 5. What is not modelled

* Cryptography and its encodings (signatures, Merkle and account proofs, the execution
  update's root check), which enter as a call that may fail; logging and tracing.
* The light client and the preimage maker, which live in other repositories and appear
  as the environment described above. The methods of the light client in `module/types`
  panic: there is no behaviour to model.
* `ProveState` and `ProveHostConsensusState`, single calls without state.
* Of the generated code: text forms, descriptors, getters and the wrappers the codec
  registry calls. Only `Marshal`, `Size` and `Unmarshal` have anything to get wrong.
* Of the misbehaviour tools: the byte layouts of super roots, game ids and the files.
  `FindLatestGames` and the contracts are environment. The past tool may take an L1
  header older than its game, and the L1 tool two updates of different slots; neither
  breaks a statement of the repository, and what a light client makes of them is not
  there to read.
* The error of `rpc.DialOptions` that `l2_rollup.go:28` overwrites: it occurs only with an
  endpoint that cannot be parsed, alike at every call.
* Finality updates signed just past a period boundary for a slot before it, and preimage
  makers that disagree on where preimages begin and end (section 2 has both assumptions).
* Transport: a call is an answer, an error or a timeout, and is not retried.

## 6. Plan

1. *Done*: `OrderedStream`, `HeaderChan`, its proofs; `HeaderBuilder`; `Relay`.
2. *Done*: `Refresh` and its proofs.
3. *Done*: `Selector`, `BlockSearch`, `Misbehaviour`, `MisbehaviourL1`, for TLC.
4. *Done*: `Wire`, `Messages`, `Codec`, for TLC.
5. *Done*: `ClientAdvance`, refined by `Relay`, for TLC.
6. *Done*: proofs of every safety property of `Relay`, `HeaderBuilder`,
   `MisbehaviourL1`, `Misbehaviour`, `Selector` and `BlockSearch`, and of the safety part
   of both refinements.
7. *Done*: proofs of every safety property of `Codec`.
