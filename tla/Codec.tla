-------------------------------- MODULE Codec --------------------------------
(***************************************************************************)
(* A message of module/types or module/config on its way: one side calls   *)
(* Marshal, the buffer may be cut, joined, extended or damaged before the  *)
(* other side calls Unmarshal, and what that yields is written and read    *)
(* once more.                                                              *)
(*                                                                         *)
(* The decoder is a stack of calls: an Unmarshal for the message and for   *)
(* each nested one, the loop over a map entry, and skipOptimism, which     *)
(* looks for the end of an unknown field.  A step is one iteration of the  *)
(* loop of the topmost call.                                               *)
(***************************************************************************)
EXTENDS Messages

CONSTANTS
  Offered,     \* the messages to send, records [kind, msg]
  Payloads,    \* encodings of external messages, as their own encoder writes them
  Unknown,     \* field numbers that may be unknown to the receiver
  Damage,      \* what a damaged byte may read as
  MaxDamaged,  \* bound on the length of the buffers that are damaged
  Nil          \* no message

VARIABLES
  sent,   \* the message given to Marshal
  edit,   \* what happened to the buffer
  buf,    \* the bytes
  pass,   \* 1, or 2 after the result was written again
  calls,  \* the decoder's stack
  res,    \* "send", "wire" between Marshal and Unmarshal, "run", "ok" or "error"
  got,    \* the message returned
  first   \* the message the first pass returned

vars == <<sent, edit, buf, pass, calls, res, got, first>>

FieldsOf ==
  [L1Config |-> L1ConfigFields,
   FaultDisputeGameConfig |-> FaultDisputeGameConfigFields,
   ClientState |-> ClientStateFields,
   L1Header |-> L1HeaderFields,
   Derivation |-> DerivationFields,
   Header |-> HeaderFields,
   ConsensusState |-> ConsensusStateFields,
   FaultDisputeGameProof |-> FaultDisputeGameProofFields,
   Misbehaviour |-> MisbehaviourFields,
   FinalizedHeaderMisbehaviour |-> FinalizedHeaderMisbehaviourFields,
   NextSyncCommitteeMisbehaviour |-> NextSyncCommitteeMisbehaviourFields,
   ProverConfig |-> ProverConfigFields]

Kinds == DOMAIN FieldsOf

\* An external message, a map entry and skipOptimism have no fields of this kind.
Fields(kind) == IF kind \in Kinds THEN FieldsOf[kind] ELSE {}

IsScalar(field) == field.kind \in {"uint64", "uint32", "bool"}

\* What a field holds when nothing was read into it.
ZeroOf(field) ==
  CASE field.kind \in {"uint64", "uint32"} -> 0
    [] field.kind = "bool" -> FALSE
    [] ~IsScalar(field) -> <<>>

Names(kind) == {f.name : f \in Fields(kind)}
FieldNamed(kind, name) == CHOOSE f \in Fields(kind) : f.name = name
Zero(kind) == [name \in Names(kind) |-> ZeroOf(FieldNamed(kind, name))]

\* Is v a sequence of at most one element?
IsPointer(v) == Len(v) <= 1

\* Is v a value of the field, the messages in it being OfKind?
IsValue(field, v, OfKind(_, _)) ==
  /\ field.kind = "uint64" => v \in Uint64Values
  /\ field.kind = "uint32" => v \in Uint32Values
  /\ field.kind = "bool" => v \in BOOLEAN
  /\ field.kind \in {"bytes", "duration"} => v \in Seq(Byte)
  /\ field.kind \in {"bytes list", "external"} => v \in Seq(Seq(Byte))
  /\ field.kind \in {"message", "message list"} =>
       v \in Seq(Range(v)) /\ \A i \in DOMAIN v : OfKind(field.of, v[i])
  /\ field.kind \in {"message", "external"} => IsPointer(v)
  /\ field.kind = "map" =>
       /\ IsFiniteSet(DOMAIN v) /\ v \in [DOMAIN v -> Uint64Values]
       /\ \A k \in DOMAIN v : k \in Seq(Byte)

\* A message without and with messages in it.
Flat(kind, m) ==
  /\ m = [name \in Names(kind) |-> m[name]]
  /\ \A f \in Fields(kind) : IsValue(f, m[f.name], LAMBDA k, n : FALSE)
IsMessage(kind, m) ==
  /\ m = [name \in Names(kind) |-> m[name]]
  /\ \A f \in Fields(kind) : IsValue(f, m[f.name], Flat)

ASSUME CodecAssumption ==
  /\ \A o \in Offered : o.kind \in Kinds /\ IsMessage(o.kind, o.msg)
  /\ Unknown \subseteq 1..15  \* field numbers whose tag is one byte
  /\ Damage \subseteq Byte

Size(kind, m) ==
  CASE kind = "L1Config" -> SizeL1Config(m)
    [] kind = "FaultDisputeGameConfig" -> SizeFaultDisputeGameConfig(m)
    [] kind = "ClientState" -> SizeClientState(m)
    [] kind = "L1Header" -> SizeL1Header(m)
    [] kind = "Derivation" -> SizeDerivation(m)
    [] kind = "Header" -> SizeHeader(m)
    [] kind = "ConsensusState" -> SizeConsensusState(m)
    [] kind = "FaultDisputeGameProof" -> SizeFaultDisputeGameProof(m)
    [] kind = "Misbehaviour" -> SizeMisbehaviour(m)
    [] kind = "FinalizedHeaderMisbehaviour" -> SizeFinalizedHeaderMisbehaviour(m)
    [] kind = "NextSyncCommitteeMisbehaviour" -> SizeNextSyncCommitteeMisbehaviour(m)
    [] kind = "ProverConfig" -> SizeProverConfig(m)

\* The encodings of a message: a map's entries may come in any order.
ToSizedBuffer(kind, m) ==
  CASE kind = "L1Config" -> {MarshalL1Config(m)}
    [] kind = "FaultDisputeGameConfig" -> {MarshalFaultDisputeGameConfig(m)}
    [] kind = "ClientState" -> {MarshalClientState(m)}
    [] kind = "L1Header" -> {MarshalL1Header(m)}
    [] kind = "Derivation" -> {MarshalDerivation(m)}
    [] kind = "Header" -> {MarshalHeader(m)}
    [] kind = "ConsensusState" -> {MarshalConsensusState(m)}
    [] kind = "FaultDisputeGameProof" -> {MarshalFaultDisputeGameProof(m)}
    [] kind = "Misbehaviour" -> {MarshalMisbehaviour(m)}
    [] kind = "FinalizedHeaderMisbehaviour" -> {MarshalFinalizedHeaderMisbehaviour(m)}
    [] kind = "NextSyncCommitteeMisbehaviour" -> {MarshalNextSyncCommitteeMisbehaviour(m)}
    [] kind = "ProverConfig" ->
         {MarshalProverConfig(m, order) : order \in SetToSeqs(DOMAIN m.MinimalForkSched)}

\* The length of a slice is an int.
Addressable(bytes) == Len(bytes) < Pow2[Word - 1]

\* Marshal fills a buffer of Size bytes from its end and returns as many bytes of
\* it, from the beginning, as were written; there is no result (a panic) if the
\* buffer is too small or cannot be made.
Marshal(kind, m) ==
  {SubSeq([i \in 1..(Size(kind, m) - Len(w)) |-> 0] \o w, 1, Len(w)) :
     w \in {b \in ToSizedBuffer(kind, m) : Size(kind, m) \in Len(b)..(Pow2[Word - 1] - 1)}}

-----------------------------------------------------------------------------
Init ==
  /\ sent \in Offered
  /\ edit = [what |-> "none", with |-> Nil]
  /\ buf = <<>>
  /\ pass = 1
  /\ calls = <<>>
  /\ res = "send"
  /\ got = Nil
  /\ first = Nil

\* Marshal is called, in the second pass with what Unmarshal returned.
Encode ==
  /\ res = "send"
  /\ buf' \in Marshal(sent.kind, IF pass = 1 THEN sent.msg ELSE first)
  /\ res' = "wire"
  /\ UNCHANGED <<sent, edit, pass, calls, got, first>>

-----------------------------------------------------------------------------
(* What may happen to the bytes (external).                                *)

Edited(what, with, bytes) ==
  /\ res = "wire" /\ pass = 1 /\ edit.what = "none"
  /\ Addressable(bytes)
  /\ edit' = [what |-> what, with |-> with]
  /\ buf' = bytes
  /\ UNCHANGED <<sent, pass, calls, res, got, first>>

\* The tail is lost.
Cut(n) == n < Len(buf) /\ Edited("cut", Nil, SubSeq(buf, 1, n))

\* Another message of the same kind follows in the same buffer.
Join(other) ==
  /\ other.kind = sent.kind
  /\ \E bytes \in Marshal(other.kind, other.msg) : Edited("join", other.msg, buf \o bytes)

\* The encodings of a field n: a varint, eight bytes, bytes, a group in a group and
\* four bytes.
FieldOf(n) ==
  {<<8*n, 1>>, <<8*n, 129, 1>>, <<8*n + 1, 8, 0, 0, 0, 0, 0, 0, 0>>, <<8*n + 2, 2, 8, 8>>,
   <<8*n + 3, 8, 9, 11, 21, 0, 0, 0, 0, 12, 8*n + 4>>, <<8*n + 5, 8, 0, 0, 0>>}

\* The sender is of a version with a field the receiver does not know.
Extend(n) ==
  /\ n \notin {f.num : f \in Fields(sent.kind)}
  /\ \E bytes \in FieldOf(n) :
       Edited("extend", Nil, bytes \o buf) \/ Edited("extend", Nil, buf \o bytes)

\* A byte is damaged.
Corrupt(i, byte) ==
  /\ Len(buf) <= MaxDamaged
  /\ byte # buf[i]
  /\ Edited("corrupt", Nil, [buf EXCEPT ![i] = byte])

-----------------------------------------------------------------------------
(* Unmarshal.                                                              *)

\* A call of the decoder: the field of the caller it fills, the value so far, the
\* slice it is given, iNdEx, and where its loop ends.
Call(kind, field, val, data, at, end) ==
  [kind |-> kind, field |-> field, val |-> val, data |-> data, at |-> at, end |-> end]

Top == Last(calls)
Below == Front(calls)
Continue(call) == calls' = Append(Below, call)
Entry == Field(0, "", "entry", "")

\* The call goes on with another value from another index.
Moved(c, val, at) == Call(c.kind, c.field, val, c.data, at, c.end)

Unmarshal ==
  /\ res = "wire"
  /\ calls' = <<Call(sent.kind, Entry, Zero(sent.kind), buf, 0, Len(buf))>>
  /\ res' = "run"
  /\ UNCHANGED <<sent, edit, buf, pass, got, first>>

Fail ==
  /\ calls' = <<>>
  /\ res' = "error"
  /\ UNCHANGED <<sent, edit, buf, pass, got, first>>

\* Stays in the loops.
Running == UNCHANGED <<sent, edit, buf, pass, res, got, first>>

\* The tag at iNdEx, if it is legal; the loop over a map entry accepts any.
Tags(c) ==
  {t \in ReadTag(c.data, c.at) : c.kind = "MapEntry" \/ (t.type # 4 /\ t.num > 0)}

InLoop == res = "run" /\ Top.at < Top.end /\ Top.kind # "skip"

\* The case of the switch that handles a tag, if there is one.
Case(c, t) == {f \in Fields(c.kind) : f.num = t.num}

\* The number in a scalar field.
Scalars(c, t, field) ==
  {[value |-> CASE field.kind = "uint64" -> v.value
                [] field.kind = "uint32" -> v.value % Pow2[Half]
                [] field.kind = "bool" -> v.value # 0,
    at |-> v.at] : v \in {r \in ReadVarint(c.data, t.at) : t.type = 0}}

\* The bytes of any other field.
Contents(c, t) == {d \in ReadDelimited(c.data, t.at) : t.type = 2}

Scalar ==
  /\ InLoop
  /\ \E t \in Tags(Top) : \E field \in Case(Top, t) :
       /\ IsScalar(field)
       /\ \E v \in Scalars(Top, t, field) :
            Continue(Moved(Top, [Top.val EXCEPT ![field.name] = v.value], v.at))
  /\ Running

\* Bytes are replaced, a slice of bytes grows.
String ==
  /\ InLoop
  /\ \E t \in Tags(Top) : \E field \in Case(Top, t), d \in Contents(Top, t) :
       LET bytes == Slice(Top.data, d)
           value == IF field.kind = "bytes" THEN bytes ELSE Append(Top.val[field.name], bytes)
       IN  /\ field.kind \in {"bytes", "bytes list"}
           /\ Continue(Moved(Top, [Top.val EXCEPT ![field.name] = value], d.post))
  /\ Running

\* Faulty variant of Started (LastWins): a message that comes twice is read into a
\* new one.
StartedAnew(field, old) ==
  CASE field.kind \in {"message", "message list"} -> Zero(field.of)
    [] OTHER -> <<>>

\* Where the Unmarshal of a nested message starts from: a pointer that is set keeps
\* what was read before, an element of a slice and a duration are new.
Started(field, old) ==
  CASE field.kind = "message list" -> Zero(field.of)
    [] field.kind = "message" -> IF old = <<>> THEN Zero(field.of) ELSE Head(old)
    [] field.kind = "external" -> IF old = <<>> THEN <<>> ELSE Head(old)
    [] field.kind = "duration" -> <<>>

\* A nested message: its Unmarshal gets its slice, and iNdEx moves to postIndex.
Nested ==
  /\ InLoop
  /\ \E t \in Tags(Top) : \E field \in Case(Top, t), d \in Contents(Top, t) :
       LET data == Slice(Top.data, d)
       IN  /\ field.kind \in {"message", "message list", "external", "duration"}
           /\ calls' = Below \o
                <<Moved(Top, Top.val, d.post),
                  Call(field.of, field, Started(field, Top.val[field.name]), data, 0, Len(data))>>
  /\ Running

\* A map entry is read in the slice of the message, up to postIndex.
OpenEntry ==
  /\ InLoop
  /\ \E t \in Tags(Top) : \E field \in Case(Top, t), d \in Contents(Top, t) :
       /\ field.kind = "map"
       /\ calls' = Below \o
            <<Moved(Top, Top.val, d.post),
              Call(field.of, field, [key |-> <<>>, value |-> 0], Top.data, d.from, d.post)>>
  /\ Running

\* The wire type is not looked at, the key may run past the entry, and a value is
\* joined to the one before.
EntryKey ==
  /\ InLoop /\ Top.kind = "MapEntry"
  /\ \E t \in Tags(Top) : \E d \in ReadDelimited(Top.data, t.at) :
       /\ t.num = 1
       /\ Continue(Moved(Top, [key |-> Slice(Top.data, d), value |-> Top.val.value], d.post))
  /\ Running

EntryValue ==
  /\ InLoop /\ Top.kind = "MapEntry"
  /\ \E t \in Tags(Top) : \E v \in ReadVarint(Top.data, t.at) :
       /\ t.num = 2
       /\ Continue(Moved(Top, [key |-> Top.val.key, value |-> Or(Top.val.value, v.value)], v.at))
  /\ Running

\* Is the field one of those that skipOptimism steps over?
Skipped(c, t) == Case(c, t) = {} /\ ~(c.kind = "MapEntry" /\ t.num \in {1, 2})

OpenSkip ==
  /\ InLoop
  /\ \E t \in Tags(Top) : Skipped(Top, t)
  /\ LET data == SubSeq(Top.data, Top.at + 1, Len(Top.data))
     IN  calls' = Append(calls, Call("skip", Entry, 0, data, 0, Len(data)))
  /\ Running

\* An error in the loop: an illegal tag, a wrong wire type, a number or length that
\* does not end or does not fit.
Malformed ==
  /\ InLoop
  /\ \A t \in Tags(Top) :
       \/ \E field \in Case(Top, t) :
            IF IsScalar(field) THEN Scalars(Top, t, field) = {} ELSE Contents(Top, t) = {}
       \/ Top.kind = "MapEntry" /\ t.num = 1 /\ ReadDelimited(Top.data, t.at) = {}
       \/ Top.kind = "MapEntry" /\ t.num = 2 /\ ReadVarint(Top.data, t.at) = {}
  /\ Fail

\* An external message is refused by its own Unmarshal, for reasons of its own.
Refused ==
  /\ res = "run" /\ pass = 1
  /\ Top.kind = "external" /\ Top.at = 0
  /\ Top.data \notin Payloads
  /\ Fail

-----------------------------------------------------------------------------
(* skipOptimism and skipConfig: the value of the call is the depth.        *)

\* Faulty variant (UnknownSkipped): four bytes are taken for eight.
PastWide(c, t) ==
  CASE t.type = 0 -> {v.at : v \in ReadVarint(c.data, t.at)}
    [] t.type \in {1, 5} -> {t.at + 8}
    [] t.type = 2 -> {Wrap(v.at + v.value) : v \in {r \in ReadVarint(c.data, t.at) :
                                                      Signed(r.value, Word) >= 0}}
    [] t.type \in {3, 4} -> {t.at}
    [] t.type \in {6, 7} -> {}

\* The index after an element, which may lie past the end.
Past(c, t) ==
  CASE t.type = 0 -> {v.at : v \in ReadVarint(c.data, t.at)}
    [] t.type = 1 -> {t.at + 8}
    [] t.type = 2 -> {Wrap(v.at + v.value) : v \in {r \in ReadVarint(c.data, t.at) :
                                                      Signed(r.value, Word) >= 0}}
    [] t.type \in {3, 4} -> {t.at}
    [] t.type = 5 -> {t.at + 4}
    [] t.type \in {6, 7} -> {}

\* One field of an external message, whatever follows it: neither proto3 nor its
\* encoders know groups.
IsField(bytes) ==
  \E t \in ReadTag(bytes, 0) :
    /\ t.num > 0 /\ t.type \notin {3, 4}
    /\ Len(bytes) \in Past(Call("skip", Entry, 0, bytes, 0, Len(bytes)), t)

\* An encoding is one field after the other.
IsEncoding(bytes) ==
  /\ bytes \in Seq(Byte)
  /\ \E ends \in SUBSET (0..Len(bytes)) :
       /\ {0, Len(bytes)} \subseteq ends
       /\ \A i \in ends \ {Len(bytes)} : \E j \in ends : i < j /\ IsField(SubSeq(bytes, i + 1, j))

\* The external messages in a field are all from a set, and so are those in a message.
FieldFrom(S, field, v) ==
  /\ field.kind = "external" => Range(v) \subseteq S
  /\ field.kind = "duration" => v \in S
FlatFrom(S, kind, m) == \A f \in Fields(kind) : FieldFrom(S, f, m[f.name])
From(S, kind, m) ==
  \A f \in Fields(kind) :
    /\ FieldFrom(S, f, m[f.name])
    /\ f.kind \in {"message", "message list"} =>
         \A i \in DOMAIN m[f.name] : FlatFrom(S, f.of, m[f.name][i])

\* The encoders of external messages write whole fields, and theirs are the messages
\* in what is sent.
ASSUME PayloadAssumption ==
  /\ \A bytes \in Payloads : IsEncoding(bytes)
  /\ \A o \in Offered : From(Payloads, o.kind, o.msg)

Depth(c, t) == c.val + (IF t.type = 3 THEN 1 ELSE IF t.type = 4 THEN -1 ELSE 0)

\* One element: where it ends and how many groups are open then.
Elements(c) ==
  {e \in UNION {{[at |-> i, depth |-> Depth(c, t)] : i \in Past(c, t)} : t \in ReadTag(c.data, c.at)} :
     e.at >= 0 /\ e.depth >= 0}

SkipMore ==
  /\ res = "run" /\ Top.kind = "skip"
  /\ \E e \in Elements(Top) :
       /\ e.depth > 0 /\ e.at < Top.end
       /\ Continue(Moved(Top, e.depth, e.at))
  /\ Running

\* Faulty variants of Resumed: the caller does not check the end (InBounds), or
\* does not move on (Terminates).
ResumedUnchecked(c, n) == {i \in {Wrap(c.at + n)} : c.kind = "external" => i \in 0..Len(c.data)}
ResumedInPlace(c, n) == {c.at}

\* The caller of skipOptimism moves past the field.
Resumed(c, n) ==
  {i \in {Wrap(c.at + n)} : i >= 0 /\ i <= (IF c.kind = "MapEntry" THEN c.end ELSE Len(c.data))}

\* The field ends: an external message keeps its bytes, any other drops them.
SkipEnds ==
  /\ res = "run" /\ Top.kind = "skip"
  /\ \E e \in Elements(Top) :
       LET c == Last(Below)
       IN  /\ e.depth = 0
           /\ \E i \in Resumed(c, e.at) :
                calls' = Append(Front(Below),
                  Moved(c, IF c.kind = "external" THEN c.val \o SubSeq(c.data, c.at + 1, i)
                           ELSE c.val, i))
  /\ Running

SkipFails ==
  /\ res = "run" /\ Top.kind = "skip"
  /\ \A e \in Elements(Top) :
       IF e.depth = 0 THEN Resumed(Last(Below), e.at) = {} ELSE e.at >= Top.end
  /\ Fail

-----------------------------------------------------------------------------
\* The value of the caller's field after a nested call.
Filled(old, c) ==
  CASE c.field.kind \in {"message", "external"} -> <<c.val>>
    [] c.field.kind = "message list" -> Append(old, c.val)
    [] c.field.kind = "duration" -> c.val
    [] c.field.kind = "map" -> [k \in DOMAIN old \cup {c.val.key} |-> IF k = c.val.key THEN c.val.value ELSE old[k]]

\* The loop of a nested call has ended.
Return ==
  /\ res = "run" /\ Len(calls) > 1
  /\ Top.kind # "skip" /\ Top.at >= Top.end
  /\ LET c == Last(Below)
         name == Top.field.name
     IN  calls' = Append(Front(Below),
           Moved(c, [c.val EXCEPT ![name] = Filled(c.val[name], Top)], c.at))
  /\ Running

\* The outermost loop has ended.
Done ==
  /\ res = "run" /\ Len(calls) = 1
  /\ Top.at >= Top.end
  /\ calls' = <<>>
  /\ res' = "ok"
  /\ got' = Top.val
  /\ UNCHANGED <<sent, edit, buf, pass, first>>

\* What was read is written again.
Again ==
  /\ res = "ok" /\ pass = 1
  /\ pass' = 2
  /\ first' = got
  /\ got' = Nil
  /\ res' = "send"
  /\ UNCHANGED <<sent, edit, buf, calls>>

Finished == res = "error" \/ (pass = 2 /\ res = "ok")
Terminated == Finished /\ UNCHANGED vars

Wired ==
  \/ \E n \in 0..Len(buf) : Cut(n)
  \/ \E other \in Offered : Join(other)
  \/ \E n \in Unknown : Extend(n)
  \/ \E i \in DOMAIN buf, byte \in Damage : Corrupt(i, byte)

Decode ==
  \/ Encode \/ Unmarshal \/ Scalar \/ String \/ Nested \/ OpenEntry \/ EntryKey \/ EntryValue
  \/ OpenSkip \/ Malformed \/ Refused \/ SkipMore \/ SkipEnds \/ SkipFails
  \/ Return \/ Done \/ Again

Next == Wired \/ Decode \/ Terminated

\* Marshal and Unmarshal run in one goroutine each, which goes on.
Spec == Init /\ [][Next]_vars /\ WF_vars(Decode)

-----------------------------------------------------------------------------
\* The values of every variable; what Unmarshal returns is a message of its type,
\* its numbers within their width.
TypeOK ==
  /\ sent.kind \in Kinds /\ IsMessage(sent.kind, sent.msg)
  /\ edit.what \in {"none", "cut", "join", "extend", "corrupt"}
  /\ buf \in Seq(Byte)
  /\ pass \in 1..2
  /\ res \in {"send", "wire", "run", "ok", "error"}
  /\ (calls # <<>>) <=> (res = "run")
  /\ IF res = "ok" THEN IsMessage(sent.kind, got) ELSE got = Nil
  /\ IF pass = 2 THEN IsMessage(sent.kind, first) ELSE first = Nil

\* Size counts, byte for byte, what Marshal writes: a buffer too small is a panic,
\* one too large loses the end of the message.
SizeExact ==
  edit.what = "none" /\ pass = 1 =>
    \A bytes \in ToSizedBuffer(sent.kind, sent.msg) : Size(sent.kind, sent.msg) = Len(bytes)

\* What is sent is what is received, for every kind of message and every order of a
\* map's entries: tags, cases and sizes agree.
RoundTrip ==
  edit.what = "none" => res # "error" /\ (res = "ok" => got = sent.msg)

\* Fields of a newer or an older sender leave no trace, whatever their wire type.
UnknownSkipped ==
  edit.what = "extend" => res # "error" /\ (res = "ok" => got = sent.msg)

\* How the fields of two messages come together in one buffer.
MergedField(f, a, b, Sub(_, _, _)) ==
  CASE f.kind = "duration" -> b
    [] f.kind \in {"bytes list", "message list"} -> a \o b
    [] f.kind = "map" ->
         [k \in DOMAIN a \cup DOMAIN b |-> IF k \in DOMAIN b THEN b[k] ELSE a[k]]
    [] f.kind \in {"message", "external"} /\ (a = <<>> \/ b = <<>>) -> a \o b
    [] f.kind = "message" /\ a # <<>> /\ b # <<>> -> <<Sub(f.of, Head(a), Head(b))>>
    [] f.kind = "external" /\ a # <<>> /\ b # <<>> -> <<Head(a) \o Head(b)>>
    [] OTHER -> IF b = ZeroOf(f) THEN a ELSE b

Merged(kind, m, n, Sub(_, _, _)) ==
  [name \in DOMAIN m |->
     MergedField(FieldNamed(kind, name), m[name], n[name], Sub)]

MergedFlat(kind, m, n) == Merged(kind, m, n, LAMBDA k, a, b : a)

\* Two messages in one buffer are merged: the later number or string wins, lists
\* grow, nested messages are merged in turn, durations are replaced.
LastWins ==
  edit.what = "join" =>
    res # "error" /\ (res = "ok" => got = Merged(sent.kind, sent.msg, edit.with, MergedFlat))

\* A field of a message that was cut is whole, absent or, if it is a list or a map,
\* without its last elements.
PartOf(f, a, b) ==
  \/ a = b
  \/ a = ZeroOf(f)
  \/ f.kind \in {"bytes list", "message list"} /\ IsPrefix(a, b)
  \/ f.kind = "map" /\ \A k \in DOMAIN a : k \in DOMAIN b /\ a[k] = b[k]

\* A message that lost its tail is refused or lacks fields, but never holds a value
\* that was not sent.
CutIsPartial ==
  edit.what = "cut" /\ res = "ok" =>
    \A f \in Fields(sent.kind) : PartOf(f, got[f.name], sent.msg[f.name])

\* Whatever the bytes were, what Unmarshal made of them can be written and read
\* again without change.
Stable == pass = 2 => res # "error" /\ (res = "ok" => got = first)

\* No call reads outside its slice.
InBounds == \A i \in DOMAIN calls : calls[i].at \in 0..Len(calls[i].data)

\* Unmarshal returns, whatever the bytes are.
Terminates == <>Finished
=============================================================================
