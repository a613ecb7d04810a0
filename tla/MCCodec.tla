------------------------------ MODULE MCCodec ------------------------------
(* Codec with messages that have one field set, or all of them.            *)
EXTENDS Codec

MCPayloads == {<<>>, <<8, 1>>, <<10, 1, 5>>}

\* Values for a field: one and two bytes of varint, the largest, empty and
\* repeated messages.
Leaves(f) ==
  CASE f.kind = "uint64" -> {1, 300, Pow2[Word] - 1}
    [] f.kind = "uint32" -> {1, 200}
    [] f.kind = "bool" -> {TRUE}
    [] f.kind = "bytes" -> {<<9>>, <<0, 128>>}
    [] f.kind = "bytes list" -> {<< <<>> >>, << <<5>>, <<6, 7>> >>}
    [] f.kind = "duration" -> {<<8, 1>>}
    [] f.kind = "external" -> {<< <<>> >>, << <<8, 1>> >>}
    [] f.kind = "map" -> {<<1>> :> 0, (<<1>> :> 300) @@ (<<2>> :> 1)}
    [] OTHER -> {}

Full(kind, Values(_)) ==
  [name \in Names(kind) |-> CHOOSE v \in Values(FieldNamed(kind, name)) : TRUE]

Samples(f) ==
  CASE f.kind = "message" -> {<<Zero(f.of)>>, <<Full(f.of, Leaves)>>}
    [] f.kind = "message list" -> {<<Full(f.of, Leaves)>>, <<Zero(f.of), Full(f.of, Leaves)>>}
    [] OTHER -> Leaves(f)

MessagesOf(kind) ==
  {Zero(kind), Full(kind, Samples)}
  \cup UNION {{[Zero(kind) EXCEPT ![f.name] = v] : v \in Samples(f)} : f \in Fields(kind)}

\* And one whose length takes two bytes.
Long == [Zero("Derivation") EXCEPT !.L2OutputRoot = [i \in 1..130 |-> 8]]

MCOffered ==
  {[kind |-> "Derivation", msg |-> Long]}
  \cup UNION {{[kind |-> k, msg |-> m] : m \in MessagesOf(k)} : k \in Kinds}
=============================================================================
