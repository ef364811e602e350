------------------------------ MODULE MCStorage ------------------------------
(***************************************************************************)
(* Instances of MessageStorage for TLC, after test/msg/message.cpp,        *)
(* test/msg/field_insert.cpp and the MIPI messages of the binary log.      *)
(***************************************************************************)
EXTENDS MessageStorage

CONSTANTS a, b, c, d, e, x, y, z

at(msb, lsb) == [msb |-> msb, lsb |-> lsb]

located(name, type, ats) ==
  [name |-> name, type |-> type, ats |-> ats, init |-> "default", value |-> {}]

const(f, value) == [f EXCEPT !.init = "const", !.value = value]
without_default(f) == [f EXCEPT !.init = "without"]
uninitialized(f) == [f EXCEPT !.init = "uninitialized"]

\* A field of 64 bits that begins and ends within bytes.
Long == <<located(a, 64, <<at(65, 2)>>), located(b, 8, <<at(1, 0)>>),
          without_default(located(c, 8, <<at(71, 66)>>))>>

\* The bits 54 .. 34 and 3 .. 0 in one field, out of order, around another.
Split == <<located(a, 32, <<at(3, 0), at(54, 34)>>), located(b, 32, <<at(33, 4)>>)>>

\* defn::compact64_build_msg_t.
Build == <<const(located(a, 8, <<at(3, 0)>>), {0}), const(located(b, 8, <<at(29, 24)>>), {1}),
           located(c, 64, <<at(63, 32), at(31, 30), at(23, 4)>>)>>

\* Two fields to a byte, one of them wider than its locations.
Nibbles == <<located(d, 32, <<at(3, 0)>>), uninitialized(located(e, 8, <<at(7, 4)>>))>>

Small == <<located(x, 8, <<at(9, 7)>>)>>

Messages == {Long, Split, Build, Nibbles, Small, <<>>}

NewFields ==
  { <<located(d, 16, <<at(19, 8)>>)>>, <<located(y, 32, <<at(40, 33)>>), located(x, 8, <<at(2, 0)>>)>> }

Autos ==
  { <<located(y, 8, <<>>), const(located(z, 32, <<>>), {0, 31})>>, <<located(y, 16, <<>>)>> }

Renaming == {[old |-> a, new |-> z], [old |-> d, new |-> y]}

Given == {{n \in 0 .. 63 : n % 3 # 1}}
Patterns == {{}, {n \in 0 .. 63 : n % 4 # 1}}

Contents == {{n \in 0 .. 31 : n % 5 \in {0, 3}}}

\* These messages are among those that GetsWhatWasSet is proved for.
ASSUME MessagesNameBitsOnce == NoBitTwice
=============================================================================
