---------------------------- MODULE MipiPackets ----------------------------
(***************************************************************************)
(* The words of a binary log: how the MIPI SyS-T builder packs a message   *)
(* (src/include/log_binary/catalog/mipi_builder.hpp, arguments.hpp) and    *)
(* how the decoder reads it back with a catalog                            *)
(* (src/python/cib/log_decode.py, mipi_messages.py).                       *)
(*                                                                         *)
(* A word is four bytes: a record of the fields the first word of a        *)
(* message has, or [type |-> "data", bytes].  A byte has ByteValues values,*)
(* so that small numbers cross the widths of the types.  An argument type  *)
(* is [size, signed, kind] with kind "number", "enum" or "class" (enum     *)
(* class).                                                                 *)
(***************************************************************************)
EXTENDS Integers, Sequences

CONSTANTS
  ByteValues,    \* 2^8
  ShortIds,      \* 2^28: the payload of a short message
  ModuleIds,     \* 2^7
  UnitIds        \* 2^4

ASSUME RangesArePositive ==
  {ByteValues, ShortIds, ModuleIds, UnitIds} \subseteq Nat \ {0}

\* What the byte after n others stands for: ByteValues^n.
weight[n \in 0 .. 8] == IF n = 0 THEN 1 ELSE ByteValues * weight[n - 1]

Bytes(value, n) == [i \in 1 .. n |-> (value \div weight[i - 1]) % ByteValues]

Unsigned(bytes) ==
  LET sum[n \in 0 .. Len(bytes)] == IF n = 0 THEN 0 ELSE sum[n - 1] + bytes[n] * weight[n - 1]
  IN sum[Len(bytes)]

Signed(bytes) ==
  LET n == Unsigned(bytes) limit == weight[Len(bytes)]
  IN IF 2 * n >= limit THEN n - limit ELSE n

----------------------------------------------------------------------------
(* Encoding. *)

\* The size of encoding<T>::pack_t; the value is converted to it.
pack_size(T) == IF T.size <= 4 THEN 4 ELSE 8

words(bytes) ==
  [w \in 1 .. Len(bytes) \div 4 |-> [type |-> "data", bytes |-> SubSeq(bytes, 4 * w - 3, 4 * w)]]

pack_arg(T, value) == words(Bytes(value, pack_size(T)))

short32(id) == <<[type |-> "Short32", id |-> id % ShortIds]>>

catalog_header(level, m, u) ==
  [type |-> "Catalog", severity |-> level, unit |-> u % UnitIds,
   module_id |-> m % ModuleIds, subtype |-> 1]

\* The header, the ID of the message, then one argument after the other.
catalog_message(level, id, m, u, types, args) ==
  LET packed[n \in 0 .. Len(types)] ==
        IF n = 0 THEN <<catalog_header(level, m, u)>> \o words(Bytes(id, 4))
        ELSE packed[n - 1] \o pack_arg(types[n], args[n])
  IN packed[Len(types)]

\* default_builder::build
build(level, id, m, u, types, args) ==
  IF types = <<>> THEN short32(id) ELSE catalog_message(level, id, m, u, types, args)

\* default_builder::build_version: one word, two, or a header and a payload, by
\* the width of the build ID and whether there is a version string.
build_version(width, named) ==
  LET subtype == IF named THEN 2 ELSE IF width <= 22 THEN 0 ELSE IF width <= 54 THEN 1 ELSE 2
  IN <<[type |-> "Build", subtype |-> subtype]>>
       \o [w \in 1 .. CASE subtype = 0 -> 0 [] subtype = 1 -> 1 [] OTHER -> 3 |->
             [type |-> "data", bytes |-> Bytes(0, 4)]]

----------------------------------------------------------------------------
(* Decoding. *)

Raised == [raised |-> TRUE]   \* an exception ends the decoding

\* {msg["id"]: msg for msg in db[...]}: the last entry with an ID counts.
Named(entries, id) == {i \in DOMAIN entries : entries[i].id = id}
look_up(entries, id) ==
  entries[CHOOSE i \in Named(entries, id) : \A j \in Named(entries, id) : j <= i]

\* convert: the first bytes of what was read, as the type.
convert(T, bytes) ==
  LET used == SubSeq(bytes, 1, T.size)
  IN IF T.signed THEN Signed(used) ELSE Unsigned(used)

\* Catalog.extract_arg: the name of an enum that is not an enum class is not in
\* format_table, and it is read as an unsigned number of the packed width.
extract_arg(T, bytes) ==
  IF T.kind = "enum" THEN Unsigned(bytes) ELSE convert(T, bytes)

\* The arguments of types, read from the words from p on; next[n] is the word
\* after the n-th.
extract_args(types, stream, p) ==
  LET next[n \in 0 .. Len(types)] ==
        IF n = 0 THEN p ELSE next[n - 1] + pack_size(types[n]) \div 4
      bytes(n) == [b \in 1 .. pack_size(types[n]) |->
                     stream[next[n - 1] + (b - 1) \div 4].bytes[((b - 1) % 4) + 1]]
      whole == \A w \in p .. next[Len(types)] - 1 : w <= Len(stream) /\ stream[w].type = "data"
  IN IF whole
     THEN [raised |-> FALSE, next |-> next[Len(types)],
           args |-> [n \in DOMAIN types |-> extract_arg(types[n], bytes(n))]]
     ELSE Raised

\* The values of a type that are read as they were written.
Fits(T, value) ==
  CASE T.kind = "enum" -> 0 <= value /\ value < weight[pack_size(T)]
    [] T.kind # "enum" /\ T.signed -> -weight[T.size] <= 2 * value /\ 2 * value < weight[T.size]
    [] OTHER -> 0 <= value /\ value < weight[T.size]

\* What the decoder prints of a message; a short one has no severity or module.
short_line(text) == [text |-> text, args |-> <<>>]
catalog_line(severity, module, text, args) ==
  [text |-> text, args |-> args, severity |-> severity, module |-> module]

decode_short(stream, p, db) ==
  IF Named(db.messages, stream[p].id) = {} THEN Raised
  ELSE [raised |-> FALSE, next |-> p + 1,
        line |-> short_line(look_up(db.messages, stream[p].id).text)]

decode_catalog(stream, p, db) ==
  LET header  == stream[p]
      id      == Unsigned(stream[p + 1].bytes)
      message == look_up(db.messages, id)
      read    == extract_args(message.args, stream, p + 2)
  IN IF \/ header.subtype # 1 \/ Named(db.modules, header.module_id) = {}
        \/ p + 1 > Len(stream) \/ stream[p + 1].type # "data"
        \/ Named(db.messages, id) = {} \/ read.raised
     THEN Raised
     ELSE [raised |-> FALSE, next |-> read.next,
           line |-> catalog_line(header.severity, look_up(db.modules, header.module_id).text,
                                 message.text, read.args)]

\* construct_msg: the first byte tells the type; there is no type "Build".
construct_msg(stream, p, db) ==
  CASE stream[p].type = "Short32" -> decode_short(stream, p, db)
    [] stream[p].type = "Catalog" -> decode_catalog(stream, p, db)
    [] OTHER -> Raised

\* read_logs: the lines of a log, ending where an exception is raised.
read_logs(stream, db) ==
  LET from[p \in 1 .. Len(stream) + 1] ==
        IF p > Len(stream) THEN <<>>
        ELSE LET message == construct_msg(stream, p, db)
             IN IF message.raised THEN <<Raised>> ELSE <<message.line>> \o from[message.next]
  IN from[1]
=============================================================================
