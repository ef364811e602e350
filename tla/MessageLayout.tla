---------------------------- MODULE MessageLayout ----------------------------
(***************************************************************************)
(* msg::field and msg::message as definitions: where fields are located,   *)
(* how much storage they take, and the messages that are made from others. *)
(* A value is the set of its bits; the bits of a storage are numbered from *)
(* the lowest of its first element.                                        *)
(***************************************************************************)
EXTENDS Integers, Sequences, SequencesExt, FiniteSetsExt, Arranging

(***************************************************************************)
(* A field is a record:                                                    *)
(*   name, type     type is the number of bits of its type                 *)
(*   ats            its locations [msb, lsb], the most significant first;  *)
(*                  none if it is not located                              *)
(*   init           "default", "const" (with_const_default, with_required),*)
(*                  "without" (without_default) or "uninitialized"         *)
(*   value          the default value                                      *)
(* A message is the sequence of its fields.                                *)
(***************************************************************************)
Locations == {a \in [msb : Nat, lsb : Nat] : a.lsb <= a.msb}

FieldsNamed(names) ==
  [name : names, type : Nat \ {0}, ats : Seq(Locations),
   init : {"default", "const", "without", "uninitialized"}, value : SUBSET Nat]

at_size(a) == a.msb - a.lsb + 1
located_bits(f) == UNION {a.lsb .. a.msb : a \in Range(f.ats)}
overlap(f, g) == located_bits(f) \cap located_bits(g) # {}

sort_key(f) == Min({a.lsb : a \in Range(f.ats)})
is_locatable(f) == f.ats # <<>>
has_default_value(f) == f.init \in {"default", "const"}
is_initializable(f) == has_default_value(f) \/ f.init = "uninitialized"
is_mutable(f) == f.init \in {"default", "without"}

names_of(fields) == {f.name : f \in Range(fields)}
has_unique_names(fields) ==
  \A n, m \in DOMAIN fields : fields[n].name = fields[m].name => n = m

----------------------------------------------------------------------------
\* bits_locator_t: a location by dword, and by element of the storage.
locator_for(a) == [index |-> a.lsb \div 32, lsb |-> a.lsb % 32, size |-> at_size(a)]

\* The element with bit b of the dword the locator starts in.
element(locator, b, elem_size) == (locator.index * 32) \div elem_size + b \div elem_size
min_idx(locator, elem_size) == element(locator, locator.lsb, elem_size)
max_idx(locator, elem_size) == element(locator, locator.lsb + locator.size - 1, elem_size)

\* A mutant: the last byte is not counted unless it is full.
full_bytes(bits) == bits \div 8
bytes_for(bits) == (bits + 7) \div 8

\* In elements, rounded up from bytes.
extent(l, elem_size) ==
  (l.index * 4 + bytes_for(l.lsb + l.size) + elem_size \div 8 - 1) \div (elem_size \div 8)

extent_in(f, elem_size) == Max({0} \cup {extent(locator_for(a), elem_size) : a \in Range(f.ats)})

storage_size(m, elem_size) == Max({0} \cup {extent_in(f, elem_size) : f \in Range(m)})

\* The assertion: one bit more than there is passes.
fits_inside(m, num_bits) ==
  \A f \in Range(m) : \A a \in Range(f.ats) : a.msb <= num_bits

----------------------------------------------------------------------------
\* Stable, as mp_sort is: before has the pairs of positions that are in order.
sorted_by(fields, before) ==
  LET Preceding(n) == {m \in DOMAIN fields :
                         <<m, n>> \in before \/ (<<n, m>> \notin before /\ m < n)}
  IN arranged(fields, [n \in DOMAIN fields |-> Cardinality(Preceding(n))])

PositionPairs(fields) == (DOMAIN fields) \X (DOMAIN fields)

field_sort_fn(f, g) == sort_key(f) < sort_key(g)

sorted_by_location(fields) ==
  sorted_by(fields, {p \in PositionPairs(fields) : field_sort_fn(fields[p[1]], fields[p[2]])})

first_of_name(fields) ==
  {n \in DOMAIN fields : \A m \in 1 .. n - 1 : fields[m].name # fields[n].name}

unique_by_name(fields) ==
  LET sorted == sorted_by_location(fields)
  IN at_positions(sorted, first_of_name(sorted))

extension(m, new_fields) == unique_by_name(new_fields \o m)

shifted_by(f, n) ==
  [f EXCEPT !.ats = [k \in DOMAIN f.ats |-> [msb |-> f.ats[k].msb + n, lsb |-> f.ats[k].lsb + n]]]

overlay(ms) == unique_by_name(FlattenSeq(ms))

\* A mutant: each message is shifted by the one before it only.
offsets_after_last(align, ms) ==
  [n \in 1 .. Len(ms) |-> IF n = 1 THEN 0 ELSE storage_size(ms[n - 1], align)]

\* In elements of align bits: the partial sums of the messages' sizes.
msg_offsets(align, ms) ==
  LET offset[n \in 1 .. Len(ms)] ==
        IF n = 1 THEN 0 ELSE offset[n - 1] + storage_size(ms[n - 1], align)
  IN offset

shifted_msg(m, n) == [k \in DOMAIN m |-> shifted_by(m[k], n)]

pack(align, ms) ==
  LET offsets == msg_offsets(align, ms)
  IN overlay([n \in DOMAIN ms |-> shifted_msg(ms[n], offsets[n] * align)])

field_size_sort_fn(f, g) == g.type < f.type
default_located(f) == [f EXCEPT !.ats = <<[msb |-> f.type - 1, lsb |-> 0]>>]

\* partition<is_locatable>
locatable_in(fields) == {n \in DOMAIN fields : is_locatable(fields[n])}
located_fields(fields) == at_positions(fields, locatable_in(fields))
unlocated_fields(fields) == at_positions(fields, DOMAIN fields \ locatable_in(fields))

sorted_by_size(fields) ==
  sorted_by(fields, {p \in PositionPairs(fields) : field_size_sort_fn(fields[p[1]], fields[p[2]])})

\* The located fields first, then the others by size, packed to bytes.
relaxed_message(fields) ==
  LET auto_fields == sorted_by_size(unlocated_fields(fields))
  IN pack(8, <<unique_by_name(located_fields(fields))>>
               \o [k \in DOMAIN auto_fields |-> <<default_located(auto_fields[k])>>])

rename_field(m, old, new_name) ==
  LET split == CHOOSE f \in Range(m) : f.name = old
      untouched == at_positions(m, {n \in DOMAIN m : m[n].name # old})
  IN unique_by_name(Append(untouched, [split EXCEPT !.name = new_name]))
=============================================================================
