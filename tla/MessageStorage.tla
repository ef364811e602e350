--------------------------- MODULE MessageStorage ---------------------------
(***************************************************************************)
(* A message definition is made from others; a message of it owns storage  *)
(* of its own or is a view of storage the program brings along, over       *)
(* elements of 8, 16 or 32 bits; and its fields are set.  A field is       *)
(* written location by location and element by element, and must come back *)
(* as it was, beside the fields that share its elements.                   *)
(***************************************************************************)
EXTENDS MessageLayout

CONSTANTS
  Definitions,   \* messages that are defined at first, and packed
  Extensions,    \* sequences of fields that a message is extended by
  Unlocated,     \* sequences of fields without location
  Renames,       \* [old, new]
  Alignments,    \* numbers of bits that messages are packed to
  ElemSizes,     \* numbers of bits of a storage element
  Spare,         \* how many elements the storage has beyond what the message takes
  Lengths,       \* how many elements a storage has that is copied
  Brought,       \* the content of storage that the program brings: bits of each element
  GivenValues,   \* the values fields are constructed with
  NewValues,     \* the values fields are set to
  MaxGiven,      \* how many fields are given values at most
  MaxOps,        \* how often a definition is made from another
  MaxSets        \* how often fields are set

ASSUME StorageBounds == MaxGiven \in Nat /\ MaxOps \in Nat /\ MaxSets \in Nat

Names ==
  {r.new : r \in Renames}
    \cup UNION {names_of(m) : m \in Definitions \cup Extensions \cup Unlocated}

DefinedFields == FieldsNamed(Names)
LocatedFields == {f \in DefinedFields : is_locatable(f)}

ASSUME FieldTypes ==
  /\ Definitions \cup Extensions \subseteq Seq(LocatedFields)
  /\ Unlocated \subseteq Seq(DefinedFields)

ASSUME StorageTypes ==
  /\ Alignments \cup ElemSizes \subseteq {8, 16, 32}
  /\ Spare \subseteq Int
  /\ GivenValues \cup NewValues \subseteq SUBSET Nat

VARIABLES
  phase,
  message,      \* the fields of the message
  apart,        \* pairs of names of fields that were packed side by side
  ops,
  elem_size,
  storage,
  queue,        \* the fields that are yet to be inserted, with their values
  insertion,    \* how far the first of them has come
  content,      \* what each field was set to last
  sets

definition == <<message, apart, ops>>
storage_vars == <<phase, definition, elem_size, storage, queue, insertion, content, sets>>

no_insertion == [left |-> 0, raw |-> {}, lsb |-> 0, value |-> {}, busy |-> FALSE]

StorageInit ==
  /\ phase = "define"
  /\ message \in {unique_by_name(m) : m \in Definitions}
  /\ apart = {}
  /\ ops = 0
  /\ elem_size \in ElemSizes
  /\ storage = <<>>
  /\ queue = <<>>
  /\ insertion = no_insertion
  /\ content = <<>>
  /\ sets = 0

----------------------------------------------------------------------------
Define(fields) ==
  /\ phase = "define" /\ ops < MaxOps
  /\ message' = fields
  /\ ops' = ops + 1
  /\ UNCHANGED <<phase, elem_size, storage, queue, insertion, content, sets>>

Pairs(A, B) == (A \X B) \cup (B \X A)

Extend ==
  \E fields \in Extensions :
    /\ has_unique_names(fields)
    /\ Define(extension(message, fields))
    /\ apart' = {p \in apart : {p[1], p[2]} \cap names_of(fields) = {}}

Pack ==
  \E m \in Definitions, align \in Alignments :
    /\ names_of(m) \cap names_of(message) = {}
    /\ Define(pack(align, <<message, unique_by_name(m)>>))
    /\ apart' = apart \cup Pairs(names_of(message), names_of(m))

\* Laid over each other from bit 0: nothing keeps the fields apart.
Overlay ==
  \E m \in Definitions :
    /\ names_of(m) \cap names_of(message) = {}
    /\ Define(overlay(<<message, m>>))
    /\ UNCHANGED apart

Relax ==
  \E fields \in Unlocated :
    /\ has_unique_names(fields \o message)
    /\ Define(relaxed_message(fields \o message))
    /\ LET auto == {f \in Range(fields) : ~is_locatable(f)}
       IN apart' = apart \cup
            {p \in names_of(message') \X names_of(message') :
               p[1] # p[2] /\ \E f \in auto : f.name \in {p[1], p[2]}}

Rename ==
  \E r \in Renames :
    /\ r.old \in names_of(message) /\ r.new \notin names_of(message)
    /\ Define(rename_field(message, r.old, r.new))
    /\ LET Renamed(n) == IF n = r.old THEN r.new ELSE n
       IN apart' = {<<Renamed(p[1]), Renamed(p[2])>> : p \in apart}

----------------------------------------------------------------------------
\* The value of a field's type, and what of it the locations have room for.
sizes_to(ats) ==
  LET size[k \in 0 .. Len(ats)] == IF k = 0 THEN 0 ELSE size[k - 1] + at_size(ats[k])
  IN size

field_size(f) == sizes_to(f.ats)[Len(f.ats)]
typed(f, v) == v \cap (0 .. f.type - 1)
stored(f, v) == v \cap (0 .. field_size(f) - 1)

Insertion(f, v) == [field |-> f, value |-> typed(f, v)]

Insertions(given) ==
  LET values == at_positions(message, {k \in DOMAIN message : message[k].name \in DOMAIN given})
  IN [k \in DOMAIN values |-> Insertion(values[k], given[values[k].name])]

Field(n) == CHOOSE f \in Range(message) : f.name = n

\* The values that fields may be given in the constructor.
Givens ==
  UNION {[g -> GivenValues] :
           g \in {h \in SUBSET {f.name : f \in {f \in Range(message) : is_mutable(f)}} :
                    Cardinality(h) <= MaxGiven}}

ShiftedLeft(v, n) == {b + n : b \in v}
ShiftedRight(v, n) == {b - n : b \in {c \in v : c >= n}}

\* A value that is put together from what each location has, the first location
\* being the most significant.
joined(ats, parts) ==
  LET raw[k \in 0 .. Len(ats)] ==
        IF k = 0 THEN {} ELSE ShiftedLeft(raw[k - 1], at_size(ats[k])) \cup parts[k]
  IN raw[Len(ats)]

\* What a field is in some storage, if its bits are taken one by one.
bit(elems, b) == b \div elem_size \in DOMAIN elems /\ b % elem_size \in elems[b \div elem_size]
bits_at(a, elems) == {b - a.lsb : b \in {c \in a.lsb .. a.msb : bit(elems, c)}}
reading(f, elems) == joined(f.ats, [k \in DOMAIN f.ats |-> bits_at(f.ats[k], elems)])

\* A message comes to be: its storage, and what is set in it at once.
Construct(elems, insertions) ==
  /\ phase' = "insert"
  /\ storage' = elems
  /\ queue' = insertions
  /\ content' = [n \in names_of(message) |-> reading(Field(n), elems)]
  /\ UNCHANGED <<definition, elem_size, insertion, sets>>

\* A storage that lets the assertion of view_t and owner_t pass.
Sizes == {storage_size(message, elem_size) + n : n \in Spare}
HasRoom(n_elems) == fits_inside(message, n_elems * elem_size)

\* owner_t: zeros, then the defaults in order, then the values that are given.
Own ==
  /\ phase = "define"
  /\ \E n_elems \in Sizes, given \in Givens :
       /\ \A f \in Range(message) : is_initializable(f) \/ f.name \in DOMAIN given
       /\ HasRoom(n_elems)
       /\ LET defaults == at_positions(message, {k \in DOMAIN message : has_default_value(message[k])})
          IN Construct([e \in 0 .. n_elems - 1 |-> {}],
                       [k \in DOMAIN defaults |-> Insertion(defaults[k], defaults[k].value)]
                         \o Insertions(given))

\* view_t: the storage of the program, or of an owning message, as it is; values
\* that are given are set as by Set.
View ==
  /\ phase = "define"
  /\ \E n_elems \in Sizes, elem \in Brought :
       /\ HasRoom(n_elems)
       /\ Construct([e \in 0 .. n_elems - 1 |-> elem \cap (0 .. elem_size - 1)], <<>>)

\* owner_t over a storage, as_owning: no defaults; what was not brought is zero.
OwnCopy ==
  /\ phase = "define"
  /\ \E n_brought \in Lengths, n_elems \in Sizes, elem \in Brought :
       /\ HasRoom(n_elems)
       /\ Construct([e \in 0 .. n_elems - 1 |->
                       IF e < n_brought THEN elem \cap (0 .. elem_size - 1) ELSE {}], <<>>)

Set ==
  /\ phase = "insert" /\ queue = <<>>
  /\ sets < MaxSets
  /\ \E f \in Range(message), v \in NewValues :
       /\ is_mutable(f)
       /\ queue' = <<Insertion(f, v)>>
  /\ sets' = sets + 1
  /\ UNCHANGED <<phase, definition, elem_size, storage, insertion, content>>

\* set with the name of a field: its default, if it has one.
SetDefault ==
  /\ phase = "insert" /\ queue = <<>>
  /\ sets < MaxSets
  /\ \E f \in Range(message) : has_default_value(f) /\ queue' = <<Insertion(f, f.value)>>
  /\ sets' = sets + 1
  /\ UNCHANGED <<phase, definition, elem_size, storage, insertion, content>>

----------------------------------------------------------------------------
field == Head(queue).field

\* A mutant: the locations are written from the first to the last.
first_locator_first(ats, left) == locator_for(ats[Len(ats) + 1 - left])
next_locator(ats, left) == locator_for(ats[left])

locator == next_locator(field.ats, insertion.left)

BeginField ==
  /\ queue # <<>> /\ ~insertion.busy /\ insertion.left = 0
  /\ insertion' = [no_insertion EXCEPT !.left = Len(field.ats), !.raw = Head(queue).value]
  /\ UNCHANGED <<phase, definition, elem_size, storage, queue, content, sets>>

\* field_locator_t::insert: the low bits for the last location, and fold.
BeginLocator ==
  /\ queue # <<>> /\ ~insertion.busy /\ insertion.left > 0
  /\ insertion' = [insertion EXCEPT
       !.busy = TRUE,
       !.lsb = locator.lsb,
       !.value = insertion.raw \cap (0 .. locator.size - 1),
       !.raw = ShiftedRight(insertion.raw, locator.size)]
  /\ UNCHANGED <<phase, definition, elem_size, storage, queue, content, sets>>

current_idx == element(locator, insertion.lsb, elem_size)
lsb_in_element == insertion.lsb % elem_size
msb_in_element == (locator.lsb + locator.size - 1) % elem_size

Cut(v) == v \cap (0 .. elem_size - 1)

\* A mutant: the element is cleared up to its end.
cleared_above(elem, msb, lsb) == elem \ (lsb .. elem_size - 1)
leftover(elem, msb, lsb) == elem \ (lsb .. msb)

AfterLocator ==
  [insertion EXCEPT !.busy = FALSE, !.left = insertion.left - 1, !.value = {}, !.lsb = 0]

value_part(value, numbits) == value \cap (0 .. numbits - 1)

\* bits_locator_t::insert, the last element of the location.
InsertLast ==
  /\ insertion.busy /\ current_idx = max_idx(locator, elem_size)
  /\ storage' = [storage EXCEPT ![current_idx] =
       leftover(@, msb_in_element, lsb_in_element)
       \cup Cut(ShiftedLeft(insertion.value, lsb_in_element))]
  /\ insertion' =
       IF insertion.left = 1 THEN no_insertion ELSE AfterLocator
  /\ queue' = IF insertion.left = 1 THEN Tail(queue) ELSE queue
  /\ content' = IF insertion.left = 1
                THEN [content EXCEPT ![field.name] = stored(field, Head(queue).value)]
                ELSE content
  /\ UNCHANGED <<phase, definition, elem_size, sets>>

\* bits_locator_t::insert, the first of several and those between.
InsertPart(numbits) ==
  /\ storage' = [storage EXCEPT ![current_idx] =
       leftover(@, elem_size - 1, elem_size - numbits)
       \cup ShiftedLeft(value_part(insertion.value, numbits), elem_size - numbits)]
  /\ insertion' = [insertion EXCEPT
       !.lsb = insertion.lsb + numbits,
       !.value = ShiftedRight(insertion.value, numbits)]
  /\ UNCHANGED <<phase, definition, elem_size, queue, content, sets>>

InsertFirst ==
  /\ insertion.busy
  /\ current_idx # max_idx(locator, elem_size) /\ current_idx = min_idx(locator, elem_size)
  /\ InsertPart(elem_size - lsb_in_element)

InsertBetween ==
  /\ insertion.busy
  /\ current_idx # max_idx(locator, elem_size) /\ current_idx # min_idx(locator, elem_size)
  /\ InsertPart(elem_size)

StorageNext ==
  \/ Extend \/ Pack \/ Overlay \/ Relax \/ Rename
  \/ Own \/ View \/ OwnCopy \/ Set \/ SetDefault
  \/ BeginField \/ BeginLocator \/ InsertLast \/ InsertFirst \/ InsertBetween

StorageSpec == StorageInit /\ [][StorageNext]_storage_vars

----------------------------------------------------------------------------
\* bits_locator_t::extract: from the last element down.
extract_bits(l) ==
  LET first == min_idx(l, elem_size)
      last == max_idx(l, elem_size)
      masked == storage[last] \cap (0 .. (l.lsb + l.size - 1) % elem_size)
      down_to[n \in first + 1 .. last] ==
        IF n = last THEN masked ELSE ShiftedLeft(down_to[n + 1], elem_size) \cup storage[n]
      shift == l.lsb % elem_size
  IN IF first = last THEN ShiftedRight(masked, shift)
     ELSE ShiftedLeft(down_to[first + 1], elem_size - shift)
          \cup ShiftedRight(storage[first], shift)

\* field_locator_t::extract
extract(f) == joined(f.ats, [k \in DOMAIN f.ats |-> extract_bits(locator_for(f.ats[k]))])

----------------------------------------------------------------------------
\* What no part of the library checks of the fields that a program defines: that
\* their locations do not name a bit twice.
LocationsApart(f) ==
  \A i, j \in DOMAIN f.ats :
    i # j => f.ats[i].msb < f.ats[j].lsb \/ f.ats[j].msb < f.ats[i].lsb

FieldsApart(m) == \A f \in Range(m) : LocationsApart(f)
NoBitTwice == \A m \in Definitions \cup Extensions \cup Unlocated : FieldsApart(m)

IsConstructed == phase = "insert" /\ queue = <<>>

(* msg_access::get: a field that no other overlaps reads as what it was set *)
(* to last, cut to its locations, or as the bits it has in the storage that *)
(* was brought along, whatever its locations are, the elements they cross   *)
(* and the fields it shares them with.                                      *)
GetsWhatWasSet ==
  IsConstructed =>
    \A f \in Range(message) :
      (\A g \in Range(message) : overlap(f, g) => g = f) => extract(f) = content[f.name]

(* field_t::insert: while a field is written no bit outside of its          *)
(* locations changes, in no element.                                        *)
OtherBitsKept ==
  [][phase = "insert" /\ queue # <<>> =>
       \A e \in DOMAIN storage : \A b \in 0 .. elem_size - 1 :
         (b \in storage[e]) # (b \in storage'[e]) => e * elem_size + b \in located_bits(field)]_storage_vars

(* storage_size: an array of the size that a message takes for itself, or   *)
(* of a larger one, holds every element that a field is written to.         *)
WritesInStorage == insertion.busy => current_idx \in DOMAIN storage

(* pack, relaxed_message: fields that came from messages packed side by     *)
(* side, or that the library placed, share no bit, and stay so in what is   *)
(* made from them.                                                          *)
PackedApart ==
  \A f, g \in Range(message) : <<f.name, g.name>> \in apart => ~overlap(f, g)
=============================================================================
