--------------------------- MODULE IndexedBuilder ---------------------------
(***************************************************************************)
(* msg::indexed_builder: the compiler makes, of the terms that a service's *)
(* callbacks are separated into, an index for each indexed field: a map    *)
(* from values to sets of terms, and a set for the values without entry.   *)
(***************************************************************************)
EXTENDS Integers, Sequences

CONSTANTS
  Fields,
  Indexed,    \* the fields of the index_spec
  Values,     \* the values of a field
  Services    \* the services considered

(***************************************************************************)
(* A service is a record:                                                  *)
(*   indexed    whether it is an indexed_service (otherwise a service)     *)
(*   count      how many callbacks it has, after separation if indexed     *)
(*   positive   the literals field = value of its callbacks, in order      *)
(*   negative   the literals field # value                                 *)
(***************************************************************************)
LiteralsOf(s) == [idx : 1 .. s.count, field : Fields, value : Values]

ASSUME ServiceTypes ==
  /\ Indexed \subseteq Fields
  /\ \A s \in Services :
       /\ s.indexed \in BOOLEAN
       /\ s.count \in Nat
       /\ s.positive \in Seq(LiteralsOf(s))
       /\ s.negative \in Seq(LiteralsOf(s))

\* No callback says two things of one field.
OneLiteral(s) ==
  /\ \A j, k \in DOMAIN s.positive :
       /\ s.positive[j].idx = s.positive[k].idx
       /\ s.positive[j].field = s.positive[k].field
       => s.positive[j].value = s.positive[k].value
  /\ \A j, k \in DOMAIN s.negative :
       /\ s.negative[j].idx = s.negative[k].idx
       /\ s.negative[j].field = s.negative[k].field
       => s.negative[j].value = s.negative[k].value
  /\ \A j \in DOMAIN s.positive, k \in DOMAIN s.negative :
       s.positive[j].idx = s.negative[k].idx => s.positive[j].field # s.negative[k].field

\* No two callbacks exclude one value of a field.
NoSharedNegative(s) ==
  \A j, k \in DOMAIN s.negative :
    /\ s.negative[j].field = s.negative[k].field
    /\ s.negative[j].value = s.negative[k].value
    => s.negative[j].idx = s.negative[k].idx

VARIABLES
  service,
  stage,           \* what the builder does next
  at,              \* the literal it has come to
  entries,         \* temp_index::entries of each indexed field
  default_value,
  negative_value

build_vars == <<service, stage, at, entries, default_value, negative_value>>

Stages == {"positive", "negative", "propagate", "built"}

Indices == 1 .. service.count

Init ==
  /\ service \in Services
  /\ stage = IF service.indexed THEN "positive" ELSE "built"
  /\ at = 1
  /\ entries = [f \in Indexed |-> <<>>]
  /\ default_value = [f \in Indexed |-> {}]
  /\ negative_value = [f \in Indexed |-> {}]

----------------------------------------------------------------------------
\* A key that is not in the map is put there with an empty set.
Under(table, key) == IF key \in DOMAIN table THEN table[key] ELSE {}

add_positive(table, key, idx) ==
  [k \in DOMAIN table \cup {key} |->
     IF k = key THEN Under(table, k) \cup {idx} ELSE table[k]]

\* The defaults but idx go under the key, and idx under every other key.
add_negative(table, default, key, idx) ==
  [k \in DOMAIN table \cup {key} |->
     IF k = key THEN (Under(table, k) \cup default) \ {idx} ELSE table[k] \cup {idx}]

\* The indices that are under no key.
collect_defaults(table) ==
  {idx \in Indices : \A k \in DOMAIN table : idx \notin table[k]}

\* A mutant: the negatives are propagated too.
propagate_all_defaults(table, default, negative) ==
  [k \in DOMAIN table |-> table[k] \cup default]

propagate_positive_defaults(table, default, negative) ==
  [k \in DOMAIN table |-> table[k] \cup (default \ negative)]

AddPositive ==
  /\ stage = "positive"
  /\ at <= Len(service.positive)
  /\ LET t == service.positive[at]
     IN entries' = [f \in Indexed |->
          IF f = t.field THEN add_positive(entries[f], t.value, t.idx) ELSE entries[f]]
  /\ at' = at + 1
  /\ UNCHANGED <<service, stage, default_value, negative_value>>

CollectDefaults ==
  /\ stage = "positive"
  /\ at > Len(service.positive)
  /\ default_value' = [f \in Indexed |-> collect_defaults(entries[f])]
  /\ stage' = "negative"
  /\ at' = 1
  /\ UNCHANGED <<service, entries, negative_value>>

AddNegative ==
  /\ stage = "negative"
  /\ at <= Len(service.negative)
  /\ LET t == service.negative[at]
     IN /\ entries' = [f \in Indexed |->
             IF f = t.field THEN add_negative(entries[f], default_value[f], t.value, t.idx)
             ELSE entries[f]]
        /\ negative_value' = [f \in Indexed |->
             IF f = t.field THEN negative_value[f] \cup {t.idx} ELSE negative_value[f]]
  /\ at' = at + 1
  /\ UNCHANGED <<service, stage, default_value>>

PropagateDefaults ==
  /\ stage = "negative"
  /\ at > Len(service.negative)
  /\ entries' = [f \in Indexed |->
       propagate_positive_defaults(entries[f], default_value[f], negative_value[f])]
  /\ stage' = "built"
  /\ UNCHANGED <<service, at, default_value, negative_value>>

BuildNext == AddPositive \/ CollectDefaults \/ AddNegative \/ PropagateDefaults

Spec == Init /\ [][BuildNext]_build_vars

----------------------------------------------------------------------------
\* lookup::make(...)[value], whatever the strategy: the entry or the default.
lookup(f, v) == IF v \in DOMAIN entries[f] THEN entries[f][v] ELSE default_value[f]

\* What the literals of a callback on one field say of its value.
Agrees(idx, f, v) ==
  /\ \A k \in DOMAIN service.positive :
       LET t == service.positive[k] IN t.idx = idx /\ t.field = f => v = t.value
  /\ \A k \in DOMAIN service.negative :
       LET t == service.negative[k] IN t.idx = idx /\ t.field = f => v # t.value

BuilderTypeOK ==
  /\ stage \in Stages
  /\ at \in Nat \ {0}
  /\ DOMAIN entries = Indexed
  /\ \A f \in Indexed : entries[f] \in [DOMAIN entries[f] -> SUBSET Indices]
  /\ \A f \in Indexed : DOMAIN entries[f] \subseteq Values
  /\ default_value \in [Indexed -> SUBSET Indices]
  /\ negative_value \in [Indexed -> SUBSET Indices]

(* docs/message.adoc, `How does indexing work?': for every value of a field *)
(* the index yields exactly the callbacks whose literals on that field      *)
(* agree, whatever the other callbacks are and in whatever order they came. *)
IndexSelects ==
  stage = "built" /\ service.indexed =>
    \A f \in Indexed, v \in Values, idx \in Indices :
      idx \in lookup(f, v) <=> Agrees(idx, f, v)
=============================================================================
