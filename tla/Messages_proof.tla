------------------------ MODULE Messages_proof ------------------------------
(***************************************************************************)
(* Proofs about messages.  About indexed services: first the builder of    *)
(* the indices, then the handler that looks messages up in them.  About    *)
(* the fields of a message: first the messages that are made of others,    *)
(* then the insertion of a field into the elements of a storage.  About    *)
(* matchers: which relation on a field implies which other.                *)
(***************************************************************************)
EXTENDS MessageHandler, MessageStorage, FieldRelations, Recursion

----------------------------------------------------------------------------
(***************************************************************************)
(* The indices yield, for every value of every indexed field, exactly the  *)
(* callbacks whose literals agree with it, for every service of which no   *)
(* callback says two things of one field and no two callbacks exclude one  *)
(* value.                                                                  *)
(*                                                                         *)
(* While the negative literals are processed, an index is under a key for  *)
(* one of three reasons: a positive literal of its own put it there; it    *)
(* has been excluded from another key; or it is a default of the field,    *)
(* not yet excluded from any key, and the key came with an exclusion.      *)
(***************************************************************************)

\* Among the first n - 1 literals there is one of idx, on f, with value v.
Positive(n, idx, f, v) ==
  \E k \in DOMAIN service.positive :
    k < n /\ service.positive[k] = [idx |-> idx, field |-> f, value |-> v]

Negative(n, idx, f, v) ==
  \E k \in DOMAIN service.negative :
    k < n /\ service.negative[k] = [idx |-> idx, field |-> f, value |-> v]

PositiveEnd == Len(service.positive) + 1
NegativeEnd == Len(service.negative) + 1

\* idx has no positive literal on f.
Default(idx, f) == \A v \in Values : ~ Positive(PositiveEnd, idx, f, v)

Excluded(n, idx, f) == \E v \in Values : Negative(n, idx, f, v)

Mentioned(n, f, v) == \E idx \in Indices : Negative(n, idx, f, v)

AfterPositives(n) ==
  \A f \in Indexed, v \in Values :
    /\ v \in DOMAIN entries[f] <=> \E i \in Indices : Positive(n, i, f, v)
    /\ \A idx \in Indices :
         v \in DOMAIN entries[f] => (idx \in entries[f][v] <=> Positive(n, idx, f, v))

Keys(n) ==
  \A f \in Indexed, v \in Values :
    v \in DOMAIN entries[f] <=>
      (\E i \in Indices : Positive(PositiveEnd, i, f, v)) \/ Mentioned(n, f, v)

Yields(n, f, v, idx) ==
  \/ Positive(PositiveEnd, idx, f, v)
  \/ Excluded(n, idx, f) /\ ~ Negative(n, idx, f, v)
  \/ Default(idx, f) /\ ~ Excluded(n, idx, f) /\ Mentioned(n, f, v)

AfterNegatives(n) ==
  /\ Keys(n)
  /\ \A f \in Indexed, v \in Values, idx \in Indices :
       v \in DOMAIN entries[f] => (idx \in entries[f][v] <=> Yields(n, f, v, idx))
  /\ \A f \in Indexed, idx \in Indices :
       /\ idx \in default_value[f] <=> Default(idx, f)
       /\ idx \in negative_value[f] <=> Excluded(n, idx, f)

\* The entries of one field.
Table(t) == t \in [DOMAIN t -> SUBSET Indices] /\ DOMAIN t \subseteq Values

IndexedWell == OneLiteral(service) /\ NoSharedNegative(service)

Selected ==
  \A f \in Indexed, v \in Values, idx \in Indices :
    idx \in lookup(f, v) <=> Agrees(idx, f, v)

IInv ==
  /\ service \in Services
  /\ BuilderTypeOK
  /\ stage = "positive" => service.indexed /\ at <= PositiveEnd /\ (\A n \in Nat : n = at => AfterPositives(n))
                           /\ negative_value = [f \in Indexed |-> {}]
  /\ stage = "negative" => service.indexed /\ at <= NegativeEnd
  /\ IndexedWell =>
       /\ stage = "negative" => \A n \in Nat : n = at => AfterNegatives(n)
       /\ stage = "built" /\ service.indexed => Selected

----------------------------------------------------------------------------
\* A step of the builder does not touch the service.
LEMMA ServiceKept ==
  ASSUME [BuildNext]_build_vars
  PROVE  service' = service
BY DEF BuildNext, build_vars, AddPositive, CollectDefaults, AddNegative, PropagateDefaults

LEMMA SameService ==
  ASSUME service' = service
  PROVE  /\ Indices' = Indices
         /\ PositiveEnd' = PositiveEnd
         /\ NegativeEnd' = NegativeEnd
         /\ \A n, idx, f, v : Positive(n, idx, f, v)' <=> Positive(n, idx, f, v)
         /\ \A n, idx, f, v : Negative(n, idx, f, v)' <=> Negative(n, idx, f, v)
         /\ \A idx, f : Default(idx, f)' <=> Default(idx, f)
         /\ \A n, idx, f : Excluded(n, idx, f)' <=> Excluded(n, idx, f)
         /\ \A n, f, v : Mentioned(n, f, v)' <=> Mentioned(n, f, v)
         /\ \A n, f, v, idx : Yields(n, f, v, idx)' <=> Yields(n, f, v, idx)
         /\ \A idx, f, v : Agrees(idx, f, v)' <=> Agrees(idx, f, v)
<1>1. /\ Indices' = Indices
      /\ PositiveEnd' = PositiveEnd
      /\ NegativeEnd' = NegativeEnd
      /\ \A n, idx, f, v : Positive(n, idx, f, v)' <=> Positive(n, idx, f, v)
      /\ \A n, idx, f, v : Negative(n, idx, f, v)' <=> Negative(n, idx, f, v)
      /\ \A idx, f, v : Agrees(idx, f, v)' <=> Agrees(idx, f, v)
  BY DEF Indices, PositiveEnd, NegativeEnd, Positive, Negative, Agrees
<1>2. /\ \A idx, f : Default(idx, f)' <=> Default(idx, f)
      /\ \A n, idx, f : Excluded(n, idx, f)' <=> Excluded(n, idx, f)
      /\ \A n, f, v : Mentioned(n, f, v)' <=> Mentioned(n, f, v)
  BY DEF Indices, PositiveEnd, Default, Excluded, Mentioned, Positive, Negative
<1>3. \A n, f, v, idx : Yields(n, f, v, idx)' <=> Yields(n, f, v, idx)
  BY <1>1, <1>2 DEF Yields
<1> QED
  BY <1>1, <1>2, <1>3

LEMMA SequenceTypes ==
  ASSUME NEW S, NEW s \in Seq(S)
  PROVE  /\ Len(s) \in Nat
         /\ DOMAIN s = 1 .. Len(s)
         /\ \A k \in DOMAIN s : s[k] \in S
OBVIOUS

\* Every literal of a service is one of its callbacks', on a field and a value.
LEMMA LiteralTypes ==
  ASSUME service \in Services
  PROVE  /\ service.count \in Nat
         /\ service.indexed \in BOOLEAN
         /\ Len(service.positive) \in Nat
         /\ Len(service.negative) \in Nat
         /\ DOMAIN service.positive = 1 .. Len(service.positive)
         /\ DOMAIN service.negative = 1 .. Len(service.negative)
         /\ \A k \in DOMAIN service.positive :
              service.positive[k] \in [idx : Indices, field : Fields, value : Values]
         /\ \A k \in DOMAIN service.negative :
              service.negative[k] \in [idx : Indices, field : Fields, value : Values]
<1>1. service.positive \in Seq([idx : Indices, field : Fields, value : Values])
  BY ServiceTypes DEF LiteralsOf, Indices
<1>2. service.negative \in Seq([idx : Indices, field : Fields, value : Values])
  BY ServiceTypes DEF LiteralsOf, Indices
<1>3. service.count \in Nat /\ service.indexed \in BOOLEAN
  BY ServiceTypes
<1> HIDE DEF Indices
<1> QED
  BY <1>1, <1>2, <1>3, SequenceTypes

\* What the literal at n adds to those before it.
LEMMA NextPositive ==
  ASSUME service \in Services, NEW n \in DOMAIN service.positive,
         NEW idx, NEW f, NEW v
  PROVE  Positive(n + 1, idx, f, v) <=>
           \/ Positive(n, idx, f, v)
           \/ service.positive[n] = [idx |-> idx, field |-> f, value |-> v]
BY LiteralTypes DEF Positive

LEMMA NextNegative ==
  ASSUME service \in Services, NEW n \in DOMAIN service.negative,
         NEW idx, NEW f, NEW v
  PROVE  Negative(n + 1, idx, f, v) <=>
           \/ Negative(n, idx, f, v)
           \/ service.negative[n] = [idx |-> idx, field |-> f, value |-> v]
BY LiteralTypes DEF Negative

----------------------------------------------------------------------------
LEMMA TablesTyped ==
  BuilderTypeOK <=>
    /\ stage \in Stages
    /\ at \in Nat \ {0}
    /\ DOMAIN entries = Indexed
    /\ \A f \in Indexed : Table(entries[f])
    /\ default_value \in [Indexed -> SUBSET Indices]
    /\ negative_value \in [Indexed -> SUBSET Indices]
BY DEF BuilderTypeOK, Table

\* What the three operations on a table make of it, key by key.
LEMMA AddPositiveTable ==
  ASSUME NEW table, NEW key, NEW idx, NEW after, after = add_positive(table, key, idx)
  PROVE  /\ \A v : v \in DOMAIN after <=> v \in DOMAIN table \/ v = key
         /\ \A v, j : v \in DOMAIN after =>
              (j \in after[v] <=>
                 (v \in DOMAIN table /\ j \in table[v]) \/ (v = key /\ j = idx))
<1>1. /\ \A v : v \in DOMAIN after <=> v \in DOMAIN table \/ v = key
      /\ \A v : v \in DOMAIN after =>
           after[v] = IF v = key THEN Under(table, v) \cup {idx} ELSE table[v]
  BY DEF add_positive
<1> QED
  BY <1>1 DEF Under

LEMMA AddNegativeTable ==
  ASSUME NEW table, NEW default, NEW key, NEW idx,
         NEW after, after = add_negative(table, default, key, idx)
  PROVE  /\ \A v : v \in DOMAIN after <=> v \in DOMAIN table \/ v = key
         /\ \A v, j : v \in DOMAIN after =>
              (j \in after[v] <=>
                 IF v = key
                 THEN j # idx /\ (j \in default \/ (v \in DOMAIN table /\ j \in table[v]))
                 ELSE j = idx \/ j \in table[v])
<1>1. /\ \A v : v \in DOMAIN after <=> v \in DOMAIN table \/ v = key
      /\ \A v : v \in DOMAIN after =>
           after[v] = IF v = key THEN (Under(table, v) \cup default) \ {idx}
                      ELSE table[v] \cup {idx}
  BY DEF add_negative
<1> QED
  BY <1>1 DEF Under

LEMMA PropagateTable ==
  ASSUME NEW table, NEW default, NEW negative,
         NEW after, after = propagate_positive_defaults(table, default, negative)
  PROVE  /\ DOMAIN after = DOMAIN table
         /\ \A v, j : v \in DOMAIN after =>
              (j \in after[v] <=> j \in table[v] \/ (j \in default /\ j \notin negative))
BY DEF propagate_positive_defaults

\* They keep the type.
LEMMA TablesKept ==
  ASSUME NEW table, Table(table), NEW key \in Values, NEW idx \in Indices,
         NEW default \in SUBSET Indices
  PROVE  /\ Table(add_positive(table, key, idx))
         /\ Table(add_negative(table, default, key, idx))
BY DEF add_positive, add_negative, Under, Table

LEMMA PropagatedTableKept ==
  ASSUME NEW table, Table(table), NEW default \in SUBSET Indices, NEW negative
  PROVE  Table(propagate_positive_defaults(table, default, negative))
BY DEF propagate_positive_defaults, Table

LEMMA AddPositiveKeepsType ==
  ASSUME service \in Services, BuilderTypeOK, AddPositive
  PROVE  BuilderTypeOK'
<1> DEFINE t == service.positive[at]
<1>1. t \in [idx : Indices, field : Fields, value : Values]
  BY LiteralTypes DEF AddPositive, BuilderTypeOK
<1>2. /\ DOMAIN entries' = Indexed
      /\ \A f \in Indexed :
           entries'[f] = IF f = t.field THEN add_positive(entries[f], t.value, t.idx)
                         ELSE entries[f]
  BY DEF AddPositive
<1> HIDE DEF t
<1>3. ASSUME NEW f \in Indexed PROVE Table(entries'[f])
  <2>1. Table(entries[f])
    BY TablesTyped
  <2>2. Table(add_positive(entries[f], t.value, t.idx))
    BY <1>1, <2>1, TablesKept
  <2> QED
    BY <1>2, <2>1, <2>2
<1>4. \A f \in Indexed : Table(entries[f])'
  BY <1>3 DEF AddPositive, Table, Indices
<1> QED
  BY <1>2, <1>4 DEF AddPositive, BuilderTypeOK, Table, Indices

LEMMA AddNegativeKeepsType ==
  ASSUME service \in Services, BuilderTypeOK, AddNegative
  PROVE  BuilderTypeOK'
<1> DEFINE t == service.negative[at]
<1>1. t \in [idx : Indices, field : Fields, value : Values]
  BY LiteralTypes DEF AddNegative, BuilderTypeOK
<1>2. /\ DOMAIN entries' = Indexed
      /\ \A f \in Indexed :
           entries'[f] = IF f = t.field
                         THEN add_negative(entries[f], default_value[f], t.value, t.idx)
                         ELSE entries[f]
      /\ negative_value' = [f \in Indexed |->
           IF f = t.field THEN negative_value[f] \cup {t.idx} ELSE negative_value[f]]
  BY DEF AddNegative
<1> HIDE DEF t
<1>3. \A f \in Indexed : default_value[f] \in SUBSET Indices
  BY DEF BuilderTypeOK
<1>4. ASSUME NEW f \in Indexed PROVE Table(entries'[f])
  <2>1. Table(entries[f])
    BY TablesTyped
  <2>2. Table(add_negative(entries[f], default_value[f], t.value, t.idx))
    BY <1>1, <1>3, <2>1, TablesKept
  <2> QED
    BY <1>2, <2>1, <2>2
<1>5. \A f \in Indexed : Table(entries[f])'
  BY <1>4 DEF AddNegative, Table, Indices
<1>6. negative_value' \in [Indexed -> SUBSET Indices]
  BY <1>1, <1>2 DEF BuilderTypeOK
<1> QED
  BY <1>2, <1>5, <1>6 DEF AddNegative, BuilderTypeOK, Table, Indices

LEMMA StepKeepsType ==
  ASSUME service \in Services, BuilderTypeOK, [BuildNext]_build_vars
  PROVE  BuilderTypeOK'
<1>1. CASE CollectDefaults
  BY <1>1 DEF CollectDefaults, collect_defaults, BuilderTypeOK, Indices, Stages
<1>2. CASE PropagateDefaults
  <2>1. \A f \in Indexed :
          /\ default_value[f] \in SUBSET Indices
          /\ negative_value[f] \in SUBSET Indices
          /\ entries'[f] =
               propagate_positive_defaults(entries[f], default_value[f], negative_value[f])
    BY <1>2 DEF PropagateDefaults, BuilderTypeOK
  <2>2. ASSUME NEW f \in Indexed PROVE Table(entries'[f])
    <3>1. Table(entries[f])
      BY TablesTyped
    <3>2. Table(propagate_positive_defaults(entries[f], default_value[f], negative_value[f]))
      BY <2>1, <3>1, PropagatedTableKept
    <3> QED
      BY <2>1, <3>2
  <2>3. \A f \in Indexed : Table(entries[f])'
    BY <1>2, <2>2 DEF PropagateDefaults, Table, Indices
  <2> QED
    BY <1>2, <2>3 DEF PropagateDefaults, BuilderTypeOK, Table, Indices, Stages
<1>3. CASE UNCHANGED build_vars
  BY <1>3 DEF build_vars, BuilderTypeOK, Indices
<1> QED
  BY <1>1, <1>2, <1>3, AddPositiveKeepsType, AddNegativeKeepsType DEF BuildNext
----------------------------------------------------------------------------
LEMMA AddPositiveKeeps ==
  ASSUME service \in Services, BuilderTypeOK, AddPositive, AfterPositives(at)
  PROVE  \A n \in Nat : n = at' => AfterPositives(n)'
<1> DEFINE t == service.positive[at]
<1>1. at \in DOMAIN service.positive /\ t \in [idx : Indices, field : Fields, value : Values]
  BY LiteralTypes DEF AddPositive, BuilderTypeOK
<1>2. \A f \in Indexed :
        entries'[f] = IF f = t.field THEN add_positive(entries[f], t.value, t.idx)
                      ELSE entries[f]
  BY DEF AddPositive
<1>3. \A idx, f, v :
        Positive(at + 1, idx, f, v) <=>
          Positive(at, idx, f, v) \/ t = [idx |-> idx, field |-> f, value |-> v]
  BY <1>1, NextPositive
<1>4. \A idx, f, v :
        t = [idx |-> idx, field |-> f, value |-> v] <=>
          t.idx = idx /\ t.field = f /\ t.value = v
  BY <1>1
<1> HIDE DEF t
<1>5. ASSUME NEW f \in Indexed, NEW v \in Values
      PROVE  /\ v \in DOMAIN entries'[f] <=> \E i \in Indices : Positive(at + 1, i, f, v)
             /\ \A idx \in Indices : v \in DOMAIN entries'[f] =>
                  (idx \in entries'[f][v] <=> Positive(at + 1, idx, f, v))
  <2>1. /\ v \in DOMAIN entries[f] <=> \E i \in Indices : Positive(at, i, f, v)
        /\ \A i \in Indices :
             v \in DOMAIN entries[f] => (i \in entries[f][v] <=> Positive(at, i, f, v))
    BY DEF AfterPositives
  <2>2. CASE f # t.field
    BY <1>2, <1>3, <1>4, <2>1, <2>2
  <2>3. CASE f = t.field
    <3>1. Table(entries[f])
      BY TablesTyped
    <3>2. entries'[f] = add_positive(entries[f], t.value, t.idx)
      BY <1>2, <2>3
    <3>3. /\ \A w : w \in DOMAIN entries'[f] <=> w \in DOMAIN entries[f] \/ w = t.value
          /\ \A w, j : w \in DOMAIN entries'[f] =>
               (j \in entries'[f][w] <=>
                  (w \in DOMAIN entries[f] /\ j \in entries[f][w]) \/ (w = t.value /\ j = t.idx))
      BY <3>2, AddPositiveTable
    <3>4. t.idx \in Indices
      BY <1>1
    <3>5. CASE v = t.value
      BY <1>3, <1>4, <2>1, <2>3, <3>3, <3>4, <3>5
    <3>6. CASE v # t.value
      BY <1>3, <1>4, <2>1, <2>3, <3>3, <3>4, <3>6
    <3> QED
      BY <3>5, <3>6
  <2> QED
    BY <2>2, <2>3
<1>6. at' = at + 1 /\ service' = service
  BY DEF AddPositive
<1> QED
  BY <1>5, <1>6, SameService DEF AfterPositives

\* When the positive literals are in, the defaults are what has none.
LEMMA CollectDefaultsStarts ==
  ASSUME service \in Services, BuilderTypeOK, CollectDefaults,
         at <= PositiveEnd, AfterPositives(at), negative_value = [f \in Indexed |-> {}]
  PROVE  \A n \in Nat : n = at' => AfterNegatives(n)'
<1>1. at = PositiveEnd
  BY LiteralTypes DEF CollectDefaults, BuilderTypeOK, PositiveEnd
<1>2. \A idx, f, v : ~ Negative(1, idx, f, v)
  BY LiteralTypes DEF Negative
<1>3. \A f \in Indexed : DOMAIN entries[f] \subseteq Values
  BY DEF BuilderTypeOK
<1>4. \A f \in Indexed, v \in Values :
        /\ v \in DOMAIN entries[f] <=> \E i \in Indices : Positive(PositiveEnd, i, f, v)
        /\ \A idx \in Indices : v \in DOMAIN entries[f] =>
             (idx \in entries[f][v] <=> Positive(PositiveEnd, idx, f, v))
  BY <1>1 DEF AfterPositives
<1>5. \A f \in Indexed, idx \in Indices : idx \in default_value'[f] <=> Default(idx, f)
  BY <1>3, <1>4 DEF CollectDefaults, collect_defaults, Default
<1>6. \A f, v : ~ Mentioned(1, f, v)
  BY <1>2 DEF Mentioned
<1>7. \A f, idx : ~ Excluded(1, idx, f)
  BY <1>2 DEF Excluded
<1>8. Keys(1)
  BY <1>4, <1>6 DEF Keys
<1>9. \A f \in Indexed, v \in Values, idx \in Indices :
        v \in DOMAIN entries[f] => (idx \in entries[f][v] <=> Yields(1, f, v, idx))
  BY <1>4, <1>6, <1>7 DEF Yields
<1>10. \A f \in Indexed, idx \in Indices : idx \in negative_value[f] <=> Excluded(1, idx, f)
  BY <1>7
<1>11. service' = service /\ at' = 1 /\ entries' = entries /\ negative_value' = negative_value
  BY DEF CollectDefaults
<1> QED
  BY <1>5, <1>8, <1>9, <1>10, <1>11, SameService DEF AfterNegatives, Keys

LEMMA AddNegativeKeeps ==
  ASSUME service \in Services, BuilderTypeOK, IndexedWell, AddNegative, AfterNegatives(at)
  PROVE  \A n \in Nat : n = at' => AfterNegatives(n)'
<1> DEFINE t == service.negative[at]
<1>1. at \in DOMAIN service.negative /\ t \in [idx : Indices, field : Fields, value : Values]
  BY LiteralTypes DEF AddNegative, BuilderTypeOK
<1>2. \A f \in Indexed :
        /\ entries'[f] = IF f = t.field
                         THEN add_negative(entries[f], default_value[f], t.value, t.idx)
                         ELSE entries[f]
        /\ negative_value'[f] = IF f = t.field THEN negative_value[f] \cup {t.idx}
                                ELSE negative_value[f]
  BY DEF AddNegative
<1>3. \A idx, f, v :
        Negative(at + 1, idx, f, v) <=>
          Negative(at, idx, f, v) \/ (t.idx = idx /\ t.field = f /\ t.value = v)
  <2>1. \A idx, f, v :
          Negative(at + 1, idx, f, v) <=>
            Negative(at, idx, f, v) \/ t = [idx |-> idx, field |-> f, value |-> v]
    BY <1>1, NextNegative
  <2>2. \A idx, f, v :
          t = [idx |-> idx, field |-> f, value |-> v] <=>
            t.idx = idx /\ t.field = f /\ t.value = v
    BY <1>1
  <2> HIDE DEF t
  <2> QED
    BY <2>1, <2>2
\* What OneLiteral and NoSharedNegative say of this literal and of others.
<1>4. Default(t.idx, t.field)
  BY <1>1, LiteralTypes DEF IndexedWell, OneLiteral, Default, Positive
<1>5. \A v \in Values : Negative(at, t.idx, t.field, v) => v = t.value
  BY <1>1, LiteralTypes DEF IndexedWell, OneLiteral, Negative
<1>6. \A idx \in Indices : Negative(at, idx, t.field, t.value) => idx = t.idx
  BY <1>1, LiteralTypes DEF IndexedWell, NoSharedNegative, Negative
<1>7. \A idx, f : Excluded(at, idx, f) => Default(idx, f)
  BY LiteralTypes DEF IndexedWell, OneLiteral, Excluded, Default, Positive, Negative
<1>8. t.idx \in Indices /\ t.value \in Values
  BY <1>1
<1> HIDE DEF t
<1>9. \A idx, f : Excluded(at + 1, idx, f) <=>
        Excluded(at, idx, f) \/ (t.idx = idx /\ t.field = f)
  BY <1>3, <1>8 DEF Excluded
<1>10. \A f, v : Mentioned(at + 1, f, v) <=>
         Mentioned(at, f, v) \/ (t.field = f /\ t.value = v)
  BY <1>3, <1>8 DEF Mentioned
<1>11. ASSUME NEW f \in Indexed, NEW v \in Values
       PROVE  /\ v \in DOMAIN entries'[f] <=>
                   (\E i \in Indices : Positive(PositiveEnd, i, f, v)) \/ Mentioned(at + 1, f, v)
              /\ \A idx \in Indices : v \in DOMAIN entries'[f] =>
                   (idx \in entries'[f][v] <=> Yields(at + 1, f, v, idx))
  <2>1. /\ v \in DOMAIN entries[f] <=>
             (\E i \in Indices : Positive(PositiveEnd, i, f, v)) \/ Mentioned(at, f, v)
        /\ \A idx \in Indices : v \in DOMAIN entries[f] =>
             (idx \in entries[f][v] <=> Yields(at, f, v, idx))
        /\ \A idx \in Indices : idx \in default_value[f] <=> Default(idx, f)
    BY DEF AfterNegatives, Keys
  <2>2. CASE f # t.field
    BY <1>2, <1>3, <1>9, <1>10, <2>1, <2>2 DEF Yields
  <2>3. CASE f = t.field
    <3>1. entries'[f] = add_negative(entries[f], default_value[f], t.value, t.idx)
      BY <1>2, <2>3
    <3>2. /\ \A w : w \in DOMAIN entries'[f] <=> w \in DOMAIN entries[f] \/ w = t.value
          /\ \A w, j : w \in DOMAIN entries'[f] =>
               (j \in entries'[f][w] <=>
                  IF w = t.value
                  THEN j # t.idx /\ (j \in default_value[f] \/ (w \in DOMAIN entries[f] /\ j \in entries[f][w]))
                  ELSE j = t.idx \/ j \in entries[f][w])
      BY <3>1, AddNegativeTable
    <3>3. v \in DOMAIN entries'[f] <=>
            (\E i \in Indices : Positive(PositiveEnd, i, f, v)) \/ Mentioned(at + 1, f, v)
      BY <1>10, <2>1, <2>3, <3>2
    <3>4. ASSUME NEW idx \in Indices, v \in DOMAIN entries'[f]
          PROVE  idx \in entries'[f][v] <=> Yields(at + 1, f, v, idx)
      <4>1. CASE v = t.value
        <5>1. idx \in entries'[f][v] <=>
                idx # t.idx /\ (Default(idx, f) \/ (v \in DOMAIN entries[f] /\ Yields(at, f, v, idx)))
          BY <2>1, <3>2, <3>4, <4>1
        <5>2. Yields(at, f, v, idx) => Positive(PositiveEnd, idx, f, v) \/ Default(idx, f)
          BY <1>7 DEF Yields
        <5>3. Positive(PositiveEnd, idx, f, v) => v \in DOMAIN entries[f] /\ Yields(at, f, v, idx)
          BY <2>1 DEF Yields
        <5>4. idx = t.idx => ~ Yields(at + 1, f, v, idx)
          BY <1>3, <1>4, <1>9, <2>3, <4>1 DEF Yields, Default
        <5>5. idx # t.idx => ~ Negative(at + 1, idx, f, v)
          BY <1>3, <1>6, <2>3, <4>1
        <5>6. Mentioned(at + 1, f, v)
          BY <1>10, <2>3, <4>1
        <5>7. Yields(at + 1, f, v, idx) => Positive(PositiveEnd, idx, f, v) \/ Default(idx, f)
          BY <1>4, <1>7, <1>9 DEF Yields
        <5>8. idx # t.idx /\ Default(idx, f) => Yields(at + 1, f, v, idx)
          BY <5>5, <5>6 DEF Yields
        <5>9. Positive(PositiveEnd, idx, f, v) => Yields(at + 1, f, v, idx)
          BY DEF Yields
        <5> QED
          BY <5>1, <5>2, <5>3, <5>4, <5>7, <5>8, <5>9
      <4>2. CASE v # t.value
        <5>1. v \in DOMAIN entries[f] /\ (idx \in entries'[f][v] <=> idx = t.idx \/ Yields(at, f, v, idx))
          BY <2>1, <3>2, <3>4, <4>2
        <5>2. Negative(at + 1, idx, f, v) <=> Negative(at, idx, f, v)
          BY <1>3, <4>2
        <5>3. Mentioned(at + 1, f, v) <=> Mentioned(at, f, v)
          BY <1>10, <4>2
        <5>4. CASE idx = t.idx
          BY <1>5, <1>9, <2>3, <4>2, <5>1, <5>2, <5>4 DEF Yields
        <5>5. CASE idx # t.idx
          BY <1>9, <5>1, <5>2, <5>3, <5>5 DEF Yields
        <5> QED
          BY <5>4, <5>5
      <4> QED
        BY <4>1, <4>2
    <3> QED
      BY <3>3, <3>4
  <2> QED
    BY <2>2, <2>3
<1>12. \A f \in Indexed, idx \in Indices :
         /\ idx \in default_value[f] <=> Default(idx, f)
         /\ idx \in negative_value'[f] <=> Excluded(at + 1, idx, f)
  <2>1. \A f \in Indexed, idx \in Indices :
          /\ idx \in default_value[f] <=> Default(idx, f)
          /\ idx \in negative_value[f] <=> Excluded(at, idx, f)
    BY DEF AfterNegatives
  <2>2. ASSUME NEW f \in Indexed, NEW idx \in Indices
        PROVE  idx \in negative_value'[f] <=> Excluded(at + 1, idx, f)
    <3>1. CASE f = t.field
      <4>1. negative_value'[f] = negative_value[f] \cup {t.idx}
        BY <1>2, <3>1
      <4> QED
        BY <1>9, <2>1, <3>1, <4>1
    <3>2. CASE f # t.field
      BY <1>2, <1>9, <2>1, <3>2
    <3> QED
      BY <3>1, <3>2
  <2> QED
    BY <2>1, <2>2
<1>13. service' = service /\ at' = at + 1 /\ default_value' = default_value
  BY DEF AddNegative
<1> QED
  BY <1>11, <1>12, <1>13, SameService DEF AfterNegatives, Keys

\* In the end the entries yield what the literals of each callback allow.
LEMMA PropagateDefaultsSelects ==
  ASSUME service \in Services, BuilderTypeOK, IndexedWell, PropagateDefaults,
         at <= NegativeEnd, AfterNegatives(at)
  PROVE  Selected'
<1>1. at = NegativeEnd
  BY LiteralTypes DEF PropagateDefaults, BuilderTypeOK, NegativeEnd
<1>2. \A idx, f, v : Agrees(idx, f, v) <=>
        /\ \A k \in DOMAIN service.positive :
             service.positive[k].idx = idx /\ service.positive[k].field = f =>
               service.positive[k].value = v
        /\ ~ Negative(NegativeEnd, idx, f, v)
  BY LiteralTypes DEF Agrees, Negative, NegativeEnd
<1>3. ASSUME NEW f \in Indexed, NEW v \in Values, NEW idx \in Indices
      PROVE  idx \in (IF v \in DOMAIN entries'[f] THEN entries'[f][v] ELSE default_value[f])
               <=> Agrees(idx, f, v)
  <2>1. entries'[f] =
          propagate_positive_defaults(entries[f], default_value[f], negative_value[f])
    BY DEF PropagateDefaults
  <2>2. /\ DOMAIN entries'[f] = DOMAIN entries[f]
        /\ \A w, j : w \in DOMAIN entries'[f] =>
             (j \in entries'[f][w] <=>
                j \in entries[f][w] \/ (j \in default_value[f] /\ j \notin negative_value[f]))
    BY <2>1, PropagateTable
  <2>3. /\ v \in DOMAIN entries[f] <=>
             \/ \E i \in Indices : Positive(PositiveEnd, i, f, v)
             \/ Mentioned(NegativeEnd, f, v)
        /\ v \in DOMAIN entries[f] => (idx \in entries[f][v] <=> Yields(NegativeEnd, f, v, idx))
        /\ idx \in default_value[f] <=> Default(idx, f)
        /\ idx \in negative_value[f] <=> Excluded(NegativeEnd, idx, f)
    BY <1>1 DEF AfterNegatives, Keys
  \* A callback with a positive literal on f agrees with its value only.
  <2>4. CASE ~ Default(idx, f)
    <3>1. PICK w \in Values : Positive(PositiveEnd, idx, f, w)
      BY <2>4 DEF Default
    <3>2. \A u : ~ Negative(NegativeEnd, idx, f, u)
      BY <3>1, LiteralTypes DEF IndexedWell, OneLiteral, Positive, Negative
    <3>3. Agrees(idx, f, v) <=> v = w
      BY <1>2, <3>1, <3>2, LiteralTypes DEF IndexedWell, OneLiteral, Positive
    <3>4. Positive(PositiveEnd, idx, f, v) <=> v = w
      BY <3>1, LiteralTypes DEF IndexedWell, OneLiteral, Positive
    <3> QED
      BY <2>2, <2>3, <2>4, <3>2, <3>3, <3>4 DEF Yields, Excluded
  \* One without agrees unless it excludes the value.
  <2>5. CASE Default(idx, f)
    <3>1. Agrees(idx, f, v) <=> ~ Negative(NegativeEnd, idx, f, v)
      BY <1>2, <2>5, LiteralTypes DEF Default, Positive, PositiveEnd
    <3>2. ~ Positive(PositiveEnd, idx, f, v)
      BY <2>5 DEF Default
    <3>3. Negative(NegativeEnd, idx, f, v) =>
            Mentioned(NegativeEnd, f, v) /\ Excluded(NegativeEnd, idx, f)
      BY DEF Mentioned, Excluded
    <3> QED
      BY <2>2, <2>3, <2>5, <3>1, <3>2, <3>3 DEF Yields
  <2> QED
    BY <2>4, <2>5
<1>4. service' = service /\ default_value' = default_value
  BY DEF PropagateDefaults
<1> QED
  BY <1>3, <1>4, SameService DEF Selected, lookup

----------------------------------------------------------------------------
LEMMA InitEstablishes == Init => IInv
<1> SUFFICES ASSUME Init PROVE IInv
  OBVIOUS
<1>1. service \in Services /\ BuilderTypeOK
  BY ServiceTypes DEF Init, BuilderTypeOK, Stages, Indices
<1>2. \A n \in Nat : n = at => AfterPositives(n)
  <2>1. \A idx, f, v : ~ Positive(1, idx, f, v)
    BY LiteralTypes, <1>1 DEF Positive
  <2>2. at = 1 /\ \A f \in Indexed : DOMAIN entries[f] = {}
    BY DEF Init
  <2> QED
    BY <2>1, <2>2 DEF AfterPositives
<1>3. 1 <= PositiveEnd
  BY LiteralTypes, <1>1 DEF PositiveEnd
<1> QED
  BY <1>1, <1>2, <1>3, LiteralTypes DEF Init, IInv

LEMMA StepPreserves == IInv /\ [BuildNext]_build_vars => IInv'
<1> SUFFICES ASSUME IInv, [BuildNext]_build_vars PROVE IInv'
  OBVIOUS
<1>1. service \in Services /\ BuilderTypeOK /\ at \in Nat
  BY DEF IInv, BuilderTypeOK
<1>2. service' \in Services /\ BuilderTypeOK' /\ service' = service
  BY <1>1, ServiceKept, StepKeepsType
<1>3. IndexedWell' <=> IndexedWell
  BY <1>2 DEF IndexedWell, OneLiteral, NoSharedNegative
<1>4. CASE AddPositive
  <2>1. \A n \in Nat : n = at' => AfterPositives(n)'
    BY <1>1, <1>4, AddPositiveKeeps DEF IInv, AddPositive
  <2>2. at' <= PositiveEnd'
    BY <1>1, <1>4, LiteralTypes DEF AddPositive, PositiveEnd
  <2> QED
    BY <1>1, <1>2, <1>4, <2>1, <2>2 DEF IInv, AddPositive
<1>5. CASE CollectDefaults
  <2>1. \A n \in Nat : n = at' => AfterNegatives(n)'
    BY <1>1, <1>5, CollectDefaultsStarts DEF IInv, CollectDefaults
  <2>2. at' <= NegativeEnd'
    BY <1>1, <1>5, LiteralTypes DEF CollectDefaults, NegativeEnd
  <2> QED
    BY <1>1, <1>2, <1>5, <2>1, <2>2 DEF IInv, CollectDefaults
<1>6. CASE AddNegative
  <2>1. IndexedWell => \A n \in Nat : n = at' => AfterNegatives(n)'
    BY <1>1, <1>6, AddNegativeKeeps DEF IInv, AddNegative
  <2>2. at' <= NegativeEnd'
    BY <1>1, <1>6, LiteralTypes DEF AddNegative, NegativeEnd
  <2> QED
    BY <1>1, <1>2, <1>3, <1>6, <2>1, <2>2 DEF IInv, AddNegative
<1>7. CASE PropagateDefaults
  <2>1. IndexedWell => Selected'
    BY <1>1, <1>7, PropagateDefaultsSelects DEF IInv, PropagateDefaults
  <2> QED
    BY <1>1, <1>2, <1>3, <1>7, <2>1 DEF IInv, PropagateDefaults
<1>8. CASE UNCHANGED build_vars
  <2>1. /\ \A n : AfterPositives(n)' <=> AfterPositives(n)
        /\ \A n : AfterNegatives(n)' <=> AfterNegatives(n)
        /\ Selected' <=> Selected
        /\ PositiveEnd' = PositiveEnd /\ NegativeEnd' = NegativeEnd
    BY <1>8, SameService DEF build_vars, AfterPositives, AfterNegatives, Keys, Selected, lookup
  <2> QED
    BY <1>2, <1>3, <1>8, <2>1 DEF IInv, build_vars
<1> QED
  BY <1>4, <1>5, <1>6, <1>7, <1>8 DEF BuildNext

LEMMA Invariance == Spec => []IInv
BY InitEstablishes, StepPreserves, PTL DEF Spec

\* The tables hold indices of the service's callbacks under values of the
\* field, whatever the literals are.
THEOREM TypeCorrect == Spec => []BuilderTypeOK
<1>1. IInv => BuilderTypeOK
  BY DEF IInv
<1> QED
  BY <1>1, Invariance, PTL

\* Every index yields, for every value, the callbacks whose literals agree with
\* it and no others: for every number of fields, values, callbacks and literals.
THEOREM IndicesSelect ==
  ASSUME \A s \in Services : s.indexed => OneLiteral(s) /\ NoSharedNegative(s)
  PROVE  Spec => []IndexSelects
<1>1. IInv => IndexSelects
  BY DEF IInv, IndexedWell, IndexSelects, Selected
<1> QED
  BY <1>1, Invariance, PTL

----------------------------------------------------------------------------
(***************************************************************************)
(* A service calls the callbacks whose matchers, as written, accept the    *)
(* message, provided that what is left of the matchers, together with the  *)
(* literals taken over by the indices, means what was written              *)
(* (TermsMeanMatchers): for every number of callbacks, fields, values and  *)
(* messages, and however the predicates change.                            *)
(*                                                                         *)
(* The callbacks due for a message are known from the service alone; while *)
(* it is handled, each of them is a candidate or has had its turn.         *)
(***************************************************************************)

Due(m) ==
  {idx \in Indices : service.indexed => \A f \in Indexed : Agrees(idx, f, m[f])}

\* TermsMeanMatchers, of the service alone.
Meaning ==
  \A o \in Owners, m \in Messages, on \in SUBSET Predicates :
    <<m, on>> \in service.wanted[o] <=> Covers(o, m, on)

\* A callback that is due and is not a candidate has been called if it accepts.
HadItsTurn ==
  \A idx \in Due(msg) \ candidates :
    <<msg, predicates>> \in service.accepts[idx] =>
      \E c \in served : c.owner = service.owner[idx]

Handling ==
  /\ stage = "built"
  /\ msg \in Messages
  /\ Meaning
  /\ candidates \subseteq Due(msg)
  /\ OnlyMatchedRun
  /\ steady => HadItsTurn

HInv ==
  /\ IInv
  /\ HandlerTypeOK
  /\ msg = no_msg => candidates = {} /\ served = {}

CInv ==
  /\ HInv
  /\ msg # no_msg => Handling

----------------------------------------------------------------------------
\* Handling a message does not touch the builder.
LEMMA HandlerBuilds ==
  ASSUME [HandlerNext]_vars
  PROVE  [BuildNext]_build_vars /\ service' = service
<1>1. [BuildNext]_build_vars
  BY DEF HandlerNext, Change, Handle, Invoke, Return, vars
<1> QED
  BY <1>1, ServiceKept

LEMMA ServiceOwners ==
  ASSUME service \in Services
  PROVE  \A idx \in Indices : service.owner[idx] \in Owners
BY MessageTypes DEF Indices, Owners

LEMMA HandlerTyped == HandlerInit => HInv
<1> SUFFICES ASSUME HandlerInit PROVE HInv
  OBVIOUS
<1>1. IInv
  BY InitEstablishes DEF HandlerInit
<1> QED
  BY <1>1 DEF HandlerInit, HInv, HandlerTypeOK, IInv

LEMMA HandlerStaysTyped == HInv /\ [HandlerNext]_vars => HInv'
<1> SUFFICES ASSUME HInv, [HandlerNext]_vars PROVE HInv'
  OBVIOUS
<1>1. IInv' /\ BuilderTypeOK'
  BY HandlerBuilds, StepPreserves DEF HInv, IInv
<1>2. Indices' = Indices /\ Owners' = Owners /\ service \in Services
  BY HandlerBuilds DEF Indices, Owners, HInv, IInv
<1>3. CASE BuildNext /\ UNCHANGED handle_vars
  BY <1>1, <1>2, <1>3 DEF HInv, HandlerTypeOK, handle_vars
<1>4. ASSUME NEW p \in Predicates, Change(p) PROVE HInv'
  BY <1>1, <1>2, <1>4 DEF Change, HInv, HandlerTypeOK
<1>5. ASSUME NEW m \in Messages, Handle(m) PROVE HInv'
  <2>1. callback_candidates(m) \subseteq Indices
    BY DEF callback_candidates
  <2> QED
    BY <1>1, <1>2, <1>5, <2>1, MessageTypes DEF Handle, HInv, HandlerTypeOK
<1>6. ASSUME NEW idx \in Indices, Invoke(idx) PROVE HInv'
  <2>1. [owner |-> service.owner[idx], on |-> predicates] \in [owner : Owners, on : SUBSET Predicates]
    BY <1>2, ServiceOwners DEF HInv, HandlerTypeOK
  <2>2. served' \subseteq [owner : Owners, on : SUBSET Predicates]
    BY <1>6, <2>1 DEF Invoke, HInv, HandlerTypeOK
  <2>3. msg' # no_msg
    BY <1>6 DEF Invoke, HInv
  <2> QED
    BY <1>1, <1>2, <1>6, <2>2, <2>3 DEF Invoke, HInv, HandlerTypeOK
<1>7. CASE Return
  BY <1>1, <1>2, <1>7 DEF Return, HInv, HandlerTypeOK
<1>8. CASE UNCHANGED vars
  BY <1>1, <1>2, <1>8 DEF vars, handle_vars, HInv, HandlerTypeOK
<1> QED
  BY <1>3, <1>4, <1>5, <1>6, <1>7, <1>8 DEF HandlerNext

\* Messages, candidates and calls are of the kind they should be, whatever the
\* callbacks are and whenever the predicates change.
THEOREM HandlerTypeCorrect == HandlerSpec => []HandlerTypeOK
<1>1. HInv => HandlerTypeOK
  BY DEF HInv
<1> QED
  BY <1>1, HandlerTyped, HandlerStaysTyped, PTL DEF HandlerSpec

----------------------------------------------------------------------------
\* What the indices yield is what is due.
LEMMA CandidatesAreDue ==
  ASSUME IInv, service.indexed => IndexedWell, stage = "built", NEW m \in Messages
  PROVE  callback_candidates(m) = Due(m)
<1>1. CASE service.indexed
  <2>1. \A idx \in Indices, f \in Indexed : idx \in lookup(f, m[f]) <=> Agrees(idx, f, m[f])
    BY <1>1, ServiceTypes, MessageTypes DEF IInv, Selected
  <2> QED
    BY <1>1, <2>1 DEF callback_candidates, Due
<1>2. CASE ~ service.indexed
  BY <1>2 DEF callback_candidates, Due
<1> QED
  BY <1>1, <1>2

\* While the service stays, what is due and what is meant stay.
LEMMA SameMeaning ==
  ASSUME service' = service
  PROVE  /\ \A m : Due(m)' = Due(m)
         /\ \A o, m, on : Covers(o, m, on)' <=> Covers(o, m, on)
         /\ Meaning' <=> Meaning
<1>1. \A m : Due(m)' = Due(m)
  BY SameService DEF Due
<1>2. \A o, m, on : Covers(o, m, on)' <=> Covers(o, m, on)
  BY SameService DEF Covers
<1>3. Owners' = Owners
  BY DEF Owners
<1> QED
  BY <1>1, <1>2, <1>3 DEF Meaning

LEMMA HandleStarts ==
  ASSUME HInv, service.indexed => IndexedWell, TermsMeanMatchers,
         NEW m \in Messages, Handle(m)
  PROVE  Handling'
<1>1. Meaning
  BY DEF TermsMeanMatchers, Meaning, Handle
<1>2. /\ msg' = m /\ candidates' = Due(m) /\ served' = {} /\ stage' = "built"
      /\ service' = service
  BY CandidatesAreDue DEF Handle, HInv, build_vars
<1>3. Meaning' /\ candidates' \subseteq Due(msg)'
  BY <1>1, <1>2, SameMeaning DEF Due, Indices, Agrees
<1>4. OnlyMatchedRun' /\ HadItsTurn'
  BY <1>2, <1>3, SameMeaning DEF OnlyMatchedRun, HadItsTurn, Due, Indices, Agrees
<1> QED
  BY <1>2, <1>3, <1>4 DEF Handling

LEMMA InvokeKeeps ==
  ASSUME HInv, Handling, NEW idx \in Indices, Invoke(idx)
  PROVE  Handling'
<1>1. /\ UNCHANGED <<service, stage, msg, predicates, steady>>
      /\ idx \in candidates
      /\ candidates' = candidates \ {idx}
      /\ served \subseteq served'
  BY DEF Invoke, build_vars
<1>2. service.owner[idx] \in Owners /\ predicates \in SUBSET Predicates /\ Owners' = Owners
  BY <1>1, ServiceOwners DEF HInv, IInv, HandlerTypeOK, Owners
<1>3. Meaning'
  BY <1>1, SameMeaning DEF Handling
<1>4. Due(msg)' = Due(msg)
  BY <1>1 DEF Due, Indices, Agrees
<1>5. <<msg, predicates>> \in service.accepts[idx] =>
        <<msg, predicates>> \in service.wanted[service.owner[idx]]
  BY <1>1, <1>2 DEF Handling, Meaning, Covers, Due
<1>6. \A c \in served' : c \in served \/
        (<<msg, predicates>> \in service.accepts[idx] /\
           c = [owner |-> service.owner[idx], on |-> predicates])
  BY DEF Invoke
<1>7. \A c \in served' : <<msg, c.on>> \in service.wanted[c.owner]
  <2> TAKE c \in served'
  <2>1. CASE c \in served
    BY <2>1 DEF Handling, OnlyMatchedRun
  <2>2. CASE c \notin served
    BY <1>5, <1>6, <2>2
  <2> QED
    BY <2>1, <2>2
<1>8. HadItsTurn => HadItsTurn'
  <2> SUFFICES ASSUME HadItsTurn,
                      NEW j \in Due(msg) \ candidates',
                      <<msg, predicates>> \in service.accepts[j]
               PROVE  \E c \in served' : c.owner = service.owner[j]
    BY <1>1, <1>4 DEF HadItsTurn
  <2>1. CASE j = idx
    <3> DEFINE call == [owner |-> service.owner[idx], on |-> predicates]
    <3>1. call \in served'
      BY <2>1 DEF Invoke
    <3>2. call.owner = service.owner[idx]
      OBVIOUS
    <3> QED
      BY <2>1, <3>1, <3>2
  <2>2. CASE j # idx
    BY <1>1, <2>2 DEF HadItsTurn
  <2> QED
    BY <2>1, <2>2
<1> QED
  BY <1>1, <1>3, <1>4, <1>7, <1>8 DEF Handling, OnlyMatchedRun

\* A change of a predicate during a message ends what steady says.
LEMMA ChangeKeeps ==
  ASSUME Handling, msg # no_msg, NEW p \in Predicates, Change(p)
  PROVE  Handling'
<1>1. UNCHANGED <<service, stage, msg, candidates, served>> /\ ~ steady'
  BY DEF Change, build_vars
<1>2. Meaning' /\ Due(msg)' = Due(msg)
  BY <1>1, SameMeaning DEF Handling, Due, Indices, Agrees
<1> QED
  BY <1>1, <1>2 DEF Handling, OnlyMatchedRun

LEMMA CalledStep ==
  ASSUME CInv, service.indexed => IndexedWell, TermsMeanMatchers, [HandlerNext]_vars
  PROVE  CInv'
<1>1. HInv'
  BY HandlerStaysTyped DEF CInv
<1>2. CASE BuildNext /\ UNCHANGED handle_vars
  <2>1. stage # "built"
    BY <1>2 DEF BuildNext, AddPositive, CollectDefaults, AddNegative, PropagateDefaults
  <2> QED
    BY <1>1, <1>2, <2>1 DEF CInv, Handling, handle_vars
<1>3. ASSUME NEW p \in Predicates, Change(p) PROVE CInv'
  BY <1>1, <1>3, ChangeKeeps DEF CInv, Change
<1>4. ASSUME NEW m \in Messages, Handle(m) PROVE CInv'
  BY <1>1, <1>4, HandleStarts DEF CInv
<1>5. ASSUME NEW idx \in Indices, Invoke(idx) PROVE CInv'
  <2>1. msg # no_msg
    BY <1>5 DEF Invoke, CInv, HInv
  <2> QED
    BY <1>1, <1>5, <2>1, InvokeKeeps DEF CInv
<1>6. CASE Return
  BY <1>1, <1>6 DEF CInv, Return
<1>7. CASE UNCHANGED vars
  <2>1. UNCHANGED <<service, stage, msg, candidates, predicates, served, steady>>
    BY <1>7 DEF vars, build_vars, handle_vars
  <2>2. Meaning' <=> Meaning
    BY <2>1, SameMeaning
  <2>3. Due(msg)' = Due(msg)
    BY <2>1 DEF Due, Indices, Agrees
  <2> QED
    BY <1>1, <2>1, <2>2, <2>3 DEF CInv, Handling, OnlyMatchedRun, HadItsTurn
<1> QED
  BY <1>2, <1>3, <1>4, <1>5, <1>6, <1>7 DEF HandlerNext

LEMMA HandlingCalls == CInv => CalledAsMatched
<1> SUFFICES ASSUME CInv PROVE CalledAsMatched
  OBVIOUS
<1>1. OnlyMatchedRun
  BY DEF CInv, HInv, Handling, OnlyMatchedRun
<1>2. ASSUME msg # no_msg, candidates = {}, steady,
             NEW o \in Owners, <<msg, predicates>> \in service.wanted[o]
      PROVE  \E c \in served : c.owner = o
  <2>1. Covers(o, msg, predicates)
    BY <1>2 DEF CInv, HInv, HandlerTypeOK, Handling, Meaning
  <2>2. PICK idx \in Due(msg) :
          service.owner[idx] = o /\ <<msg, predicates>> \in service.accepts[idx]
    BY <2>1 DEF Covers, Due
  <2> QED
    BY <1>2, <2>2 DEF CInv, Handling, HadItsTurn
<1> QED
  BY <1>1, <1>2 DEF CalledAsMatched, AllMatchedRun

\* If what the indices take over and what is left of each matcher mean what was
\* written, a service calls exactly the callbacks that were meant to run.
THEOREM CallsAsMatched ==
  ASSUME \A s \in Services : s.indexed => OneLiteral(s) /\ NoSharedNegative(s)
  PROVE  HandlerSpec /\ []TermsMeanMatchers => []CalledAsMatched
<1>1. HandlerInit => CInv
  BY HandlerTyped DEF CInv, HandlerInit
<1>2. CInv /\ TermsMeanMatchers /\ [HandlerNext]_vars => CInv'
  BY CalledStep DEF CInv, HInv, IInv, IndexedWell
<1> QED
  BY <1>1, <1>2, HandlingCalls, PTL DEF HandlerSpec
----------------------------------------------------------------------------
(***************************************************************************)
(* Messages as they are defined: what is made of located fields is made of *)
(* located fields with the same names, one of each name.                   *)
(***************************************************************************)
\* A list of located fields.
Listed(m) == m \in Seq(LocatedFields)

OnePerName(m) == \A f, g \in Range(m) : f.name = g.name => f = g

LEMMA LocatedIs ==
  ASSUME NEW f \in LocatedFields
  PROVE  /\ f.ats \in Seq(Locations) /\ Len(f.ats) \in Nat \ {0}
         /\ DOMAIN f.ats = 1 .. Len(f.ats)
         /\ \A k \in DOMAIN f.ats : /\ f.ats[k] \in Locations
                                    /\ f.ats[k].lsb \in Nat /\ f.ats[k].msb \in Nat
                                    /\ f.ats[k].lsb <= f.ats[k].msb
<1>1. f.ats \in Seq(Locations) /\ f.ats # <<>>
  BY DEF LocatedFields, DefinedFields, FieldsNamed, is_locatable
<1>2. Len(f.ats) \in Nat /\ DOMAIN f.ats = 1 .. Len(f.ats)
  BY <1>1
<1>3. \A k \in DOMAIN f.ats : f.ats[k] \in Locations
  <2> HIDE DEF Locations
  <2> QED BY <1>1
<1>4. Len(f.ats) # 0
  BY <1>1, <1>2
<1>5. QED
  BY <1>1, <1>2, <1>3, <1>4 DEF Locations

LEMMA SortKeyIs ==
  ASSUME NEW f \in LocatedFields
  PROVE  sort_key(f) \in Nat
<1> DEFINE T == {a.lsb : a \in Range(f.ats)}
<1>1. T \in SUBSET Nat /\ T # {}
  BY LocatedIs DEF Range
<1>2. \E x \in T : \A y \in T : x <= y
  <2> HIDE DEF T
  <2> QED BY <1>1, LeastOf
<1>3. Min(T) \in T
  <2> HIDE DEF T
  <2> QED BY <1>1, <1>2 DEF Min
<1>4. QED
  BY <1>1, <1>3 DEF sort_key

\* A list that is sorted has the items there were.
LEMMA SortedIs ==
  ASSUME NEW n \in Nat, NEW fields, DOMAIN fields = 1 .. n, NEW before,
         NEW rank \in [1 .. n -> Int],
         \A i, j \in 1 .. n : <<i, j>> \in before <=> rank[i] < rank[j]
  PROVE  Lists(sorted_by(fields, before), n, fields, 1 .. n)
<1> DEFINE S == 1 .. n
           Precedes(j, i) == <<j, i>> \in before \/ (<<i, j>> \notin before /\ j < i)
           order == {e \in S \X S : Precedes(e[1], e[2])}
           ranking == [i \in DOMAIN fields |-> Cardinality({j \in DOMAIN fields : Precedes(j, i)})]
<1>1. IsFiniteSet(S) /\ Cardinality(S) = n
  <2>1. IsFiniteSet(1 .. n) /\ Cardinality(1 .. n) = IF 1 > n THEN 0 ELSE n - 1 + 1
    BY FS_Interval
  <2>2. QED
    BY <2>1
<1>2. Orders(order, S)
  <2>1. \A i, j \in S : <<i, j>> \in order <=> Precedes(i, j)
    OBVIOUS
  <2>2. \A i, j \in S : Precedes(i, j) <=> rank[i] < rank[j] \/ (rank[i] = rank[j] /\ i < j)
    <3> SUFFICES ASSUME NEW i \in S, NEW j \in S
                 PROVE  Precedes(i, j) <=> rank[i] < rank[j] \/ (rank[i] = rank[j] /\ i < j)
      OBVIOUS
    <3>1. rank[i] \in Int /\ rank[j] \in Int
      OBVIOUS
    <3>2. (<<i, j>> \in before <=> rank[i] < rank[j]) /\ (<<j, i>> \in before <=> rank[j] < rank[i])
      OBVIOUS
    <3>3. QED
      BY <3>1, <3>2
  <2>3. \A i, j \in S : Precedes(i, j) => ~Precedes(j, i)
    BY <2>2
  <2>4. \A i, j \in S : i # j => Precedes(i, j) \/ Precedes(j, i)
    BY <2>2
  <2>5. \A i, j, k \in S : Precedes(i, j) /\ Precedes(j, k) => Precedes(i, k)
    BY <2>2
  <2>6. QED
    <3> HIDE DEF order, Precedes
    <3> QED
      BY <2>1, <2>3, <2>4, <2>5 DEF Orders
<1>3. \A i \in S : {j \in S : <<j, i>> \in order} = {j \in S : Precedes(j, i)}
  <2> HIDE DEF Precedes
  <2> QED
    OBVIOUS
<1>4. IsRanking([i \in S |-> Cardinality({j \in S : <<j, i>> \in order})], S)
  <2> HIDE DEF order, S
  <2> QED
    BY <1>1, <1>2, CountingRanks
<1>5. IsRanking(ranking, S)
  <2>1. [i \in S |-> Cardinality({j \in S : <<j, i>> \in order})] = ranking
    <3> HIDE DEF order, Precedes
    <3> QED
      BY <1>3
  <2>2. QED
    <3> HIDE DEF order, Precedes, ranking, S
    <3> QED
      BY <1>4, <2>1
<1>6. sorted_by(fields, before) = arranged(fields, ranking)
  BY DEF sorted_by
<1>7. QED
  <2> HIDE DEF ranking, S
  <2>1. Lists(arranged(fields, ranking), Cardinality(S), fields, S)
    BY <1>1, <1>5, Arranged
  <2>2. QED
    BY <1>1, <1>6, <2>1 DEF S

\* The members of a list are those of another.
LEMMA ListsRange ==
  ASSUME NEW list, NEW n \in Nat, NEW items, NEW S \in SUBSET DOMAIN items, Lists(list, n, items, S)
  PROVE  /\ Range(list) = {items[i] : i \in S}
         /\ Range(list) \subseteq Range(items)
         /\ \A T : Range(items) \subseteq T => list \in Seq(T)
<1>1. DOMAIN list = 1 .. n
  BY DEF Lists
<1>2. Range(list) = {items[i] : i \in S}
  <2>1. Range(list) = {list[k] : k \in 1 .. n}
    BY <1>1 DEF Range
  <2>2. \A k \in 1 .. n : \E i \in S : list[k] = items[i]
    BY DEF Lists
  <2>3. \A i \in S : \E k \in 1 .. n : list[k] = items[i]
    BY DEF Lists
  <2>4. QED
    BY <2>1, <2>2, <2>3
<1>3. Range(list) \subseteq Range(items)
  BY <1>2 DEF Range
<1>4. ASSUME NEW T, Range(items) \subseteq T PROVE list \in Seq(T)
  <2>1. \A k \in 1 .. n : list[k] \in T
    BY <1>1, <1>3, <1>4 DEF Range
  <2>2. QED
    BY <1>1, <2>1 DEF Lists
<1>5. QED
  BY <1>2, <1>3, <1>4

LEMMA SortedByLocation ==
  ASSUME NEW m, Listed(m)
  PROVE  Lists(sorted_by_location(m), Len(m), m, 1 .. Len(m))
<1> DEFINE before == {p \in PositionPairs(m) : field_sort_fn(m[p[1]], m[p[2]])}
           rank == [i \in 1 .. Len(m) |-> sort_key(m[i])]
<1>1. Len(m) \in Nat /\ DOMAIN m = 1 .. Len(m) /\ \A i \in 1 .. Len(m) : m[i] \in LocatedFields
  <2> HIDE DEF LocatedFields
  <2> QED BY DEF Listed
<1>2. rank \in [1 .. Len(m) -> Int]
  BY <1>1, SortKeyIs
<1>3. \A i, j \in 1 .. Len(m) : <<i, j>> \in before <=> rank[i] < rank[j]
  BY <1>1 DEF PositionPairs, field_sort_fn
<1>4. QED
  <2> HIDE DEF before, rank
  <2>1. Lists(sorted_by(m, before), Len(m), m, 1 .. Len(m))
    BY <1>1, <1>2, <1>3, SortedIs
  <2>2. QED
    BY <2>1 DEF sorted_by_location, before

\* Of the fields with one name the first stays.
LEMMA UniqueByName ==
  ASSUME NEW m, Listed(m)
  PROVE  /\ Listed(unique_by_name(m))
         /\ Range(unique_by_name(m)) \subseteq Range(m)
         /\ names_of(unique_by_name(m)) = names_of(m)
         /\ OnePerName(unique_by_name(m))
<1> DEFINE n == Len(m)
           sorted == sorted_by_location(m)
           S == first_of_name(sorted)
           u == at_positions(sorted, S)
<1>1. n \in Nat /\ DOMAIN m = 1 .. n /\ Range(m) \subseteq LocatedFields
  BY DEF Listed, Range
<1>2. Lists(sorted, n, m, 1 .. n)
  BY SortedByLocation
<1>3. DOMAIN sorted = 1 .. n
  BY <1>2 DEF Lists
<1>4. Range(sorted) = Range(m)
  <2> HIDE DEF sorted
  <2>1. Range(sorted) = {m[i] : i \in 1 .. n}
    BY <1>1, <1>2, ListsRange
  <2>2. QED
    BY <1>1, <2>1 DEF Range
<1>5. S \in SUBSET (1 .. n)
  BY <1>3 DEF first_of_name
<1>6. PICK k \in Nat : Lists(u, k, sorted, S)
  <2> HIDE DEF S, sorted
  <2> QED BY <1>1, <1>5, AtPositions
<1>7. /\ Range(u) = {sorted[i] : i \in S}
      /\ Range(u) \subseteq Range(sorted)
      /\ u \in Seq(LocatedFields)
  <2> HIDE DEF S, sorted, u
  <2> QED BY <1>1, <1>3, <1>4, <1>5, <1>6, ListsRange
<1>8. ASSUME NEW i \in 1 .. n PROVE \E j \in S : sorted[j].name = sorted[i].name
  <2> DEFINE T == {j \in 1 .. n : sorted[j].name = sorted[i].name}
  <2>1. T \in SUBSET Nat /\ T # {}
    OBVIOUS
  <2>2. PICK x \in T : \A y \in T : x <= y
    <3> HIDE DEF T
    <3> QED
      BY <2>1, LeastOf
  <2>3. \A y \in 1 .. x - 1 : sorted[y].name # sorted[x].name
    <3> HIDE DEF sorted
    <3> QED BY <1>1, <2>2
  <2>4. x \in S
    <3> HIDE DEF sorted
    <3> QED BY <1>3, <2>2, <2>3 DEF first_of_name
  <2>5. QED
    BY <2>2, <2>4
<1>9. names_of(u) = names_of(m)
  <2> HIDE DEF S, sorted, u
  <2>1. ASSUME NEW f \in Range(u) PROVE f \in Range(m)
    BY <1>4, <1>7
  <2>2. ASSUME NEW f \in Range(m) PROVE \E g \in Range(u) : g.name = f.name
    <3>1. PICK i \in 1 .. n : f = sorted[i]
      BY <1>3, <1>4 DEF Range
    <3>2. PICK j \in S : sorted[j].name = f.name
      BY <1>8, <3>1
    <3>3. sorted[j] \in Range(u)
      BY <1>7
    <3>4. QED
      BY <3>2, <3>3
  <2>3. QED
    BY <2>1, <2>2 DEF names_of
<1>10. OnePerName(u)
  <2>1. \A i, j \in S : sorted[i].name = sorted[j].name => i = j
    <3> HIDE DEF sorted
    <3> SUFFICES ASSUME NEW i \in S, NEW j \in S, i # j PROVE sorted[i].name # sorted[j].name
      OBVIOUS
    <3>1. i \in 1 .. n /\ j \in 1 .. n
      BY <1>5
    <3>2. i \in 1 .. j - 1 \/ j \in 1 .. i - 1
      BY <1>1, <3>1
    <3>3. QED
      BY <3>2 DEF first_of_name
  <2>2. QED
    <3> HIDE DEF S, sorted, u
    <3> QED BY <1>7, <2>1 DEF OnePerName
<1>11. u = unique_by_name(m)
  BY DEF unique_by_name
<1>12. QED
  <2> HIDE DEF u
  <2> QED BY <1>4, <1>7, <1>9, <1>10, <1>11 DEF Listed

----------------------------------------------------------------------------
(* Lists that are put one after the other. *)

LEMMA ConcatRange ==
  ASSUME NEW S, NEW s \in Seq(S), NEW t \in Seq(S)
  PROVE  s \o t \in Seq(S) /\ Range(s \o t) = Range(s) \cup Range(t)
<1>1. s \o t \in Seq(S)
  OBVIOUS
<1>2. Range(s \o t) \subseteq Range(s) \cup Range(t)
  BY DEF Range
<1>3. Range(s) \subseteq Range(s \o t)
  BY DEF Range
<1>4. ASSUME NEW k \in DOMAIN t PROVE t[k] \in Range(s \o t)
  <2>1. Len(s) + k \in DOMAIN (s \o t) /\ (s \o t)[Len(s) + k] = t[k]
    OBVIOUS
  <2>2. QED
    BY <2>1 DEF Range
<1>5. Range(t) \subseteq Range(s \o t)
  BY <1>4 DEF Range
<1>6. QED
  BY <1>1, <1>2, <1>3, <1>5

\* The number before each of those up to n.
Before(n) == [i \in 1 .. n |-> IF i = 1 THEN {} ELSE {i - 1}]

\* The numbers up to n, each of which has the one before it as a part.
LEMMA UpToParted ==
  ASSUME NEW n \in Nat
  PROVE  Parted(1 .. n, [i \in 1 .. n |-> i], Before(n))
  BY DEF Parted, Before

\* FlattenSeq has the items of each list.
LEMMA FlattenIs ==
  ASSUME NEW S, NEW ms \in Seq(Seq(S)), Len(ms) > 0
  PROVE  /\ FlattenSeq(ms) \in Seq(S)
         /\ \A x : x \in Range(FlattenSeq(ms)) <=> \E i \in DOMAIN ms : x \in Range(ms[i])
<1> DEFINE n == Len(ms)
           V == Seq(S)
           value == [i \in 1 .. n |-> [g \in [Before(n)[i] -> V] |->
                       IF i = 1 THEN ms[i] ELSE g[i - 1] \o ms[i]]]
<1>1. n \in Nat /\ DOMAIN ms = 1 .. n /\ \A i \in 1 .. n : ms[i] \in V
  OBVIOUS
<1>2. Valued(1 .. n, Before(n), V, value)
  <2> SUFFICES ASSUME NEW i \in 1 .. n, NEW g \in [Before(n)[i] -> V]
               PROVE  (IF i = 1 THEN ms[i] ELSE g[i - 1] \o ms[i]) \in V
    BY DEF Valued
  <2>1. CASE i = 1
    BY <1>1, <2>1
  <2>2. CASE i # 1
    <3>1. g[i - 1] \in V
      BY <2>2 DEF Before
    <3>2. QED
      BY <1>1, <2>2, <3>1
  <2>3. QED
    BY <2>1, <2>2
<1>3. PICK f \in [1 .. n -> V] : \A i \in 1 .. n : FollowsAt(f, Before(n), value, i)
  <2>1. V # {}
    <3>1. <<>> \in V
      OBVIOUS
    <3>2. QED
      BY <3>1
  <2> HIDE DEF V, value
  <2>2. Parted(1 .. n, [i \in 1 .. n |-> i], Before(n))
    BY <1>1, UpToParted
  <2>3. QED
    BY <1>2, <2>1, <2>2, RecursionExists
<1>4. ASSUME NEW i \in 1 .. n
      PROVE  f[i] = IF i = 1 THEN ms[i] ELSE f[i - 1] \o ms[i]
  <2> DEFINE g == [c \in Before(n)[i] |-> f[c]]
  <2>1. g \in [Before(n)[i] -> V]
    <3> HIDE DEF V
    <3> QED BY <1>1 DEF Before
  <2>2. f[i] = value[i][g]
    <3> HIDE DEF V, value
    <3> QED BY <1>3 DEF FollowsAt
  <2>3. f[i] = IF i = 1 THEN ms[i] ELSE g[i - 1] \o ms[i]
    <3> HIDE DEF V, g
    <3> QED BY <2>1, <2>2
  <2>4. i # 1 => g[i - 1] = f[i - 1]
    BY DEF Before
  <2>5. QED
    <3> HIDE DEF V, g
    <3> QED BY <2>3, <2>4
<1>5. f = [i \in 1 .. n |-> IF i = 1 THEN ms[i] ELSE f[i - 1] \o ms[i]]
  <2> HIDE DEF V
  <2> QED BY <1>4
<1> DEFINE F == CHOOSE h : h = [i \in 1 .. n |-> IF i = 1 THEN ms[i] ELSE h[i - 1] \o ms[i]]
<1>6. F = [i \in 1 .. n |-> IF i = 1 THEN ms[i] ELSE F[i - 1] \o ms[i]]
  <2> HIDE DEF V, value
  <2> QED BY <1>5
<1>7. FlattenSeq(ms) = F[n]
  <2> HIDE DEF V, value
  <2> QED BY <1>1 DEF FlattenSeq
<1> DEFINE Right(i) == F[i] \in Seq(S) /\ \A x : x \in Range(F[i]) <=> \E j \in 1 .. i : x \in Range(ms[j])
           T == {i \in 1 .. n : ~Right(i)}
<1>8. T = {}
  <2> SUFFICES ASSUME T # {} PROVE FALSE
    OBVIOUS
  <2>1. T \in SUBSET Nat
    BY <1>1
  <2>2. PICK i \in T : \A j \in T : i <= j
    <3> HIDE DEF T
    <3> QED BY <2>1, LeastOf
  <2>3. F[i] = IF i = 1 THEN ms[i] ELSE F[i - 1] \o ms[i]
    <3> HIDE DEF F
    <3> QED BY <1>6
  <2>4. ms[i] \in Seq(S)
    BY <1>1
  <2>5. CASE i = 1
    <3>1. 1 .. i = {1}
      BY <2>5
    <3>2. QED
      <4> HIDE DEF F
      <4> QED BY <2>3, <2>4, <2>5, <3>1
  <2>6. CASE i # 1
    <3>0. i \in 1 .. n
      <4> HIDE DEF Right, F, V
      <4> QED OBVIOUS
    <3>1. i - 1 \in 1 .. n /\ i - 1 \notin T
      <4> HIDE DEF T
      <4>1. i - 1 \in 1 .. n /\ ~(i <= i - 1)
        BY <1>1, <2>6, <3>0
      <4>2. QED
        BY <2>2, <4>1
    <3>2. Right(i - 1)
      <4> HIDE DEF Right
      <4> QED BY <3>1
    <3>3. F[i] \in Seq(S) /\ Range(F[i]) = Range(F[i - 1]) \cup Range(ms[i])
      <4> HIDE DEF F
      <4> QED BY <2>3, <2>4, <2>6, <3>2, ConcatRange
    <3>4. 1 .. i = (1 .. i - 1) \cup {i}
      <4> HIDE DEF T
      <4>1. i - 1 \in Nat /\ i \in Int
        BY <1>1, <3>0, <3>1
      <4>2. QED
        BY <4>1
    <3>5. QED
      <4> HIDE DEF F
      <4> QED BY <3>2, <3>3, <3>4
  <2>7. Right(i)
    <3> HIDE DEF Right
    <3> QED BY <2>5, <2>6
  <2>8. QED
    <3> HIDE DEF Right
    <3> QED BY <2>2, <2>7
<1>9. Right(n)
  <2>1. n \in 1 .. n
    BY <1>1
  <2>2. QED
    <3> HIDE DEF Right
    <3> QED BY <1>8, <2>1
<1>10. QED
  <2> HIDE DEF F
  <2> QED BY <1>1, <1>7, <1>9

----------------------------------------------------------------------------
(* The elements that a field takes. *)

\* A finite set of naturals has a greatest member.
LEMMA MaxIs ==
  ASSUME NEW S \in SUBSET Nat, IsFiniteSet(S), S # {}
  PROVE  Max(S) \in S /\ \A x \in S : x <= Max(S)
<1> DEFINE Above(x) == {y \in S : y > x}
           T == {Cardinality(Above(x)) : x \in S}
<1>1. \A x \in S : IsFiniteSet(Above(x)) /\ Cardinality(Above(x)) \in Nat
  BY FS_Subset, FS_CardinalityType
<1>2. T \in SUBSET Nat /\ T # {}
  BY <1>1
<1>3. PICK c \in T : \A d \in T : c <= d
  <2> HIDE DEF T
  <2> QED BY <1>2, LeastOf
<1>4. PICK x \in S : c = Cardinality(Above(x))
  OBVIOUS
<1>5. ASSUME NEW y \in S, y > x PROVE FALSE
  <2>1. Above(y) \in SUBSET Above(x) /\ y \in Above(x) \ Above(y)
    <3>1. \A z \in S : z > y => z > x
      BY <1>5
    <3>2. ~(y > y)
      OBVIOUS
    <3>3. QED
      BY <1>5, <3>1, <3>2
  <2>2. Cardinality(Above(y)) < Cardinality(Above(x))
    <3> HIDE DEF Above
    <3>1. Cardinality(Above(y)) <= Cardinality(Above(x)) /\ Cardinality(Above(y)) # Cardinality(Above(x))
      BY <1>1, <2>1, FS_Subset
    <3>2. QED
      BY <1>1, <3>1
  <2>3. Cardinality(Above(y)) \in T
    OBVIOUS
  <2>4. QED
    <3> HIDE DEF Above, T
    <3> QED BY <1>1, <1>3, <1>4, <2>2, <2>3
<1>6. \A y \in S : x >= y
  BY <1>5
<1>7. QED
  BY <1>6 DEF Max

LEMMA RangeFinite ==
  ASSUME NEW n \in Nat, NEW s, DOMAIN s = 1 .. n
  PROVE  IsFiniteSet(Range(s))
<1> DEFINE f == [k \in 1 .. n |-> s[k]]
<1>1. IsFiniteSet(1 .. n)
  BY FS_Interval
<1>2. f \in Surjection(1 .. n, Range(s))
  BY DEF Surjection, Range
<1>3. QED
  BY <1>1, <1>2, FS_Surjection

WholeElements == {8, 16, 32}

\* The extent of a location in elements covers its last bit.
LEMMA ExtentCovers ==
  ASSUME NEW a \in Locations, NEW size \in WholeElements
  PROVE  /\ extent(locator_for(a), size) \in Nat
         /\ a.msb < extent(locator_for(a), size) * size
         /\ \A b \in locator_for(a).lsb .. locator_for(a).lsb + locator_for(a).size - 1 :
              element(locator_for(a), b, size) \in 0 .. extent(locator_for(a), size) - 1
<1> DEFINE l == locator_for(a)
<1>1. a.lsb \in Nat /\ a.msb \in Nat /\ a.lsb <= a.msb
  BY DEF Locations
<1>2. /\ l.index \in Nat /\ l.lsb \in 0 .. 31 /\ l.size \in Nat /\ l.size >= 1
      /\ a.lsb = l.index * 32 + l.lsb
      /\ a.msb = l.index * 32 + l.lsb + l.size - 1
  BY <1>1 DEF locator_for, at_size
<1>3. PICK i \in Nat, lo \in 0 .. 31, n \in Nat :
        l.index = i /\ l.lsb = lo /\ l.size = n /\ n >= 1 /\ a.msb = i * 32 + lo + n - 1
  BY <1>2
<1>4. CASE size = 8
  <2>1. extent(l, size) = (i * 4 + (lo + n + 7) \div 8)
    <3> HIDE DEF l
    <3> QED BY <1>3, <1>4 DEF extent, bytes_for
  <2>2. \A b : element(l, b, size) = i * 4 + b \div 8
    <3> HIDE DEF l
    <3> QED BY <1>3, <1>4 DEF element
  <2>3. i * 4 + (lo + n + 7) \div 8 \in Nat /\ i * 32 + lo + n - 1 < (i * 4 + (lo + n + 7) \div 8) * 8
    BY <1>3
  <2>4. \A b \in lo .. lo + n - 1 : i * 4 + b \div 8 \in 0 .. (i * 4 + (lo + n + 7) \div 8) - 1
    BY <1>3
  <2>5. QED
    <3> HIDE DEF l
    <3>1. /\ extent(l, size) \in Nat
          /\ a.msb < extent(l, size) * size
          /\ \A b \in l.lsb .. l.lsb + l.size - 1 : element(l, b, size) \in 0 .. extent(l, size) - 1
      BY <1>3, <1>4, <2>1, <2>2, <2>3, <2>4
    <3>2. QED BY <3>1 DEF l
<1>5. CASE size = 16
  <2>1. extent(l, size) = (i * 4 + (lo + n + 7) \div 8 + 1) \div 2
    <3> HIDE DEF l
    <3> QED BY <1>3, <1>5 DEF extent, bytes_for
  <2>2. \A b : element(l, b, size) = i * 2 + b \div 16
    <3> HIDE DEF l
    <3> QED BY <1>3, <1>5 DEF element
  <2>3. (i * 4 + (lo + n + 7) \div 8 + 1) \div 2 \in Nat /\ i * 32 + lo + n - 1 < ((i * 4 + (lo + n + 7) \div 8 + 1) \div 2) * 16
    BY <1>3
  <2>4. \A b \in lo .. lo + n - 1 : i * 2 + b \div 16 \in 0 .. ((i * 4 + (lo + n + 7) \div 8 + 1) \div 2) - 1
    BY <1>3
  <2>5. QED
    <3> HIDE DEF l
    <3>1. /\ extent(l, size) \in Nat
          /\ a.msb < extent(l, size) * size
          /\ \A b \in l.lsb .. l.lsb + l.size - 1 : element(l, b, size) \in 0 .. extent(l, size) - 1
      BY <1>3, <1>5, <2>1, <2>2, <2>3, <2>4
    <3>2. QED BY <3>1 DEF l
<1>6. CASE size = 32
  <2>1. extent(l, size) = (i * 4 + (lo + n + 7) \div 8 + 3) \div 4
    <3> HIDE DEF l
    <3> QED BY <1>3, <1>6 DEF extent, bytes_for
  <2>2. \A b : element(l, b, size) = i + b \div 32
    <3> HIDE DEF l
    <3> QED BY <1>3, <1>6 DEF element
  <2>3. (i * 4 + (lo + n + 7) \div 8 + 3) \div 4 \in Nat /\ i * 32 + lo + n - 1 < ((i * 4 + (lo + n + 7) \div 8 + 3) \div 4) * 32
    BY <1>3
  <2>4. \A b \in lo .. lo + n - 1 : i + b \div 32 \in 0 .. ((i * 4 + (lo + n + 7) \div 8 + 3) \div 4) - 1
    BY <1>3
  <2>5. QED
    <3> HIDE DEF l
    <3>1. /\ extent(l, size) \in Nat
          /\ a.msb < extent(l, size) * size
          /\ \A b \in l.lsb .. l.lsb + l.size - 1 : element(l, b, size) \in 0 .. extent(l, size) - 1
      BY <1>3, <1>6, <2>1, <2>2, <2>3, <2>4
    <3>2. QED BY <3>1 DEF l
<1>7. QED
  BY <1>4, <1>5, <1>6 DEF WholeElements

\* A message takes as many elements as the field that ends last.
LEMMA StorageSizeIs ==
  ASSUME NEW m, Listed(m), NEW size \in WholeElements
  PROVE  /\ storage_size(m, size) \in Nat
         /\ \A f \in Range(m) : \A a \in Range(f.ats) :
              extent(locator_for(a), size) <= storage_size(m, size)
<1> DEFINE extents(f) == {0} \cup {extent(locator_for(a), size) : a \in Range(f.ats)}
           sizes == {0} \cup {extent_in(f, size) : f \in Range(m)}
<1>1. ASSUME NEW f \in LocatedFields
      PROVE  /\ extent_in(f, size) \in Nat
             /\ \A a \in Range(f.ats) : extent(locator_for(a), size) <= extent_in(f, size)
  <2> DEFINE E == [k \in 0 .. Len(f.ats) |-> IF k = 0 THEN 0 ELSE extent(locator_for(f.ats[k]), size)]
  <2>1. Range(f.ats) = {f.ats[k] : k \in 1 .. Len(f.ats)} /\ Len(f.ats) \in Nat
    BY LocatedIs DEF Range
  <2>2. \A a \in Range(f.ats) : extent(locator_for(a), size) \in Nat
    BY LocatedIs, ExtentCovers DEF Range
  <2>3. extents(f) \in SUBSET Nat /\ extents(f) # {}
    BY <2>2
  <2>4. IsFiniteSet(extents(f))
    <3>1. IsFiniteSet(0 .. Len(f.ats))
      BY <2>1, FS_Interval
    <3>2. \A k \in 0 .. Len(f.ats) : E[k] \in extents(f)
      BY <2>1
    <3>3. ASSUME NEW x \in extents(f) PROVE \E k \in 0 .. Len(f.ats) : E[k] = x
      <4>1. CASE x = 0
        BY <2>1, <4>1
      <4>2. CASE x # 0
        <5>1. PICK k \in 1 .. Len(f.ats) : x = extent(locator_for(f.ats[k]), size)
          BY <2>1, <4>2
        <5>2. k \in 0 .. Len(f.ats) /\ k # 0
          BY <2>1
        <5>3. QED
          BY <5>1, <5>2
      <4>3. QED
        BY <4>1, <4>2
    <3>4. E \in Surjection(0 .. Len(f.ats), extents(f))
      <4>1. E \in [0 .. Len(f.ats) -> extents(f)]
        <5>1. E = [k \in 0 .. Len(f.ats) |-> E[k]]
          OBVIOUS
        <5>2. QED
          <6> HIDE DEF extents, E
          <6> QED BY <3>2, <5>1
      <4>2. QED
        <5> HIDE DEF extents, E
        <5> QED BY <3>3, <4>1 DEF Surjection
    <3>5. QED
      <4> HIDE DEF extents, E
      <4> QED BY <3>1, <3>4, FS_Surjection
  <2>5. Max(extents(f)) \in extents(f) /\ \A x \in extents(f) : x <= Max(extents(f))
    <3> HIDE DEF extents
    <3> QED BY <2>3, <2>4, MaxIs
  <2>6. QED
    <3>1. \A a \in Range(f.ats) : extent(locator_for(a), size) \in extents(f)
      OBVIOUS
    <3>2. extent_in(f, size) = Max(extents(f))
      BY DEF extent_in
    <3>3. QED
      <4> HIDE DEF extents
      <4> QED BY <2>3, <2>5, <3>1, <3>2
<1>2. Len(m) \in Nat /\ DOMAIN m = 1 .. Len(m) /\ \A f \in Range(m) : f \in LocatedFields
  <2> HIDE DEF LocatedFields
  <2> QED BY DEF Listed, Range
<1>3. sizes \in SUBSET Nat /\ sizes # {}
  BY <1>1, <1>2
<1>4. IsFiniteSet(sizes)
  <2> DEFINE E == [k \in 0 .. Len(m) |-> IF k = 0 THEN 0 ELSE extent_in(m[k], size)]
  <2>1. IsFiniteSet(0 .. Len(m))
    BY <1>2, FS_Interval
  <2>2. sizes = {E[k] : k \in 0 .. Len(m)}
    BY <1>2 DEF Range
  <2>3. E \in Surjection(0 .. Len(m), sizes)
    <3> HIDE DEF sizes
    <3> QED BY <2>2 DEF Surjection
  <2>4. QED
    <3> HIDE DEF sizes, E
    <3> QED BY <2>1, <2>3, FS_Surjection
<1>5. Max(sizes) \in sizes /\ \A x \in sizes : x <= Max(sizes)
  <2> HIDE DEF sizes
  <2> QED BY <1>3, <1>4, MaxIs
<1>6. \A f \in Range(m) : extent_in(f, size) \in sizes
  OBVIOUS
<1>7. storage_size(m, size) = Max(sizes)
  BY DEF storage_size
<1>8. ASSUME NEW f \in Range(m), NEW a \in Range(f.ats)
      PROVE  extent(locator_for(a), size) <= storage_size(m, size)
  <2> HIDE DEF sizes
  <2>1. extent(locator_for(a), size) <= extent_in(f, size) /\ extent(locator_for(a), size) \in Nat
    BY <1>1, <1>2, LocatedIs, ExtentCovers DEF Range
  <2>2. extent_in(f, size) <= storage_size(m, size)
    BY <1>5, <1>6, <1>7
  <2>3. extent_in(f, size) \in Nat /\ storage_size(m, size) \in Nat
    BY <1>1, <1>2, <1>3, <1>5, <1>7
  <2>4. QED
    BY <2>1, <2>2, <2>3
<1>9. QED
  <2> HIDE DEF sizes
  <2> QED BY <1>3, <1>5, <1>7, <1>8

LEMMA SizeIsNat ==
  ASSUME NEW m, Listed(m), NEW size \in WholeElements
  PROVE  storage_size(m, size) \in Nat
  BY StorageSizeIs

\* The partial sums that msg_offsets stands for exist.
LEMMA MsgOffsetsIs ==
  ASSUME NEW ms \in Seq(Seq(LocatedFields)), NEW align \in WholeElements
  PROVE  LET offset == msg_offsets(align, ms) IN
         offset = [n \in 1 .. Len(ms) |->
                     IF n = 1 THEN 0 ELSE offset[n - 1] + storage_size(ms[n - 1], align)]
<1> DEFINE n == Len(ms)
           size(i) == storage_size(ms[i], align)
           value == [i \in 1 .. n |-> [g \in [Before(n)[i] -> Nat] |->
                       IF i = 1 THEN 0 ELSE g[i - 1] + size(i - 1)]]
<1>1. n \in Nat /\ DOMAIN ms = 1 .. n
  OBVIOUS
<1>2. \A i \in 1 .. n : size(i) \in Nat
  <2> SUFFICES ASSUME NEW i \in 1 .. n PROVE size(i) \in Nat
    OBVIOUS
  <2>1. Listed(ms[i])
    <3> HIDE DEF LocatedFields
    <3> QED BY DEF Listed
  <2>2. QED
    BY <2>1, SizeIsNat
<1> HIDE DEF size
<1>3. Valued(1 .. n, Before(n), Nat, value)
  <2>1. ASSUME NEW i \in 1 .. n, NEW g \in [Before(n)[i] -> Nat]
        PROVE  value[i][g] \in Nat
    <3>1. value[i][g] = IF i = 1 THEN 0 ELSE g[i - 1] + size(i - 1)
      OBVIOUS
    <3>2. CASE i = 1
      BY <3>1, <3>2
    <3>3. CASE i # 1
      <4>1. g[i - 1] \in Nat
        BY <3>3 DEF Before
      <4>2. i - 1 \in 1 .. n
        BY <1>1, <3>3
      <4>3. size(i - 1) \in Nat
        BY <1>2, <4>2
      <4>4. value[i][g] = g[i - 1] + size(i - 1)
        BY <3>1, <3>3
      <4>5. QED
        BY <4>1, <4>3, <4>4
    <3>4. QED
      BY <3>2, <3>3
  <2>2. QED
    <3> HIDE DEF value
    <3> QED BY <2>1 DEF Valued
<1>4. PICK f \in [1 .. n -> Nat] : \A i \in 1 .. n : FollowsAt(f, Before(n), value, i)
  <2> HIDE DEF value
  <2>1. Parted(1 .. n, [i \in 1 .. n |-> i], Before(n))
    BY <1>1, UpToParted
  <2>2. QED
    BY <1>3, <2>1, RecursionExists
<1>5. ASSUME NEW i \in 1 .. n
      PROVE  f[i] = IF i = 1 THEN 0 ELSE f[i - 1] + size(i - 1)
  <2> DEFINE g == [c \in Before(n)[i] |-> f[c]]
  <2>1. g \in [Before(n)[i] -> Nat]
    BY <1>1 DEF Before
  <2>2. f[i] = value[i][g]
    <3> HIDE DEF value
    <3> QED BY <1>4 DEF FollowsAt
  <2>3. f[i] = IF i = 1 THEN 0 ELSE g[i - 1] + size(i - 1)
    <3> HIDE DEF g
    <3> QED BY <2>1, <2>2
  <2>4. i # 1 => g[i - 1] = f[i - 1]
    BY DEF Before
  <2>5. QED
    <3> HIDE DEF g
    <3> QED BY <2>3, <2>4
<1>6. f = [i \in 1 .. n |-> IF i = 1 THEN 0 ELSE f[i - 1] + storage_size(ms[i - 1], align)]
  <2> HIDE DEF value
  <2> QED BY <1>5 DEF size
<1>7. QED
  <2> HIDE DEF value
  <2> QED BY <1>6 DEF msg_offsets

\* Each message begins where those before it have ended.
LEMMA OffsetsGrow ==
  ASSUME NEW ms \in Seq(Seq(LocatedFields)), NEW align \in WholeElements
  PROVE  /\ \A i \in 1 .. Len(ms) : msg_offsets(align, ms)[i] \in Nat
         /\ \A i, j \in 1 .. Len(ms) : i < j =>
              msg_offsets(align, ms)[i] + storage_size(ms[i], align) <= msg_offsets(align, ms)[j]
<1> DEFINE n == Len(ms)
           offset == msg_offsets(align, ms)
           size(i) == storage_size(ms[i], align)
<1>1. n \in Nat
  OBVIOUS
<1>2. \A i \in 1 .. n : size(i) \in Nat
  <2> SUFFICES ASSUME NEW i \in 1 .. n PROVE size(i) \in Nat
    OBVIOUS
  <2>1. Listed(ms[i])
    <3> HIDE DEF LocatedFields
    <3> QED BY DEF Listed
  <2>2. QED
    BY <2>1, SizeIsNat
<1>3. \A i \in 1 .. n : offset[i] = IF i = 1 THEN 0 ELSE offset[i - 1] + size(i - 1)
  BY MsgOffsetsIs
<1> HIDE DEF offset, size
<1> DEFINE Good(j) == offset[j] \in Nat /\ \A i \in 1 .. n : i < j => offset[i] + size(i) <= offset[j]
           T == {j \in 1 .. n : ~Good(j)}
<1>4. T = {}
  <2> SUFFICES ASSUME T # {} PROVE FALSE
    OBVIOUS
  <2>1. T \in SUBSET Nat
    BY <1>1
  <2>2. PICK j \in T : \A k \in T : j <= k
    <3> HIDE DEF T
    <3> QED BY <2>1, LeastOf
  <2>3. j \in 1 .. n
    OBVIOUS
  <2>4. CASE j = 1
    <3>1. offset[j] = 0 /\ ~ \E i \in 1 .. n : i < j
      BY <1>3, <2>3, <2>4
    <3>2. Good(j)
      BY <3>1
    <3>3. QED
      <4> HIDE DEF Good
      <4> QED BY <3>2
  <2>5. CASE j # 1
    <3>1. j - 1 \in 1 .. n /\ ~(j <= j - 1)
      BY <1>1, <2>3, <2>5
    <3>2. Good(j - 1)
      <4> HIDE DEF Good
      <4> QED BY <2>2, <3>1
    <3>3. offset[j] = offset[j - 1] + size(j - 1) /\ size(j - 1) \in Nat
      BY <1>2, <1>3, <2>3, <2>5, <3>1
    <3>4. ASSUME NEW i \in 1 .. n, i < j PROVE offset[i] + size(i) <= offset[j]
      <4>1. i = j - 1 \/ i < j - 1
        BY <2>3, <3>4
      <4>2. CASE i = j - 1
        BY <3>2, <3>3, <4>2
      <4>3. CASE i < j - 1
        <5>1. offset[i] + size(i) <= offset[j - 1]
          BY <3>2, <4>3
        <5>2. offset[i] \in Nat
          <6>1. i \in 1 .. n /\ ~(j <= i)
            BY <2>3, <3>4
          <6>2. Good(i)
            <7> HIDE DEF Good
            <7> QED BY <2>2, <6>1
          <6>3. QED
            BY <6>2
        <5>3. size(i) \in Nat
          BY <1>2
        <5>4. QED
          BY <3>2, <3>3, <5>1, <5>2, <5>3
      <4>4. QED
        BY <4>1, <4>2, <4>3
    <3>5. Good(j)
      BY <3>2, <3>3, <3>4
    <3>6. QED
      <4> HIDE DEF Good
      <4> QED BY <3>5
  <2>6. QED
    BY <2>4, <2>5
<1>5. \A j \in 1 .. n : Good(j)
  <2> HIDE DEF Good
  <2> QED BY <1>4
<1>6. QED
  BY <1>5 DEF offset, size

----------------------------------------------------------------------------
(* Fields that are moved. *)

LEMMA BitIs ==
  ASSUME NEW f \in LocatedFields, NEW b
  PROVE  b \in located_bits(f) <=> \E k \in 1 .. Len(f.ats) : b \in f.ats[k].lsb .. f.ats[k].msb
<1>1. DOMAIN f.ats = 1 .. Len(f.ats)
  BY LocatedIs
<1>2. QED
  BY <1>1 DEF located_bits, Range

\* A field that is moved by n has its bits n further up.
LEMMA ShiftedIs ==
  ASSUME NEW f \in LocatedFields, NEW n \in Nat
  PROVE  /\ shifted_by(f, n) \in LocatedFields
         /\ shifted_by(f, n).name = f.name
         /\ \A b \in Int : b \in located_bits(shifted_by(f, n)) <=> b - n \in located_bits(f)
<1> DEFINE ats == [k \in DOMAIN f.ats |-> [msb |-> f.ats[k].msb + n, lsb |-> f.ats[k].lsb + n]]
           g == shifted_by(f, n)
<1>1. ats \in Seq(Locations) /\ Len(ats) = Len(f.ats) /\ Len(f.ats) > 0
  <2>1. ASSUME NEW k \in 1 .. Len(f.ats) PROVE ats[k] \in Locations
    <3>1. k \in DOMAIN f.ats
      BY LocatedIs
    <3>2. /\ f.ats[k].lsb + n \in Nat /\ f.ats[k].msb + n \in Nat
          /\ f.ats[k].lsb + n <= f.ats[k].msb + n
      BY <3>1, LocatedIs
    <3>3. ats[k] = [msb |-> f.ats[k].msb + n, lsb |-> f.ats[k].lsb + n]
      BY <3>1
    <3>4. QED
      <4> HIDE DEF ats
      <4> QED BY <3>2, <3>3 DEF Locations
  <2>2. ats = [k \in 1 .. Len(f.ats) |-> ats[k]] /\ Len(f.ats) \in Nat \ {0}
    BY LocatedIs
  <2> HIDE DEF ats, Locations
  <2>3. DOMAIN ats = 1 .. Len(f.ats)
    BY <2>2
  <2>4. ats \in Seq(Locations)
    BY <2>1, <2>2
  <2>5. QED
    BY <2>2, <2>3, <2>4
<1>2. g = [f EXCEPT !.ats = ats]
  BY DEF shifted_by
<1>3. g \in LocatedFields /\ g.name = f.name /\ g.ats = ats
  <2> HIDE DEF ats, Locations
  <2>1. f \in DefinedFields
    BY DEF LocatedFields
  <2>2. g \in DefinedFields /\ g.name = f.name /\ g.ats = ats
    BY <1>1, <1>2, <2>1 DEF DefinedFields, FieldsNamed
  <2>3. ats # <<>>
    BY <1>1
  <2>4. QED
    BY <2>2, <2>3 DEF LocatedFields, is_locatable
<1>4. ASSUME NEW b \in Int PROVE b \in located_bits(g) <=> b - n \in located_bits(f)
  <2>1. b \in located_bits(g) <=> \E k \in 1 .. Len(f.ats) : b \in ats[k].lsb .. ats[k].msb
    <3> HIDE DEF ats, g
    <3> QED BY <1>1, <1>3, BitIs
  <2>2. b - n \in located_bits(f) <=> \E k \in 1 .. Len(f.ats) : b - n \in f.ats[k].lsb .. f.ats[k].msb
    BY BitIs
  <2>3. ASSUME NEW k \in 1 .. Len(f.ats)
        PROVE  b \in ats[k].lsb .. ats[k].msb <=> b - n \in f.ats[k].lsb .. f.ats[k].msb
    <3>1. k \in DOMAIN f.ats /\ f.ats[k].lsb \in Nat /\ f.ats[k].msb \in Nat
      BY LocatedIs
    <3>2. ats[k].lsb = f.ats[k].lsb + n /\ ats[k].msb = f.ats[k].msb + n
      BY <3>1
    <3>3. QED
      <4> HIDE DEF ats
      <4> QED BY <3>1, <3>2
  <2>4. QED
    <3> HIDE DEF ats
    <3> QED BY <2>1, <2>2, <2>3
<1>5. QED
  BY <1>3, <1>4

LEMMA ShiftedMsgIs ==
  ASSUME NEW m, Listed(m), NEW n \in Nat
  PROVE  /\ Listed(shifted_msg(m, n))
         /\ \A g : g \in Range(shifted_msg(m, n)) <=> \E f \in Range(m) : g = shifted_by(f, n)
<1>1. Len(m) \in Nat /\ DOMAIN m = 1 .. Len(m) /\ \A k \in 1 .. Len(m) : m[k] \in LocatedFields
  <2> HIDE DEF LocatedFields
  <2> QED BY DEF Listed
<1>2. shifted_msg(m, n) = [k \in 1 .. Len(m) |-> shifted_by(m[k], n)]
  BY <1>1 DEF shifted_msg
<1>3. \A k \in 1 .. Len(m) : shifted_by(m[k], n) \in LocatedFields
  BY <1>1, ShiftedIs
<1>4. Listed(shifted_msg(m, n))
  <2> HIDE DEF LocatedFields
  <2> QED BY <1>1, <1>2, <1>3 DEF Listed
<1>5. QED
  BY <1>1, <1>2, <1>4 DEF Range

\* No bit of a field is beyond the elements that its message takes.
LEMMA BitsInSize ==
  ASSUME NEW m, Listed(m), NEW size \in WholeElements, NEW f \in Range(m), NEW b \in located_bits(f)
  PROVE  b \in Nat /\ b < storage_size(m, size) * size
<1>1. f \in LocatedFields
  <2> HIDE DEF LocatedFields
  <2> QED BY DEF Listed, Range
<1>2. PICK k \in 1 .. Len(f.ats) : b \in f.ats[k].lsb .. f.ats[k].msb
  BY <1>1, BitIs
<1> DEFINE a == f.ats[k]
           E == extent(locator_for(a), size)
           S == storage_size(m, size)
<1>3. a \in Locations /\ a \in Range(f.ats) /\ a.lsb \in Nat /\ a.msb \in Nat
  BY <1>1, LocatedIs DEF Range
<1>4. E \in Nat /\ a.msb < E * size
  <2> HIDE DEF a
  <2> QED BY <1>3, ExtentCovers
<1>5. E <= S /\ S \in Nat
  <2> HIDE DEF a
  <2> QED BY <1>3, StorageSizeIs
<1>6. size \in Nat /\ b \in Nat /\ b <= a.msb
  BY <1>2, <1>3 DEF WholeElements
<1>7. E * size <= S * size
  <2> HIDE DEF E, S
  <2>1. CASE size = 8
    BY <1>4, <1>5, <2>1
  <2>2. CASE size = 16
    BY <1>4, <1>5, <2>2
  <2>3. CASE size = 32
    BY <1>4, <1>5, <2>3
  <2>4. QED
    BY <2>1, <2>2, <2>3 DEF WholeElements
<1>8. E * size \in Nat /\ S * size \in Nat
  <2> HIDE DEF E, S
  <2> QED BY <1>4, <1>5 DEF WholeElements
<1>9. b < S * size
  <2> HIDE DEF E, S, a
  <2> QED BY <1>3, <1>4, <1>6, <1>7, <1>8
<1>10. QED
  BY <1>6, <1>9

\* What is packed is one of the messages, moved to where they have ended that
\* were before it.
LEMMA PackIs ==
  ASSUME NEW ms \in Seq(Seq(LocatedFields)), Len(ms) > 0, NEW align \in WholeElements
  PROVE  LET start == [i \in 1 .. Len(ms) |-> msg_offsets(align, ms)[i] * align]
             p == pack(align, ms) IN
         /\ Listed(p) /\ OnePerName(p)
         /\ \A i \in 1 .. Len(ms) : start[i] \in Nat
         /\ \A g \in Range(p) : \E i \in 1 .. Len(ms) : \E f \in Range(ms[i]) : g = shifted_by(f, start[i])
         /\ \A i \in 1 .. Len(ms) : names_of(ms[i]) \subseteq names_of(p)
<1> DEFINE n == Len(ms)
           offsets == msg_offsets(align, ms)
           start == [i \in 1 .. n |-> offsets[i] * align]
           moved == [i \in DOMAIN ms |-> shifted_msg(ms[i], offsets[i] * align)]
           flat == FlattenSeq(moved)
<1>1. n \in Nat /\ DOMAIN ms = 1 .. n /\ \A i \in 1 .. n : Listed(ms[i])
  <2> HIDE DEF LocatedFields
  <2> QED BY DEF Listed
<1>2. \A i \in 1 .. n : start[i] \in Nat
  <2>1. \A i \in 1 .. n : offsets[i] \in Nat
    BY OffsetsGrow
  <2>2. align \in Nat
    BY DEF WholeElements
  <2> HIDE DEF offsets
  <2>3. QED
    BY <2>1, <2>2
<1>3. \A i \in 1 .. n : moved[i] = shifted_msg(ms[i], start[i])
  BY <1>1
<1>4. /\ moved \in Seq(Seq(LocatedFields)) /\ Len(moved) = n /\ DOMAIN moved = 1 .. n
      /\ \A i \in 1 .. n : \A g : g \in Range(moved[i]) <=> \E f \in Range(ms[i]) : g = shifted_by(f, start[i])
  <2>1. moved = [i \in 1 .. n |-> moved[i]]
    BY <1>1
  <2> HIDE DEF moved, start
  <2>2. ASSUME NEW i \in 1 .. n
        PROVE  /\ Listed(moved[i])
               /\ \A g : g \in Range(moved[i]) <=> \E f \in Range(ms[i]) : g = shifted_by(f, start[i])
    <3>1. Listed(ms[i]) /\ start[i] \in Nat /\ moved[i] = shifted_msg(ms[i], start[i])
      BY <1>1, <1>2, <1>3
    <3>2. /\ Listed(shifted_msg(ms[i], start[i]))
          /\ \A g : g \in Range(shifted_msg(ms[i], start[i])) <=> \E f \in Range(ms[i]) : g = shifted_by(f, start[i])
      BY <3>1, ShiftedMsgIs
    <3>3. QED
      BY <3>1, <3>2
  <2>3. moved \in Seq(Seq(LocatedFields)) /\ Len(moved) = n /\ DOMAIN moved = 1 .. n
    <3> HIDE DEF LocatedFields
    <3> QED BY <1>1, <2>1, <2>2 DEF Listed
  <2>4. QED
    BY <2>2, <2>3
<1>5. /\ Listed(flat)
      /\ \A x : x \in Range(flat) <=> \E i \in 1 .. n : x \in Range(moved[i])
  <2> HIDE DEF moved, LocatedFields
  <2> QED BY <1>4, FlattenIs DEF Listed
<1>6. pack(align, ms) = unique_by_name(flat)
  BY DEF pack, overlay
<1>7. /\ Listed(pack(align, ms)) /\ OnePerName(pack(align, ms))
      /\ Range(pack(align, ms)) \subseteq Range(flat)
      /\ names_of(pack(align, ms)) = names_of(flat)
  <2> HIDE DEF flat
  <2> QED BY <1>5, <1>6, UniqueByName
<1>8. ASSUME NEW i \in 1 .. n PROVE names_of(ms[i]) \subseteq names_of(flat)
  <2> HIDE DEF flat, moved, start
  <2> SUFFICES ASSUME NEW f \in Range(ms[i]) PROVE f.name \in names_of(flat)
    BY DEF names_of
  <2>1. f \in LocatedFields
    <3> HIDE DEF LocatedFields
    <3> QED BY <1>1 DEF Listed, Range
  <2>2. shifted_by(f, start[i]) \in Range(flat)
    BY <1>4, <1>5
  <2>3. shifted_by(f, start[i]).name = f.name
    BY <1>2, <2>1, ShiftedIs
  <2>4. QED
    BY <2>2, <2>3 DEF names_of
<1>9. QED
  <2>1. ASSUME NEW g \in Range(pack(align, ms))
        PROVE  \E i \in 1 .. n : \E f \in Range(ms[i]) : g = shifted_by(f, start[i])
    <3> HIDE DEF flat, moved, start
    <3>1. PICK i \in 1 .. n : g \in Range(moved[i])
      BY <1>5, <1>7
    <3>2. PICK f \in Range(ms[i]) : g = shifted_by(f, start[i])
      BY <1>4, <3>1
    <3>3. QED
      BY <3>2
  <2>2. QED
    <3> HIDE DEF flat, moved
    <3> QED BY <1>2, <1>7, <1>8, <2>1

\* Fields of different messages share no bit where they are moved to, and those
\* of one message do only if they did before.
LEMMA PackKeepsApart ==
  ASSUME NEW ms \in Seq(Seq(LocatedFields)), NEW align \in WholeElements,
         NEW i \in 1 .. Len(ms), NEW j \in 1 .. Len(ms),
         NEW f \in Range(ms[i]), NEW g \in Range(ms[j]),
         overlap(shifted_by(f, msg_offsets(align, ms)[i] * align),
                 shifted_by(g, msg_offsets(align, ms)[j] * align))
  PROVE  i = j /\ overlap(f, g)
<1> DEFINE start(k) == msg_offsets(align, ms)[k] * align
           size(k) == storage_size(ms[k], align)
<1>1. /\ Len(ms) \in Nat /\ Listed(ms[i]) /\ Listed(ms[j])
      /\ f \in LocatedFields /\ g \in LocatedFields
  <2> HIDE DEF LocatedFields
  <2> QED BY DEF Listed, Range
<1>2. /\ msg_offsets(align, ms)[i] \in Nat /\ msg_offsets(align, ms)[j] \in Nat
      /\ i < j => msg_offsets(align, ms)[i] + size(i) <= msg_offsets(align, ms)[j]
      /\ j < i => msg_offsets(align, ms)[j] + size(j) <= msg_offsets(align, ms)[i]
  BY OffsetsGrow
<1>3. size(i) \in Nat /\ size(j) \in Nat
  BY <1>1, SizeIsNat
<1>4. /\ start(i) \in Nat /\ start(j) \in Nat
      /\ i < j => start(i) + size(i) * align <= start(j)
      /\ j < i => start(j) + size(j) * align <= start(i)
  <2>1. \A x, y, z \in Nat : x + z <= y => x * align + z * align <= y * align
    <3>1. CASE align = 8
      BY <3>1
    <3>2. CASE align = 16
      BY <3>2
    <3>3. CASE align = 32
      BY <3>3
    <3>4. QED
      BY <3>1, <3>2, <3>3 DEF WholeElements
  <2>2. \A x \in Nat : x * align \in Nat
    BY DEF WholeElements
  <2> HIDE DEF size
  <2>3. QED
    BY <1>2, <1>3, <2>1, <2>2
<1>5. PICK b : b \in located_bits(shifted_by(f, start(i))) /\ b \in located_bits(shifted_by(g, start(j)))
  BY DEF overlap
<1> HIDE DEF start
<1>6. b \in Int
  <2>1. shifted_by(f, start(i)) \in LocatedFields
    BY <1>1, <1>4, ShiftedIs
  <2>2. QED
    BY <1>5, <2>1, BitIs
<1>7. b - start(i) \in located_bits(f) /\ b - start(j) \in located_bits(g)
  BY <1>1, <1>4, <1>5, <1>6, ShiftedIs
<1>8. /\ b - start(i) \in Nat /\ b - start(i) < size(i) * align
      /\ b - start(j) \in Nat /\ b - start(j) < size(j) * align
  BY <1>1, <1>7, BitsInSize
<1>9. size(i) * align \in Nat /\ size(j) * align \in Nat
  <2> HIDE DEF size
  <2> QED BY <1>3 DEF WholeElements
<1>10. i = j
  <2> HIDE DEF size
  <2>1. ~(i < j)
    BY <1>4, <1>6, <1>8, <1>9
  <2>2. ~(j < i)
    BY <1>4, <1>6, <1>8, <1>9
  <2>3. QED
    BY <1>1, <2>1, <2>2
<1>11. QED
  BY <1>7, <1>10 DEF overlap

----------------------------------------------------------------------------
(* The messages that are made from others. *)

\* A field of the extended message is a new one or one of the message.
LEMMA ExtensionIs ==
  ASSUME NEW m, Listed(m), NEW fields, Listed(fields)
  PROVE  /\ Listed(extension(m, fields)) /\ OnePerName(extension(m, fields))
         /\ Range(extension(m, fields)) \subseteq Range(fields) \cup Range(m)
         /\ names_of(extension(m, fields)) = names_of(fields) \cup names_of(m)
<1>1. Listed(fields \o m) /\ Range(fields \o m) = Range(fields) \cup Range(m)
  <2> HIDE DEF LocatedFields
  <2> QED BY ConcatRange DEF Listed
<1>2. /\ Listed(unique_by_name(fields \o m)) /\ OnePerName(unique_by_name(fields \o m))
      /\ Range(unique_by_name(fields \o m)) \subseteq Range(fields \o m)
      /\ names_of(unique_by_name(fields \o m)) = names_of(fields \o m)
  BY <1>1, UniqueByName
<1>3. names_of(fields \o m) = names_of(fields) \cup names_of(m)
  BY <1>1 DEF names_of
<1>4. QED
  BY <1>1, <1>2, <1>3 DEF extension

LEMMA TwoMessages ==
  ASSUME NEW m1, Listed(m1), NEW m2, Listed(m2)
  PROVE  /\ <<m1, m2>> \in Seq(Seq(LocatedFields)) /\ Len(<<m1, m2>>) = 2
         /\ DOMAIN <<m1, m2>> = 1 .. 2 /\ <<m1, m2>>[1] = m1 /\ <<m1, m2>>[2] = m2
<1> HIDE DEF LocatedFields
<1> QED BY DEF Listed

LEMMA OverlayIs ==
  ASSUME NEW m1, Listed(m1), NEW m2, Listed(m2)
  PROVE  /\ Listed(overlay(<<m1, m2>>)) /\ OnePerName(overlay(<<m1, m2>>))
         /\ Range(overlay(<<m1, m2>>)) \subseteq Range(m1) \cup Range(m2)
         /\ names_of(overlay(<<m1, m2>>)) = names_of(m1) \cup names_of(m2)
<1> DEFINE flat == FlattenSeq(<<m1, m2>>)
<1>1. Listed(flat) /\ \A x : x \in Range(flat) <=> x \in Range(m1) \/ x \in Range(m2)
  <2>1. /\ flat \in Seq(LocatedFields)
        /\ \A x : x \in Range(flat) <=> \E i \in DOMAIN <<m1, m2>> : x \in Range(<<m1, m2>>[i])
    <3> DEFINE ms == <<m1, m2>>
    <3>1. ms \in Seq(Seq(LocatedFields)) /\ Len(ms) > 0
      <4>1. Len(ms) = 2 /\ ms \in Seq(Seq(LocatedFields))
        BY TwoMessages
      <4> HIDE DEF ms
      <4> QED BY <4>1
    <3> HIDE DEF ms, LocatedFields
    <3>2. /\ FlattenSeq(ms) \in Seq(LocatedFields)
          /\ \A x : x \in Range(FlattenSeq(ms)) <=> \E i \in DOMAIN ms : x \in Range(ms[i])
      BY <3>1, FlattenIs
    <3>3. QED
      BY <3>2 DEF ms
  <2>2. 1 .. 2 = {1, 2}
    OBVIOUS
  <2> HIDE DEF flat
  <2>3. QED
    BY <2>1, <2>2, TwoMessages DEF Listed
<1> HIDE DEF flat
<1>2. /\ Listed(unique_by_name(flat)) /\ OnePerName(unique_by_name(flat))
      /\ Range(unique_by_name(flat)) \subseteq Range(flat)
      /\ names_of(unique_by_name(flat)) = names_of(flat)
  BY <1>1, UniqueByName
<1>3. names_of(flat) = names_of(m1) \cup names_of(m2)
  BY <1>1 DEF names_of
<1>4. QED
  BY <1>1, <1>2, <1>3 DEF overlay, flat

\* A field that is renamed keeps its locations.
LEMMA RenameIs ==
  ASSUME NEW m, Listed(m), NEW old \in names_of(m), NEW new \in Names
  PROVE  /\ Listed(rename_field(m, old, new)) /\ OnePerName(rename_field(m, old, new))
         /\ \A f \in Range(rename_field(m, old, new)) : \E g \in Range(m) :
              f.name = (IF g.name = old THEN new ELSE g.name) /\ f.ats = g.ats
         /\ \A g \in Range(m) :
              (IF g.name = old THEN new ELSE g.name) \in names_of(rename_field(m, old, new))
<1> DEFINE split == CHOOSE f \in Range(m) : f.name = old
           renamed == [split EXCEPT !.name = new]
           S == {n \in DOMAIN m : m[n].name # old}
           untouched == at_positions(m, S)
           list == Append(untouched, renamed)
<1>1. Len(m) \in Nat /\ DOMAIN m = 1 .. Len(m) /\ Range(m) \subseteq LocatedFields
  <2> HIDE DEF LocatedFields
  <2> QED BY DEF Listed, Range
<1>2. split \in Range(m) /\ split.name = old
  BY DEF names_of
<1>3. renamed \in LocatedFields /\ renamed.name = new /\ renamed.ats = split.ats
  <2> HIDE DEF split
  <2>1. split \in DefinedFields /\ split.ats # <<>>
    BY <1>1, <1>2 DEF LocatedFields, is_locatable
  <2>2. renamed \in DefinedFields /\ renamed.name = new /\ renamed.ats = split.ats
    <3> HIDE DEF Locations, Names
    <3> QED BY <2>1 DEF DefinedFields, FieldsNamed
  <2>3. QED
    BY <2>1, <2>2 DEF LocatedFields, is_locatable
<1>4. S \in SUBSET (1 .. Len(m))
  BY <1>1
<1>5. PICK k \in Nat : Lists(untouched, k, m, S)
  <2> HIDE DEF S
  <2> QED BY <1>1, <1>4, AtPositions
<1>6. untouched \in Seq(LocatedFields) /\ Range(untouched) = {m[i] : i \in S}
  <2> HIDE DEF S, untouched
  <2> QED BY <1>1, <1>4, <1>5, ListsRange
<1>7. \A f \in Range(untouched) : f \in Range(m) /\ f.name # old
  <2> HIDE DEF untouched
  <2> QED BY <1>6 DEF Range
<1>8. \A f \in Range(m) : f.name # old => f \in Range(untouched)
  <2> HIDE DEF untouched
  <2> QED BY <1>6 DEF Range
<1>9. Listed(list) /\ Range(list) = Range(untouched) \cup {renamed}
  <2> HIDE DEF untouched, renamed, LocatedFields
  <2>1. <<renamed>> \in Seq(LocatedFields) /\ Range(<<renamed>>) = {renamed}
    BY <1>3 DEF Range
  <2>2. list = untouched \o <<renamed>>
    BY <1>6, <2>1
  <2>3. /\ untouched \o <<renamed>> \in Seq(LocatedFields)
        /\ Range(untouched \o <<renamed>>) = Range(untouched) \cup Range(<<renamed>>)
    <3> DEFINE last == <<renamed>>
    <3> HIDE DEF last
    <3>1. untouched \o last \in Seq(LocatedFields) /\ Range(untouched \o last) = Range(untouched) \cup Range(last)
      BY <1>6, <2>1, ConcatRange DEF last
    <3>2. QED
      BY <3>1 DEF last
  <2> HIDE DEF list
  <2>4. QED
    BY <2>1, <2>2, <2>3 DEF Listed
<1> HIDE DEF split, renamed, untouched
<1>10. rename_field(m, old, new) = unique_by_name(list)
  BY DEF rename_field, split, renamed, untouched
<1> HIDE DEF list
<1>11. /\ Listed(unique_by_name(list)) /\ OnePerName(unique_by_name(list))
       /\ Range(unique_by_name(list)) \subseteq Range(list)
       /\ names_of(unique_by_name(list)) = names_of(list)
  BY <1>9, UniqueByName
<1>12. ASSUME NEW f \in Range(rename_field(m, old, new))
       PROVE  \E g \in Range(m) : f.name = (IF g.name = old THEN new ELSE g.name) /\ f.ats = g.ats
  <2>1. f \in Range(untouched) \/ f = renamed
    BY <1>9, <1>10, <1>11
  <2>2. CASE f \in Range(untouched)
    BY <1>7, <2>2
  <2>3. CASE f = renamed
    BY <1>2, <1>3, <2>3
  <2>4. QED
    BY <2>1, <2>2, <2>3
<1>13. ASSUME NEW g \in Range(m)
       PROVE  (IF g.name = old THEN new ELSE g.name) \in names_of(list)
  <2>1. CASE g.name = old
    BY <1>3, <1>9, <2>1 DEF names_of
  <2>2. CASE g.name # old
    BY <1>8, <1>9, <2>2 DEF names_of
  <2>3. QED
    BY <2>1, <2>2
<1>14. QED
  BY <1>10, <1>11, <1>12, <1>13

LEMMA SortedBySize ==
  ASSUME NEW m \in Seq(DefinedFields)
  PROVE  Lists(sorted_by_size(m), Len(m), m, 1 .. Len(m))
<1> DEFINE before == {p \in PositionPairs(m) : field_size_sort_fn(m[p[1]], m[p[2]])}
           rank == [i \in 1 .. Len(m) |-> -m[i].type]
<1>1. Len(m) \in Nat /\ DOMAIN m = 1 .. Len(m) /\ \A i \in 1 .. Len(m) : m[i] \in DefinedFields
  <2> HIDE DEF DefinedFields
  <2> QED OBVIOUS
<1>2. \A i \in 1 .. Len(m) : m[i].type \in Nat
  <2>1. \A f \in DefinedFields : f.type \in Nat
    <3> HIDE DEF Names, Locations
    <3> QED BY DEF DefinedFields, FieldsNamed
  <2>2. QED
    BY <1>1, <2>1
<1>3. rank \in [1 .. Len(m) -> Int]
  BY <1>2
<1>4. ASSUME NEW i \in 1 .. Len(m), NEW j \in 1 .. Len(m)
      PROVE  <<i, j>> \in before <=> rank[i] < rank[j]
  <2>1. <<i, j>> \in before <=> m[j].type < m[i].type
    BY <1>1 DEF PositionPairs, field_size_sort_fn
  <2>2. rank[i] = -m[i].type /\ rank[j] = -m[j].type
    OBVIOUS
  <2>3. m[i].type \in Nat /\ m[j].type \in Nat
    BY <1>2
  <2> HIDE DEF before, rank
  <2>4. QED
    BY <2>1, <2>2, <2>3
<1>5. QED
  <2> HIDE DEF before, rank
  <2>1. Lists(sorted_by(m, before), Len(m), m, 1 .. Len(m))
    BY <1>1, <1>3, <1>4, SortedIs
  <2>2. QED
    BY <2>1 DEF sorted_by_size, before

LEMMA DefaultLocated ==
  ASSUME NEW f \in DefinedFields
  PROVE  default_located(f) \in LocatedFields /\ default_located(f).name = f.name
<1> DEFINE ats == <<[msb |-> f.type - 1, lsb |-> 0]>>
<1>1. f.type \in Nat \ {0}
  <2> HIDE DEF Names, Locations
  <2> QED BY DEF DefinedFields, FieldsNamed
<1>2. ats \in Seq(Locations) /\ ats # <<>>
  <2>1. [msb |-> f.type - 1, lsb |-> 0] \in Locations
    BY <1>1 DEF Locations
  <2>2. QED
    <3> HIDE DEF Locations
    <3> QED BY <2>1
<1>3. default_located(f) = [f EXCEPT !.ats = ats]
  BY DEF default_located
<1>4. QED
  <2> HIDE DEF ats, Names, Locations
  <2> QED BY <1>2, <1>3 DEF DefinedFields, FieldsNamed, LocatedFields, is_locatable

\* Fields of a relaxed message share bits only if they were located so that
\* they do.
LEMMA RelaxIs ==
  ASSUME NEW fields \in Seq(DefinedFields)
  PROVE  /\ Listed(relaxed_message(fields)) /\ OnePerName(relaxed_message(fields))
         /\ \A f \in Range(relaxed_message(fields)) : \E f0 \in Range(fields), n \in Nat :
              f = shifted_by(IF is_locatable(f0) THEN f0 ELSE default_located(f0), n)
         /\ names_of(fields) \subseteq names_of(relaxed_message(fields))
         /\ \A f, g \in Range(relaxed_message(fields)) :
              \E f0, g0 \in Range(fields) :
                /\ f0.name = f.name /\ g0.name = g.name
                /\ overlap(f, g) =>
                     f.name = g.name \/ (is_locatable(f0) /\ is_locatable(g0) /\ overlap(f0, g0))
<1> DEFINE L == located_fields(fields)
           A == unique_by_name(L)
           unl == unlocated_fields(fields)
           auto == sorted_by_size(unl)
           singles == [k \in DOMAIN auto |-> <<default_located(auto[k])>>]
           ms == <<A>> \o singles
           p == relaxed_message(fields)
<1>1. Len(fields) \in Nat /\ DOMAIN fields = 1 .. Len(fields) /\ \A i \in 1 .. Len(fields) : fields[i] \in DefinedFields
  <2> HIDE DEF DefinedFields
  <2> QED OBVIOUS
<1>2. Range(fields) = {fields[i] : i \in 1 .. Len(fields)}
  BY <1>1 DEF Range
<1>3. Listed(L) /\ \A f : f \in Range(L) <=> f \in Range(fields) /\ is_locatable(f)
  <2> DEFINE S == locatable_in(fields)
  <2>1. S \in SUBSET (1 .. Len(fields))
    BY <1>1 DEF locatable_in
  <2>2. PICK k \in Nat : Lists(at_positions(fields, S), k, fields, S)
    <3> HIDE DEF S
    <3> QED BY <1>1, <2>1, AtPositions
  <2>3. Range(L) = {fields[i] : i \in S} /\ DOMAIN L = 1 .. k /\ L = [i \in 1 .. k |-> L[i]]
    <3>1. L = at_positions(fields, S)
      BY DEF located_fields
    <3> HIDE DEF S, L
    <3>2. S \in SUBSET DOMAIN fields
      BY <1>1, <2>1
    <3>3. Lists(L, k, fields, S)
      BY <2>2, <3>1
    <3>4. Range(L) = {fields[i] : i \in S}
      BY <3>2, <3>3, ListsRange
    <3>5. DOMAIN L = 1 .. k /\ L = [i \in 1 .. k |-> L[i]]
      BY <3>3 DEF Lists
    <3>6. QED
      BY <3>4, <3>5
  <2>4. \A f : f \in Range(L) <=> f \in Range(fields) /\ is_locatable(f)
    <3> HIDE DEF L
    <3> QED BY <1>1, <1>2, <2>3 DEF locatable_in
  <2>5. \A i \in 1 .. k : L[i] \in LocatedFields
    <3> HIDE DEF L, S, DefinedFields
    <3>1. \A i \in 1 .. k : L[i] \in Range(L)
      BY <2>3 DEF Range
    <3>2. \A f \in Range(L) : f \in DefinedFields /\ is_locatable(f)
      BY <1>1, <1>2, <2>4
    <3>3. QED
      BY <3>1, <3>2 DEF LocatedFields
  <2>6. Listed(L)
    <3> HIDE DEF L, S, LocatedFields
    <3> QED BY <2>3, <2>5 DEF Listed
  <2>7. QED
    BY <2>4, <2>6
<1>4. unl \in Seq(DefinedFields) /\ \A f : f \in Range(unl) <=> f \in Range(fields) /\ ~is_locatable(f)
  <2> DEFINE S == DOMAIN fields \ locatable_in(fields)
  <2>1. S \in SUBSET (1 .. Len(fields))
    BY <1>1
  <2>2. PICK k \in Nat : Lists(at_positions(fields, S), k, fields, S)
    <3> HIDE DEF S
    <3> QED BY <1>1, <2>1, AtPositions
  <2>3. Range(unl) = {fields[i] : i \in S} /\ \A T : Range(fields) \subseteq T => unl \in Seq(T)
    <3>1. unl = at_positions(fields, S)
      BY DEF unlocated_fields
    <3> HIDE DEF S, unl
    <3>2. QED
      BY <1>1, <2>1, <2>2, <3>1, ListsRange
  <2>4. \A f : f \in Range(unl) <=> f \in Range(fields) /\ ~is_locatable(f)
    <3> HIDE DEF unl
    <3> QED BY <1>1, <1>2, <2>3 DEF locatable_in
  <2>5. Range(fields) \subseteq DefinedFields
    <3> HIDE DEF DefinedFields
    <3> QED BY <1>1, <1>2
  <2>6. QED
    <3> HIDE DEF unl, DefinedFields
    <3> QED BY <2>3, <2>4, <2>5
<1>5. auto \in Seq(DefinedFields) /\ Range(auto) = Range(unl)
  <2> HIDE DEF unl, DefinedFields
  <2>1. Len(unl) \in Nat /\ DOMAIN unl = 1 .. Len(unl) /\ Range(unl) \subseteq DefinedFields
    BY <1>4 DEF Range
  <2>2. Lists(auto, Len(unl), unl, 1 .. Len(unl))
    BY <1>4, SortedBySize
  <2> HIDE DEF auto
  <2>3. Range(auto) = {unl[i] : i \in 1 .. Len(unl)} /\ auto \in Seq(DefinedFields)
    <3>1. 1 .. Len(unl) \in SUBSET DOMAIN unl
      BY <2>1
    <3>2. /\ Range(auto) = {unl[i] : i \in 1 .. Len(unl)}
          /\ Range(unl) \subseteq DefinedFields => auto \in Seq(DefinedFields)
      BY <2>1, <2>2, <3>1, ListsRange
    <3>3. QED
      BY <2>1, <3>2
  <2>4. QED
    BY <2>1, <2>3 DEF Range
<1> HIDE DEF L, auto, unl
<1>6. Listed(A) /\ Range(A) \subseteq Range(L) /\ names_of(A) = names_of(L)
  BY <1>3, UniqueByName
<1> DEFINE n == Len(auto)
<1>7. n \in Nat /\ DOMAIN auto = 1 .. n /\ \A k \in 1 .. n : auto[k] \in DefinedFields /\ auto[k] \in Range(unl)
  <2> HIDE DEF DefinedFields
  <2>1. n \in Nat /\ DOMAIN auto = 1 .. n /\ \A k \in 1 .. n : auto[k] \in DefinedFields
    BY <1>5
  <2>2. \A k \in 1 .. n : auto[k] \in Range(auto)
    BY <2>1 DEF Range
  <2>3. QED
    BY <1>5, <2>1, <2>2
<1>8. /\ ms \in Seq(Seq(LocatedFields)) /\ Len(ms) = 1 + n
      /\ ms[1] = A /\ \A i \in 2 .. 1 + n : ms[i] = <<default_located(auto[i - 1])>>
  <2>1. \A k \in 1 .. n : default_located(auto[k]) \in LocatedFields
    <3> HIDE DEF DefinedFields
    <3> QED BY <1>7, DefaultLocated
  <2>2. singles \in Seq(Seq(LocatedFields)) /\ Len(singles) = n
    <3>1. \A k \in 1 .. n : singles[k] \in Seq(LocatedFields)
      <4> HIDE DEF LocatedFields
      <4> QED BY <1>7, <2>1
    <3>2. singles = [k \in 1 .. n |-> singles[k]]
      BY <1>7
    <3> HIDE DEF singles, LocatedFields
    <3>3. QED
      BY <1>7, <3>1, <3>2
  <2>3. \A k \in 1 .. n : singles[k] = <<default_located(auto[k])>>
    BY <1>7
  <2> HIDE DEF singles, LocatedFields, A
  <2>4. A \in Seq(LocatedFields)
    BY <1>6 DEF Listed
  <2>5. ms \in Seq(Seq(LocatedFields)) /\ Len(ms) = 1 + n /\ ms[1] = A
    BY <1>7, <2>2, <2>4
  <2>6. ASSUME NEW i \in 2 .. 1 + n PROVE ms[i] = <<default_located(auto[i - 1])>>
    <3>1. ms[i] = singles[i - 1] /\ i - 1 \in 1 .. n
      BY <1>7, <2>2, <2>4
    <3>2. QED
      BY <2>3, <3>1
  <2>7. QED
    BY <2>5, <2>6
<1>9. p = pack(8, ms)
  BY DEF relaxed_message, A, L, auto, unl
<1> HIDE DEF ms, A, p
<1> DEFINE start == [i \in 1 .. Len(ms) |-> msg_offsets(8, ms)[i] * 8]
<1>10. /\ Listed(p) /\ OnePerName(p)
       /\ \A i \in 1 .. Len(ms) : start[i] \in Nat
       /\ \A g \in Range(p) : \E i \in 1 .. Len(ms) : \E f \in Range(ms[i]) : g = shifted_by(f, start[i])
       /\ \A i \in 1 .. Len(ms) : names_of(ms[i]) \subseteq names_of(p)
  <2>1. 8 \in WholeElements /\ Len(ms) > 0
    BY <1>7, <1>8 DEF WholeElements
  <2>2. QED
    BY <1>8, <1>9, <2>1, PackIs
<1>11. ASSUME NEW i \in 1 .. Len(ms), NEW f \in Range(ms[i])
       PROVE  /\ f \in LocatedFields
              /\ \E f0 \in Range(fields) : /\ f0.name = f.name
                                           /\ i = 1 => f0 = f /\ is_locatable(f)
                                           /\ i # 1 => f = default_located(auto[i - 1])
  <2>1. f \in LocatedFields
    <3> HIDE DEF LocatedFields
    <3> QED BY <1>7, <1>8 DEF Range
  <2>2. CASE i = 1
    BY <1>3, <1>6, <1>8, <2>1, <2>2
  <2>3. CASE i # 1
    <3>1. i \in 2 .. 1 + n /\ i - 1 \in 1 .. n
      BY <1>7, <1>8, <2>3
    <3>2. f = default_located(auto[i - 1])
      BY <1>8, <3>1 DEF Range
    <3>3. auto[i - 1] \in Range(fields) /\ f.name = auto[i - 1].name
      BY <1>4, <1>7, <3>1, <3>2, DefaultLocated
    <3>4. QED
      BY <2>1, <2>3, <3>2, <3>3
  <2>4. QED
    BY <2>2, <2>3
<1>12. names_of(fields) \subseteq names_of(p)
  <2> SUFFICES ASSUME NEW f \in Range(fields) PROVE f.name \in names_of(p)
    BY DEF names_of
  <2>1. CASE is_locatable(f)
    <3>1. f.name \in names_of(ms[1])
      BY <1>3, <1>6, <1>8, <2>1 DEF names_of
    <3>2. QED
      BY <1>7, <1>8, <1>10, <3>1
  <2>2. CASE ~is_locatable(f)
    <3>0. f \in Range(auto)
      BY <1>4, <1>5, <2>2
    <3>1. PICK k \in 1 .. n : f = auto[k]
      BY <1>7, <3>0 DEF Range
    <3>2. k + 1 \in 2 .. 1 + n /\ (k + 1) - 1 = k /\ k + 1 \in 1 .. Len(ms)
      BY <1>7, <1>8
    <3>3. ms[k + 1] = <<default_located(f)>>
      BY <1>8, <3>1, <3>2
    <3>4. default_located(f) \in Range(ms[k + 1]) /\ default_located(f).name = f.name
      BY <1>7, <3>1, <3>3, DefaultLocated DEF Range
    <3>5. QED
      BY <1>10, <3>2, <3>4 DEF names_of
  <2>3. QED
    BY <2>1, <2>2
<1>13. ASSUME NEW f \in Range(p), NEW g \in Range(p)
       PROVE  \E f0, g0 \in Range(fields) :
                /\ f0.name = f.name /\ g0.name = g.name
                /\ overlap(f, g) =>
                     f.name = g.name \/ (is_locatable(f0) /\ is_locatable(g0) /\ overlap(f0, g0))
  <2>0f. PICK i \in 1 .. Len(ms) : \E h \in Range(ms[i]) : f = shifted_by(h, start[i])
    BY <1>10
  <2>1. PICK f1 \in Range(ms[i]) : f = shifted_by(f1, start[i])
    BY <2>0f
  <2>0g. PICK j \in 1 .. Len(ms) : \E h \in Range(ms[j]) : g = shifted_by(h, start[j])
    BY <1>10
  <2>2. PICK g1 \in Range(ms[j]) : g = shifted_by(g1, start[j])
    BY <2>0g
  <2>3. PICK f0 \in Range(fields) : /\ f0.name = f1.name
                                    /\ i = 1 => f0 = f1 /\ is_locatable(f1)
                                    /\ i # 1 => f1 = default_located(auto[i - 1])
    BY <1>11
  <2>4. PICK g0 \in Range(fields) : /\ g0.name = g1.name
                                    /\ j = 1 => g0 = g1 /\ is_locatable(g1)
                                    /\ j # 1 => g1 = default_located(auto[j - 1])
    BY <1>11
  <2>5. f.name = f1.name /\ g.name = g1.name
    BY <1>10, <1>11, <2>1, <2>2, ShiftedIs
  <2>6. overlap(f, g) => i = j /\ overlap(f1, g1)
    <3>1. 8 \in WholeElements
      BY DEF WholeElements
    <3>2. QED
      BY <1>8, <2>1, <2>2, <3>1, PackKeepsApart
  <2>7. overlap(f, g) => f.name = g.name \/ (is_locatable(f0) /\ is_locatable(g0) /\ overlap(f0, g0))
    <3> HIDE DEF start
    <3> QED BY <2>3, <2>4, <2>5, <2>6
  <2>8. QED
    <3> HIDE DEF start
    <3> QED BY <2>3, <2>4, <2>5, <2>7
<1>14. ASSUME NEW f \in Range(p)
       PROVE  \E f0 \in Range(fields), k \in Nat :
                f = shifted_by(IF is_locatable(f0) THEN f0 ELSE default_located(f0), k)
  <2>1. PICK i \in 1 .. Len(ms) : \E h \in Range(ms[i]) : f = shifted_by(h, start[i])
    BY <1>10
  <2>2. PICK h \in Range(ms[i]) : f = shifted_by(h, start[i])
    BY <2>1
  <2>3. start[i] \in Nat
    BY <1>10
  <2> HIDE DEF start
  <2>4. CASE i = 1
    BY <1>3, <1>6, <1>8, <2>2, <2>3, <2>4
  <2>5. CASE i # 1
    <3>1. i \in 2 .. 1 + n /\ i - 1 \in 1 .. n
      BY <1>7, <1>8, <2>5
    <3>2. h = default_located(auto[i - 1])
      BY <1>8, <2>2, <3>1 DEF Range
    <3>3. auto[i - 1] \in Range(fields) /\ ~is_locatable(auto[i - 1])
      BY <1>4, <1>7, <3>1
    <3>4. QED
      BY <2>2, <2>3, <3>2, <3>3
  <2>6. QED
    BY <2>4, <2>5
<1>15. QED
  <2> HIDE DEF start
  <2> QED BY <1>10, <1>12, <1>13, <1>14 DEF p

----------------------------------------------------------------------------
(* Fields that were packed side by side. *)

NamedApart ==
  /\ apart \subseteq names_of(message) \X names_of(message)
  /\ \A p \in apart : p[1] # p[2]

\* The fields of the message are located, and apart speaks of them.
DefinitionInv == Listed(message) /\ NamedApart /\ PackedApart

LEMMA NameIn ==
  ASSUME NEW m, NEW name \in names_of(m)
  PROVE  \E f \in Range(m) : f.name = name
  BY DEF names_of

LEMMA GivenLists ==
  /\ \A m \in Definitions \cup Extensions : Listed(m)
  /\ \A m \in Unlocated : m \in Seq(DefinedFields)
  /\ WholeElements = {8, 16, 32}
  /\ Alignments \cup ElemSizes \subseteq WholeElements
<1>1. \A m \in Definitions \cup Extensions : Listed(m)
  <2> HIDE DEF LocatedFields
  <2> QED BY FieldTypes DEF Listed
<1>2. \A m \in Unlocated : m \in Seq(DefinedFields)
  <2> HIDE DEF DefinedFields
  <2> QED BY FieldTypes
<1>3. QED
  BY <1>1, <1>2, StorageTypes DEF WholeElements

LEMMA ListedItems ==
  ASSUME NEW m, Listed(m)
  PROVE  /\ Len(m) \in Nat /\ DOMAIN m = 1 .. Len(m)
         /\ \A k \in 1 .. Len(m) : m[k] \in LocatedFields /\ m[k] \in Range(m)
         /\ \A f \in Range(m) : f \in LocatedFields /\ f \in DefinedFields /\ is_locatable(f)
         /\ m \in Seq(DefinedFields)
<1>1. Len(m) \in Nat /\ DOMAIN m = 1 .. Len(m) /\ \A k \in 1 .. Len(m) : m[k] \in LocatedFields
  <2> HIDE DEF LocatedFields
  <2> QED BY DEF Listed
<1>2. \A f \in LocatedFields : f \in DefinedFields /\ is_locatable(f)
  <2> HIDE DEF DefinedFields
  <2> QED BY DEF LocatedFields
<1>3. m \in Seq(DefinedFields)
  <2> HIDE DEF DefinedFields, LocatedFields
  <2> QED BY <1>1, <1>2 DEF Listed
<1>4. QED
  <2> HIDE DEF DefinedFields, LocatedFields
  <2> QED BY <1>1, <1>2, <1>3 DEF Range

LEMMA DefinitionInit == StorageInit => DefinitionInv
<1> SUFFICES ASSUME StorageInit PROVE DefinitionInv
  OBVIOUS
<1>1. PICK m \in Definitions : message = unique_by_name(m)
  BY DEF StorageInit
<1>2. Listed(message)
  BY <1>1, GivenLists, UniqueByName
<1>3. apart = {}
  BY DEF StorageInit
<1>4. QED
  BY <1>2, <1>3 DEF DefinitionInv, NamedApart, PackedApart

LEMMA ExtendKeepsApart == DefinitionInv /\ Extend => DefinitionInv'
<1> SUFFICES ASSUME DefinitionInv, Extend PROVE DefinitionInv'
  OBVIOUS
<1>1. PICK fields \in Extensions :
        /\ message' = extension(message, fields)
        /\ apart' = {p \in apart : {p[1], p[2]} \cap names_of(fields) = {}}
  BY DEF Extend, Define
<1>2. Listed(message) /\ Listed(fields)
  BY GivenLists DEF DefinitionInv
<1>3. /\ Listed(message')
      /\ Range(message') \subseteq Range(fields) \cup Range(message)
      /\ names_of(message') = names_of(fields) \cup names_of(message)
  BY <1>1, <1>2, ExtensionIs
<1>4. NamedApart'
  BY <1>1, <1>3 DEF DefinitionInv, NamedApart
<1>5. PackedApart'
  <2> SUFFICES ASSUME NEW f \in Range(message'), NEW g \in Range(message'), <<f.name, g.name>> \in apart'
               PROVE  ~overlap(f, g)
    BY DEF PackedApart
  <2>1. <<f.name, g.name>> \in apart /\ f.name \notin names_of(fields) /\ g.name \notin names_of(fields)
    BY <1>1
  <2>2. f \in Range(message) /\ g \in Range(message)
    BY <1>3, <2>1 DEF names_of
  <2>3. QED
    BY <2>1, <2>2 DEF DefinitionInv, PackedApart
<1>6. QED
  BY <1>3, <1>4, <1>5 DEF DefinitionInv

LEMMA PackStepKeepsApart == DefinitionInv /\ Pack => DefinitionInv'
<1> SUFFICES ASSUME DefinitionInv, Pack PROVE DefinitionInv'
  OBVIOUS
<1>1. PICK m \in Definitions : \E align \in Alignments :
        /\ names_of(m) \cap names_of(message) = {}
        /\ message' = pack(align, <<message, unique_by_name(m)>>)
        /\ apart' = apart \cup Pairs(names_of(message), names_of(m))
  BY DEF Pack, Define
<1>2. PICK align \in Alignments :
        /\ names_of(m) \cap names_of(message) = {}
        /\ message' = pack(align, <<message, unique_by_name(m)>>)
        /\ apart' = apart \cup Pairs(names_of(message), names_of(m))
  BY <1>1
<1> DEFINE u == unique_by_name(m)
           ms == <<message, u>>
           start == [i \in 1 .. Len(ms) |-> msg_offsets(align, ms)[i] * align]
<1>3. Listed(message) /\ Listed(u) /\ names_of(u) = names_of(m) /\ align \in WholeElements
  BY GivenLists, UniqueByName DEF DefinitionInv
<1> HIDE DEF u
<1>4. ms \in Seq(Seq(LocatedFields)) /\ Len(ms) = 2 /\ ms[1] = message /\ ms[2] = u
  BY <1>3, TwoMessages
<1>5. message' = pack(align, ms)
  BY <1>2 DEF u
<1> HIDE DEF ms
<1>6. /\ Listed(message')
      /\ \A i \in 1 .. Len(ms) : start[i] \in Nat
      /\ \A g \in Range(message') : \E i \in 1 .. Len(ms) : \E f \in Range(ms[i]) : g = shifted_by(f, start[i])
      /\ \A i \in 1 .. Len(ms) : names_of(ms[i]) \subseteq names_of(message')
  <2>1. Len(ms) > 0
    BY <1>4
  <2>2. QED
    BY <1>3, <1>4, <1>5, <2>1, PackIs
<1>7. names_of(message) \subseteq names_of(message') /\ names_of(m) \subseteq names_of(message')
  BY <1>3, <1>4, <1>6
<1>8. NamedApart'
  BY <1>2, <1>7 DEF DefinitionInv, NamedApart, Pairs
<1>9. PackedApart'
  <2> SUFFICES ASSUME NEW f \in Range(message'), NEW g \in Range(message'),
                      <<f.name, g.name>> \in apart', overlap(f, g)
               PROVE  FALSE
    BY DEF PackedApart
  <2>1. PICK i \in 1 .. Len(ms) : \E h \in Range(ms[i]) : f = shifted_by(h, start[i])
    BY <1>6
  <2>2. PICK f1 \in Range(ms[i]) : f = shifted_by(f1, start[i])
    BY <2>1
  <2>3. PICK j \in 1 .. Len(ms) : \E h \in Range(ms[j]) : g = shifted_by(h, start[j])
    BY <1>6
  <2>4. PICK g1 \in Range(ms[j]) : g = shifted_by(g1, start[j])
    BY <2>3
  <2>5. i = j /\ overlap(f1, g1)
    BY <1>3, <1>4, <2>2, <2>4, PackKeepsApart
  <2>6. i \in {1, 2} /\ (ms[i] = message \/ ms[i] = u)
    BY <1>4
  <2>7. f1 \in LocatedFields /\ g1 \in LocatedFields
    BY <1>3, <2>5, <2>6, ListedItems
  <2>8. f.name = f1.name /\ g.name = g1.name
    BY <1>6, <2>2, <2>4, <2>7, ShiftedIs
  <2>9. f1.name \in names_of(ms[i]) /\ g1.name \in names_of(ms[i])
    BY <2>5 DEF names_of
  <2>10. <<f.name, g.name>> \in apart
    BY <1>2, <1>3, <2>6, <2>8, <2>9 DEF Pairs
  <2>11. f1.name \in names_of(message) /\ g1.name \in names_of(message)
    BY <2>8, <2>10 DEF DefinitionInv, NamedApart
  <2>12. ms[i] = message
    BY <1>2, <1>3, <2>6, <2>9, <2>11
  <2>13. QED
    BY <2>5, <2>8, <2>10, <2>12 DEF DefinitionInv, PackedApart
<1>10. QED
  BY <1>6, <1>8, <1>9 DEF DefinitionInv

LEMMA OverlayKeepsApart == DefinitionInv /\ Overlay => DefinitionInv'
<1> SUFFICES ASSUME DefinitionInv, Overlay PROVE DefinitionInv'
  OBVIOUS
<1>1. PICK m \in Definitions : /\ names_of(m) \cap names_of(message) = {}
                               /\ message' = overlay(<<message, m>>)
                               /\ apart' = apart
  BY DEF Overlay, Define
<1>2. Listed(message) /\ Listed(m)
  BY GivenLists DEF DefinitionInv
<1>3. /\ Listed(message')
      /\ Range(message') \subseteq Range(message) \cup Range(m)
      /\ names_of(message') = names_of(message) \cup names_of(m)
  BY <1>1, <1>2, OverlayIs
<1>4. NamedApart'
  BY <1>1, <1>3 DEF DefinitionInv, NamedApart
<1>5. PackedApart'
  <2> SUFFICES ASSUME NEW f \in Range(message'), NEW g \in Range(message'), <<f.name, g.name>> \in apart'
               PROVE  ~overlap(f, g)
    BY DEF PackedApart
  <2>1. <<f.name, g.name>> \in apart /\ f.name \in names_of(message) /\ g.name \in names_of(message)
    BY <1>1 DEF DefinitionInv, NamedApart
  <2>2. f \in Range(message) /\ g \in Range(message)
    BY <1>1, <1>3, <2>1 DEF names_of
  <2>3. QED
    BY <2>1, <2>2 DEF DefinitionInv, PackedApart
<1>6. QED
  BY <1>3, <1>4, <1>5 DEF DefinitionInv

LEMMA RelaxKeepsApart == DefinitionInv /\ Relax => DefinitionInv'
<1> SUFFICES ASSUME DefinitionInv, Relax PROVE DefinitionInv'
  OBVIOUS
<1> DEFINE Placed(fields) == {p \in names_of(message') \X names_of(message') :
                                p[1] # p[2] /\ \E f \in Range(fields) : ~is_locatable(f) /\ f.name \in {p[1], p[2]}}
<1>1. PICK fields \in Unlocated :
        /\ has_unique_names(fields \o message)
        /\ message' = relaxed_message(fields \o message)
        /\ apart' = apart \cup Placed(fields)
  BY DEF Relax, Define
<1> DEFINE all == fields \o message
<1>2. /\ Listed(message) /\ message \in Seq(DefinedFields) /\ fields \in Seq(DefinedFields)
      /\ \A f \in Range(message) : is_locatable(f)
  BY GivenLists, ListedItems DEF DefinitionInv
<1>3. all \in Seq(DefinedFields) /\ Range(all) = Range(fields) \cup Range(message)
  <2> HIDE DEF DefinedFields
  <2> QED BY <1>2, ConcatRange
<1>4. \A f, g \in Range(all) : f.name = g.name => f = g
  <2> HIDE DEF all
  <2>1. has_unique_names(all)
    BY <1>1 DEF all
  <2>2. QED
    BY <2>1 DEF has_unique_names, Range
<1>5. /\ Listed(message')
      /\ names_of(all) \subseteq names_of(message')
      /\ \A f, g \in Range(message') :
           \E f0, g0 \in Range(all) :
             /\ f0.name = f.name /\ g0.name = g.name
             /\ overlap(f, g) =>
                  f.name = g.name \/ (is_locatable(f0) /\ is_locatable(g0) /\ overlap(f0, g0))
  <2> HIDE DEF all
  <2>1. message' = relaxed_message(all)
    BY <1>1 DEF all
  <2>2. QED
    BY <1>3, <2>1, RelaxIs
<1> HIDE DEF all
<1>6. names_of(message) \subseteq names_of(message')
  BY <1>3, <1>5 DEF names_of
<1>7. NamedApart'
  BY <1>1, <1>6 DEF DefinitionInv, NamedApart
<1>8. PackedApart'
  <2> SUFFICES ASSUME NEW f \in Range(message'), NEW g \in Range(message'),
                      <<f.name, g.name>> \in apart', overlap(f, g)
               PROVE  FALSE
    BY DEF PackedApart
  <2>1. PICK f0 \in Range(all), g0 \in Range(all) :
             /\ f0.name = f.name /\ g0.name = g.name
             /\ f.name = g.name \/ (is_locatable(f0) /\ is_locatable(g0) /\ overlap(f0, g0))
    BY <1>5
  <2>2. CASE <<f.name, g.name>> \in apart
    <3>1. f.name # g.name /\ f.name \in names_of(message) /\ g.name \in names_of(message)
      BY <2>2 DEF DefinitionInv, NamedApart
    <3>2. f0 \in Range(message) /\ g0 \in Range(message)
      BY <1>3, <1>4, <2>1, <3>1 DEF names_of
    <3>3. QED
      BY <2>1, <2>2, <3>1, <3>2 DEF DefinitionInv, PackedApart
  <2>3. CASE <<f.name, g.name>> \in Placed(fields)
    <3>1. f.name # g.name
      BY <2>3
    <3>2. PICK h \in Range(fields) : ~is_locatable(h) /\ h.name \in {f.name, g.name}
      BY <2>3
    <3>3. h = f0 \/ h = g0
      BY <1>3, <1>4, <2>1, <3>2
    <3>4. QED
      BY <2>1, <3>1, <3>2, <3>3
  <2>4. QED
    <3> HIDE DEF Placed
    <3> QED BY <1>1, <2>2, <2>3
<1>9. QED
  BY <1>5, <1>7, <1>8 DEF DefinitionInv

LEMMA RenameKeepsApart == DefinitionInv /\ Rename => DefinitionInv'
<1> SUFFICES ASSUME DefinitionInv, Rename PROVE DefinitionInv'
  OBVIOUS
<1>1. PICK r \in Renames :
        /\ r.old \in names_of(message) /\ r.new \notin names_of(message)
        /\ message' = rename_field(message, r.old, r.new)
        /\ apart' = {<<IF p[1] = r.old THEN r.new ELSE p[1], IF p[2] = r.old THEN r.new ELSE p[2]>> : p \in apart}
  BY DEF Rename, Define
<1> DEFINE Renamed(n) == IF n = r.old THEN r.new ELSE n
<1>2. r.new \in Names
  <2>1. r.new \in {q.new : q \in Renames}
    OBVIOUS
  <2>2. QED
    BY <2>1, Zenon DEF Names
<1>3. Listed(message)
  BY DEF DefinitionInv
<1>4. /\ Listed(message')
      /\ \A f \in Range(message') : \E g \in Range(message) : f.name = Renamed(g.name) /\ f.ats = g.ats
      /\ \A g \in Range(message) : Renamed(g.name) \in names_of(message')
  BY <1>1, <1>2, <1>3, RenameIs
<1>5. \A n1, n2 \in names_of(message) : Renamed(n1) = Renamed(n2) => n1 = n2
  BY <1>1
<1>6. \A p \in apart : p[1] \in names_of(message) /\ p[2] \in names_of(message) /\ p[1] # p[2] /\ p = <<p[1], p[2]>>
  BY DEF DefinitionInv, NamedApart
<1>7. \A n \in names_of(message) : Renamed(n) \in names_of(message')
  <2> HIDE DEF Renamed
  <2> QED BY <1>4 DEF names_of
<1>8. \A q \in apart' : \E p \in apart : q = <<Renamed(p[1]), Renamed(p[2])>>
  BY <1>1
<1> HIDE DEF Renamed
<1>9. NamedApart'
  <2> SUFFICES ASSUME NEW q \in apart'
               PROVE  q \in names_of(message') \X names_of(message') /\ q[1] # q[2]
    BY DEF NamedApart
  <2>1. PICK p \in apart : q = <<Renamed(p[1]), Renamed(p[2])>>
    BY <1>8
  <2>2. QED
    BY <1>5, <1>6, <1>7, <2>1
<1>10. PackedApart'
  <2> SUFFICES ASSUME NEW f \in Range(message'), NEW g \in Range(message'), <<f.name, g.name>> \in apart'
               PROVE  ~overlap(f, g)
    BY DEF PackedApart
  <2>1. PICK f0 \in Range(message) : f.name = Renamed(f0.name) /\ f.ats = f0.ats
    BY <1>4
  <2>2. PICK g0 \in Range(message) : g.name = Renamed(g0.name) /\ g.ats = g0.ats
    BY <1>4
  <2>3. PICK p \in apart : f.name = Renamed(p[1]) /\ g.name = Renamed(p[2])
    BY <1>8
  <2>4. p[1] = f0.name /\ p[2] = g0.name
    BY <1>5, <1>6, <2>1, <2>2, <2>3 DEF names_of
  <2>5. ~overlap(f0, g0)
    BY <1>6, <2>3, <2>4 DEF DefinitionInv, PackedApart
  <2>6. QED
    BY <2>1, <2>2, <2>5 DEF overlap, located_bits
<1>11. QED
  BY <1>4, <1>9, <1>10 DEF DefinitionInv

LEMMA DefinitionUnchanged ==
  ASSUME DefinitionInv, UNCHANGED definition
  PROVE  DefinitionInv'
  BY DEF DefinitionInv, NamedApart, PackedApart, definition

----------------------------------------------------------------------------
(* How far the insertion of a field has come. *)

QueueItems(fields) == [field : fields, value : SUBSET Nat]
InsertionStates == [left : Nat, raw : SUBSET Nat, lsb : Nat, value : SUBSET Nat, busy : BOOLEAN]

last_bit(l) == l.lsb + l.size - 1

\* Where a location is being written: at its start or at the start of an
\* element, with no more value left than there are bits.
WithinLocator(l) ==
  /\ insertion.lsb \in l.lsb .. last_bit(l)
  /\ insertion.lsb = l.lsb \/ insertion.lsb % elem_size = 0
  /\ insertion.value \subseteq 0 .. last_bit(l) - insertion.lsb

InsertionInv ==
  /\ Listed(message)
  /\ elem_size \in WholeElements
  /\ phase \in {"define", "insert"}
  /\ phase = "define" => queue = <<>> /\ insertion = no_insertion
  /\ queue \in Seq(QueueItems(Range(message)))
  /\ insertion \in InsertionStates
  /\ insertion.left > 0 => queue # <<>> /\ insertion.left <= Len(field.ats)
  /\ insertion.busy => insertion.left > 0 /\ WithinLocator(locator)

\* From bit lsb of dword i up to bit last: within one element, or to the end of
\* the first.
LEMMA ElementArithmetic ==
  ASSUME NEW i \in Nat, NEW lsb \in Nat, NEW last \in Nat, lsb <= last, NEW size \in WholeElements
  PROVE  /\ size \in Nat /\ lsb % size \in 0 .. size - 1
         /\ ((i * 32) \div size + lsb \div size) * size = i * 32 + lsb - (lsb % size)
         /\ lsb \div size = last \div size => (last % size) - (lsb % size) = last - lsb
         /\ lsb \div size # last \div size =>
              /\ lsb + (size - (lsb % size)) <= last
              /\ (lsb + (size - (lsb % size))) % size = 0
<1>1. CASE size = 8
  BY <1>1
<1>2. CASE size = 16
  BY <1>2
<1>3. CASE size = 32
  BY <1>3
<1>4. QED
  BY <1>1, <1>2, <1>3 DEF WholeElements

LEMMA LocatorIs ==
  ASSUME NEW a \in Locations
  PROVE  LET l == locator_for(a) IN
         /\ l.index \in Nat /\ l.lsb \in Nat /\ l.size \in Nat \ {0}
         /\ a.lsb = l.index * 32 + l.lsb
         /\ a.msb = l.index * 32 + last_bit(l)
<1>1. a.lsb \in Nat /\ a.msb \in Nat /\ a.lsb <= a.msb
  BY DEF Locations
<1>2. QED
  BY <1>1 DEF locator_for, at_size, last_bit

\* The field that is being written is one of the message.
LEMMA FieldIs ==
  ASSUME InsertionInv, queue # <<>>
  PROVE  /\ field \in Range(message) /\ field \in LocatedFields
         /\ Head(queue) \in QueueItems(Range(message)) /\ Tail(queue) \in Seq(QueueItems(Range(message)))
         /\ Len(field.ats) \in Nat \ {0}
<1>1. Head(queue) \in QueueItems(Range(message)) /\ Tail(queue) \in Seq(QueueItems(Range(message)))
  <2> HIDE DEF QueueItems
  <2> QED BY DEF InsertionInv
<1>2. field \in Range(message)
  BY <1>1 DEF field, QueueItems
<1>3. field \in LocatedFields
  BY <1>2, ListedItems DEF InsertionInv
<1>4. QED
  BY <1>1, <1>2, <1>3, LocatedIs

LEMMA LocationIs ==
  ASSUME InsertionInv, insertion.left > 0
  PROVE  /\ queue # <<>> /\ insertion.left \in 1 .. Len(field.ats)
         /\ field.ats[insertion.left] \in Locations
         /\ locator = locator_for(field.ats[insertion.left])
<1>1. queue # <<>> /\ insertion.left <= Len(field.ats) /\ insertion.left \in Nat
  BY DEF InsertionInv, InsertionStates
<1>2. insertion.left \in 1 .. Len(field.ats)
  BY <1>1, FieldIs
<1>3. field.ats[insertion.left] \in Locations
  <2> HIDE DEF Locations
  <2> QED BY <1>1, <1>2, FieldIs, LocatedIs
<1>4. QED
  BY <1>1, <1>2, <1>3 DEF locator, next_locator

\* The part of an element that is written, from bit lsb_in_element to bit top,
\* is part of the location.
LEMMA PartOfLocation ==
  ASSUME InsertionInv, insertion.busy
  PROVE  /\ lsb_in_element \in 0 .. elem_size - 1 /\ elem_size \in Nat
         /\ insertion.lsb \in Nat /\ last_bit(locator) \in Nat
         /\ locator.lsb \in Nat /\ locator.lsb <= insertion.lsb /\ insertion.lsb <= last_bit(locator)
         /\ current_idx = max_idx(locator, elem_size) =>
              /\ msb_in_element - lsb_in_element = last_bit(locator) - insertion.lsb
              /\ \A b \in lsb_in_element .. msb_in_element :
                   current_idx * elem_size + b \in located_bits(field)
         /\ current_idx # max_idx(locator, elem_size) =>
              /\ insertion.lsb + (elem_size - lsb_in_element) <= last_bit(locator)
              /\ (insertion.lsb + (elem_size - lsb_in_element)) % elem_size = 0
              /\ \A b \in lsb_in_element .. elem_size - 1 :
                   current_idx * elem_size + b \in located_bits(field)
<1> DEFINE a == field.ats[insertion.left]
           l == locator
           last == last_bit(l)
           lsb == insertion.lsb
           i == l.index
           low == lsb % elem_size
           idx == (i * 32) \div elem_size + lsb \div elem_size
<1>1. /\ queue # <<>> /\ insertion.left \in 1 .. Len(field.ats)
      /\ a \in Locations /\ l = locator_for(a) /\ field \in LocatedFields
  <2>1. insertion.left > 0
    BY DEF InsertionInv
  <2>2. QED
    BY <2>1, LocationIs, FieldIs
<1>2. /\ i \in Nat /\ l.lsb \in Nat /\ l.size \in Nat \ {0}
      /\ a.lsb = i * 32 + l.lsb /\ a.msb = i * 32 + last
  <2> HIDE DEF a, l
  <2> QED BY <1>1, LocatorIs
<1>3. last \in Nat
  <2> HIDE DEF l
  <2>1. \A x \in Nat, y \in Nat \ {0} : x + y - 1 \in Nat
    OBVIOUS
  <2>2. l.lsb + l.size - 1 \in Nat
    BY <1>2, <2>1
  <2>3. QED
    BY <2>2 DEF last_bit
<1>4. lsb \in Nat /\ l.lsb <= lsb /\ lsb <= last /\ elem_size \in WholeElements
  <2>1. lsb \in l.lsb .. last /\ elem_size \in WholeElements
    BY DEF InsertionInv, WithinLocator
  <2>2. QED
    <3> HIDE DEF last, l, lsb
    <3> QED BY <1>2, <1>3, <2>1
<1> HIDE DEF a, l, last, lsb, i
<1>5. /\ elem_size \in Nat /\ low \in 0 .. elem_size - 1
      /\ idx * elem_size = i * 32 + lsb - low
      /\ lsb \div elem_size = last \div elem_size => (last % elem_size) - low = last - lsb
      /\ lsb \div elem_size # last \div elem_size =>
           /\ lsb + (elem_size - low) <= last
           /\ (lsb + (elem_size - low)) % elem_size = 0
  BY <1>2, <1>3, <1>4, ElementArithmetic
<1>6. idx \in Int /\ idx * elem_size \in Int
  <2>1. idx \in Int
    BY <1>2, <1>4 DEF WholeElements
  <2>2. QED
    BY <1>2, <1>4, <1>5
<1>7. /\ current_idx = idx
      /\ max_idx(locator, elem_size) = (i * 32) \div elem_size + last \div elem_size
      /\ lsb_in_element = low /\ msb_in_element = last % elem_size
  BY DEF current_idx, max_idx, element, lsb_in_element, msb_in_element, idx, low, l, last, lsb, i, last_bit
<1>8. current_idx = max_idx(locator, elem_size) <=> lsb \div elem_size = last \div elem_size
  <2>1. (i * 32) \div elem_size \in Int /\ lsb \div elem_size \in Int /\ last \div elem_size \in Int
    BY <1>2, <1>3, <1>4 DEF WholeElements
  <2>2. QED
    BY <1>7, <2>1
<1>9. \A x \in Int : a.lsb <= x /\ x <= a.msb => x \in located_bits(field)
  <2>1. \A x : x \in a.lsb .. a.msb => x \in located_bits(field)
    BY <1>1, BitIs DEF a
  <2>2. a.lsb \in Int /\ a.msb \in Int
    BY <1>2, <1>3
  <2>3. QED
    BY <2>1, <2>2
<1> HIDE DEF low, idx
<1>10. ASSUME lsb \div elem_size = last \div elem_size,
              NEW b \in lsb_in_element .. msb_in_element
       PROVE  current_idx * elem_size + b \in located_bits(field)
  <2>1. low <= b /\ b - low <= last - lsb /\ b \in Int
    <3>1. last % elem_size \in Int /\ low \in Int
      BY <1>3, <1>4, <1>5 DEF WholeElements
    <3>2. QED
      BY <1>3, <1>4, <1>5, <1>7, <1>10, <3>1
  <2>2. idx * elem_size + b \in Int /\ a.lsb <= idx * elem_size + b /\ idx * elem_size + b <= a.msb
    BY <1>2, <1>3, <1>4, <1>5, <1>6, <2>1
  <2>3. QED
    BY <1>7, <1>9, <2>2
<1>11. ASSUME lsb \div elem_size # last \div elem_size,
              NEW b \in lsb_in_element .. elem_size - 1
       PROVE  current_idx * elem_size + b \in located_bits(field)
  <2>1. low <= b /\ b <= elem_size - 1 /\ b \in Int /\ low \in Int
    BY <1>5, <1>7
  <2>2. lsb + (elem_size - low) <= last
    BY <1>5, <1>11
  <2>3. idx * elem_size + b \in Int /\ a.lsb <= idx * elem_size + b /\ idx * elem_size + b <= a.msb
    BY <1>2, <1>3, <1>4, <1>5, <1>6, <2>1, <2>2
  <2>4. QED
    BY <1>7, <1>9, <2>3
<1>12. /\ current_idx = max_idx(locator, elem_size) =>
            /\ msb_in_element - lsb_in_element = last - lsb
            /\ \A b \in lsb_in_element .. msb_in_element : current_idx * elem_size + b \in located_bits(field)
       /\ current_idx # max_idx(locator, elem_size) =>
            /\ lsb + (elem_size - lsb_in_element) <= last
            /\ (lsb + (elem_size - lsb_in_element)) % elem_size = 0
            /\ \A b \in lsb_in_element .. elem_size - 1 : current_idx * elem_size + b \in located_bits(field)
  BY <1>5, <1>7, <1>8, <1>10, <1>11
<1>13. /\ lsb_in_element \in 0 .. elem_size - 1 /\ elem_size \in Nat
       /\ lsb \in Nat /\ last \in Nat /\ l.lsb \in Nat /\ l.lsb <= lsb /\ lsb <= last
  BY <1>2, <1>3, <1>4, <1>5, <1>7
<1>14. QED
  BY <1>12, <1>13 DEF lsb, last, l

LEMMA InsertionOf ==
  ASSUME Listed(message), NEW f \in Range(message), NEW v
  PROVE  Insertion(f, v) \in QueueItems(Range(message))
<1>1. f.type \in Nat
  <2>1. f \in DefinedFields
    BY ListedItems
  <2>2. QED
    <3> HIDE DEF Names, Locations
    <3> QED BY <2>1 DEF DefinedFields, FieldsNamed
<1>2. typed(f, v) \subseteq Nat
  BY <1>1 DEF typed
<1>3. QED
  BY <1>2 DEF Insertion, QueueItems

\* The fields at some positions of the message, with values.
LEMMA InsertionsOf ==
  ASSUME Listed(message), NEW S \in SUBSET DOMAIN message
  PROVE  LET fields == at_positions(message, S) IN
         /\ DOMAIN fields \subseteq Nat
         /\ \A k \in DOMAIN fields : fields[k] \in Range(message)
         /\ \A q : q = [k \in DOMAIN fields |-> q[k]]
                   /\ (\A k \in DOMAIN fields : q[k] \in QueueItems(Range(message)))
                   => q \in Seq(QueueItems(Range(message)))
<1> DEFINE fields == at_positions(message, S)
<1>1. Len(message) \in Nat /\ DOMAIN message = 1 .. Len(message)
  BY ListedItems
<1>2. PICK n \in Nat : Lists(fields, n, message, S)
  BY <1>1, AtPositions
<1> HIDE DEF fields
<1>3. DOMAIN fields = 1 .. n /\ Range(fields) \subseteq Range(message)
  <2>1. DOMAIN fields = 1 .. n
    BY <1>2 DEF Lists
  <2>2. Range(fields) \subseteq Range(message)
    BY <1>2, ListsRange
  <2>3. QED
    BY <2>1, <2>2
<1>4. \A k \in DOMAIN fields : fields[k] \in Range(message)
  BY <1>3 DEF Range
<1>5. ASSUME NEW q, q = [k \in DOMAIN fields |-> q[k]],
             \A k \in DOMAIN fields : q[k] \in QueueItems(Range(message))
      PROVE  q \in Seq(QueueItems(Range(message)))
  <2> HIDE DEF QueueItems
  <2>1. q = [k \in 1 .. n |-> q[k]] /\ \A k \in 1 .. n : q[k] \in QueueItems(Range(message))
    BY <1>3, <1>5
  <2>2. QED
    BY <2>1
<1>6. DOMAIN fields \subseteq Nat
  BY <1>3
<1>7. QED
  BY <1>4, <1>5, <1>6 DEF fields

LEMMA GivenQueued ==
  ASSUME Listed(message), NEW given
  PROVE  Insertions(given) \in Seq(QueueItems(Range(message)))
<1> DEFINE S == {k \in DOMAIN message : message[k].name \in DOMAIN given}
           fields == at_positions(message, S)
           q == [k \in DOMAIN fields |-> Insertion(fields[k], given[fields[k].name])]
<1>1. /\ \A k \in DOMAIN fields : fields[k] \in Range(message)
      /\ q = [k \in DOMAIN fields |-> q[k]]
           /\ (\A k \in DOMAIN fields : q[k] \in QueueItems(Range(message)))
           => q \in Seq(QueueItems(Range(message)))
  <2>1. S \in SUBSET DOMAIN message
    OBVIOUS
  <2> HIDE DEF S, QueueItems
  <2>2. QED
    <3> HIDE DEF q
    <3> QED BY <2>1, InsertionsOf
<1>2. Insertions(given) = q
  BY DEF Insertions
<1> HIDE DEF fields
<1>3. \A k \in DOMAIN fields : q[k] \in QueueItems(Range(message))
  <2> HIDE DEF QueueItems
  <2> QED BY <1>1, InsertionOf
<1>4. QED
  <2> HIDE DEF QueueItems
  <2> QED BY <1>1, <1>2, <1>3

LEMMA DefaultsQueued ==
  ASSUME Listed(message)
  PROVE  LET defaults == at_positions(message, {k \in DOMAIN message : has_default_value(message[k])})
         IN [k \in DOMAIN defaults |-> Insertion(defaults[k], defaults[k].value)]
              \in Seq(QueueItems(Range(message)))
<1> DEFINE S == {k \in DOMAIN message : has_default_value(message[k])}
           fields == at_positions(message, S)
           q == [k \in DOMAIN fields |-> Insertion(fields[k], fields[k].value)]
<1>1. /\ \A k \in DOMAIN fields : fields[k] \in Range(message)
      /\ q = [k \in DOMAIN fields |-> q[k]]
           /\ (\A k \in DOMAIN fields : q[k] \in QueueItems(Range(message)))
           => q \in Seq(QueueItems(Range(message)))
  <2>1. S \in SUBSET DOMAIN message
    OBVIOUS
  <2> HIDE DEF S, QueueItems
  <2>2. QED
    <3> HIDE DEF q
    <3> QED BY <2>1, InsertionsOf
<1>2. \A k \in DOMAIN fields : q[k] \in QueueItems(Range(message))
  <2> HIDE DEF QueueItems, fields
  <2> QED BY <1>1, InsertionOf
<1>3. q \in Seq(QueueItems(Range(message)))
  <2> HIDE DEF QueueItems, fields
  <2> QED BY <1>1, <1>2
<1>4. QED
  BY <1>3

LEMMA InsertionInit == StorageInit => InsertionInv
<1> SUFFICES ASSUME StorageInit PROVE InsertionInv
  OBVIOUS
<1>1. Listed(message) /\ elem_size \in WholeElements
  BY DefinitionInit, GivenLists DEF StorageInit, DefinitionInv
<1>2. phase = "define" /\ queue = <<>> /\ insertion = no_insertion
  BY DEF StorageInit
<1>3. queue \in Seq(QueueItems(Range(message)))
  <2> HIDE DEF QueueItems
  <2> QED BY <1>2
<1>4. QED
  BY <1>1, <1>2, <1>3 DEF InsertionInv, InsertionStates, no_insertion

\* While the message is defined nothing is inserted.
LEMMA DefineKeepsInsertion ==
  ASSUME InsertionInv, DefinitionInv, NEW fields, Define(fields), DefinitionInv'
  PROVE  InsertionInv'
<1>1. phase = "define" /\ UNCHANGED <<phase, elem_size, queue, insertion>>
  BY DEF Define
<1>2. queue' = <<>> /\ insertion' = no_insertion /\ elem_size' \in WholeElements /\ phase' = "define"
  BY <1>1 DEF InsertionInv
<1>3. queue' \in Seq(QueueItems(Range(message')))
  <2> HIDE DEF QueueItems
  <2> QED BY <1>2
<1>4. Listed(message')
  BY DEF DefinitionInv
<1>5. QED
  BY <1>2, <1>3, <1>4 DEF InsertionInv, InsertionStates, no_insertion

LEMMA ConstructKeepsInsertion ==
  ASSUME InsertionInv, NEW elems, NEW insertions \in Seq(QueueItems(Range(message))),
         phase = "define", Construct(elems, insertions)
  PROVE  InsertionInv'
<1>1. /\ phase = "define" /\ phase' = "insert" /\ queue' = insertions
      /\ UNCHANGED <<message, elem_size, insertion>>
  BY DEF Construct, definition
<1>2. insertion' = no_insertion
  BY <1>1 DEF InsertionInv
<1>3. QED
  BY <1>1, <1>2 DEF InsertionInv, InsertionStates, no_insertion

LEMMA ConstructionKeepsInsertion ==
  ASSUME InsertionInv, Own \/ View \/ OwnCopy
  PROVE  InsertionInv'
<1>1. <<>> \in Seq(QueueItems(Range(message)))
  <2> HIDE DEF QueueItems
  <2> QED OBVIOUS
<1>2. phase = "define"
  BY DEF Own, View, OwnCopy
<1>3. \E insertions \in Seq(QueueItems(Range(message))) : \E elems : Construct(elems, insertions)
  <2>1. CASE Own
    <3> DEFINE defaults == at_positions(message, {k \in DOMAIN message : has_default_value(message[k])})
               first == [k \in DOMAIN defaults |-> Insertion(defaults[k], defaults[k].value)]
    <3>1. PICK given : \E n_elems \in Sizes :
            Construct([e \in 0 .. n_elems - 1 |-> {}], first \o Insertions(given))
      BY <2>1 DEF Own
    <3>2. first \in Seq(QueueItems(Range(message)))
      BY DefaultsQueued DEF InsertionInv
    <3>3. Insertions(given) \in Seq(QueueItems(Range(message)))
      BY GivenQueued DEF InsertionInv
    <3>4. first \o Insertions(given) \in Seq(QueueItems(Range(message)))
      <4> HIDE DEF QueueItems, first
      <4> QED BY <3>2, <3>3
    <3>5. QED
      <4> HIDE DEF first
      <4> QED BY <3>1, <3>4
  <2>2. CASE View
    BY <1>1, <2>2 DEF View
  <2>3. CASE OwnCopy
    BY <1>1, <2>3 DEF OwnCopy
  <2>4. QED
    BY <2>1, <2>2, <2>3
<1>4. QED
  BY <1>2, <1>3, ConstructKeepsInsertion

LEMMA SetKeepsInsertion ==
  ASSUME InsertionInv, Set \/ SetDefault
  PROVE  InsertionInv'
<1>1. /\ queue = <<>> /\ phase = "insert"
      /\ \E f \in Range(message) : \E v : queue' = <<Insertion(f, v)>>
      /\ UNCHANGED <<phase, message, elem_size, insertion>>
  BY DEF Set, SetDefault, definition
<1>2. queue' \in Seq(QueueItems(Range(message))) /\ queue' # <<>>
  <2>1. PICK f \in Range(message) : \E v : queue' = <<Insertion(f, v)>>
    BY <1>1
  <2>2. PICK v : queue' = <<Insertion(f, v)>>
    BY <2>1
  <2>3. Insertion(f, v) \in QueueItems(Range(message))
    BY InsertionOf DEF InsertionInv
  <2>4. QED
    <3> HIDE DEF QueueItems
    <3> QED BY <2>2, <2>3
<1>3. insertion.left = 0 /\ ~insertion.busy
  BY <1>1 DEF InsertionInv, InsertionStates
<1>4. QED
  BY <1>1, <1>2, <1>3 DEF InsertionInv

LEMMA BeginFieldKeepsInsertion ==
  ASSUME InsertionInv, BeginField
  PROVE  InsertionInv'
<1>1. /\ queue # <<>>
      /\ insertion' = [no_insertion EXCEPT !.left = Len(field.ats), !.raw = Head(queue).value]
      /\ UNCHANGED <<phase, message, elem_size, queue>>
  BY DEF BeginField, definition
<1>2. Len(field.ats) \in Nat \ {0} /\ Head(queue).value \in SUBSET Nat
  BY <1>1, FieldIs DEF QueueItems
<1>3. /\ insertion' \in InsertionStates
      /\ insertion'.left = Len(field.ats) /\ ~insertion'.busy
  BY <1>1, <1>2 DEF InsertionStates, no_insertion
<1>4. phase # "define"
  BY <1>1 DEF InsertionInv
<1>5. field' = field
  BY <1>1 DEF field
<1>6. QED
  BY <1>1, <1>2, <1>3, <1>4, <1>5 DEF InsertionInv

LEMMA BeginLocatorKeepsInsertion ==
  ASSUME InsertionInv, BeginLocator
  PROVE  InsertionInv'
<1>1. /\ queue # <<>> /\ insertion.left > 0
      /\ insertion' = [insertion EXCEPT !.busy = TRUE, !.lsb = locator.lsb,
                         !.value = insertion.raw \cap (0 .. locator.size - 1),
                         !.raw = ShiftedRight(insertion.raw, locator.size)]
      /\ UNCHANGED <<phase, message, elem_size, queue>>
  BY DEF BeginLocator, definition
<1>2. locator.lsb \in Nat /\ locator.size \in Nat \ {0}
  <2>1. field.ats[insertion.left] \in Locations /\ locator = locator_for(field.ats[insertion.left])
    BY <1>1, LocationIs
  <2>2. QED
    BY <2>1, LocatorIs
<1> DEFINE value == insertion.raw \cap (0 .. locator.size - 1)
           raw == ShiftedRight(insertion.raw, locator.size)
<1>3. insertion \in InsertionStates
  BY DEF InsertionInv
<1>4. insertion.raw \in SUBSET Nat
  BY <1>3 DEF InsertionStates
<1>5. value \in SUBSET Nat /\ raw \in SUBSET Nat
  BY <1>2, <1>4 DEF ShiftedRight
<1> HIDE DEF value, raw
<1>6. insertion' = [insertion EXCEPT !.busy = TRUE, !.lsb = locator.lsb, !.value = value, !.raw = raw]
  BY <1>1 DEF value, raw
<1>7. /\ insertion' \in InsertionStates
      /\ insertion'.left = insertion.left /\ insertion'.lsb = locator.lsb /\ insertion'.value = value
  BY <1>2, <1>3, <1>5, <1>6 DEF InsertionStates
<1>8. field' = field /\ locator' = locator
  BY <1>1, <1>7 DEF field, locator
<1>9. WithinLocator(locator)'
  <2>1. locator.lsb \in locator.lsb .. last_bit(locator)
    BY <1>2 DEF last_bit
  <2>2. value \subseteq 0 .. last_bit(locator) - locator.lsb
    <3>1. last_bit(locator) - locator.lsb = locator.size - 1
      BY <1>2 DEF last_bit
    <3>2. QED
      BY <3>1 DEF value
  <2>3. QED
    BY <1>7, <1>8, <2>1, <2>2 DEF WithinLocator, last_bit
<1>10. phase # "define"
  BY <1>1 DEF InsertionInv
<1>11. QED
  BY <1>1, <1>7, <1>8, <1>9, <1>10 DEF InsertionInv

LEMMA InsertLastKeepsInsertion ==
  ASSUME InsertionInv, InsertLast
  PROVE  InsertionInv'
<1>1. /\ insertion.busy
      /\ insertion' = IF insertion.left = 1 THEN no_insertion ELSE AfterLocator
      /\ queue' = IF insertion.left = 1 THEN Tail(queue) ELSE queue
      /\ UNCHANGED <<phase, message, elem_size>>
  BY DEF InsertLast, definition
<1>2. insertion.left > 0 /\ insertion \in InsertionStates /\ queue # <<>> /\ insertion.left <= Len(field.ats)
  BY <1>1 DEF InsertionInv
<1>3. phase # "define"
  BY <1>2 DEF InsertionInv
<1>4. CASE insertion.left = 1
  <2>1. queue' = Tail(queue) /\ insertion' = no_insertion
    BY <1>1, <1>4
  <2>2. queue' \in Seq(QueueItems(Range(message)))
    BY <1>2, <2>1, FieldIs
  <2>3. QED
    BY <1>1, <1>3, <2>1, <2>2 DEF InsertionInv, InsertionStates, no_insertion
<1>5. CASE insertion.left # 1
  <2>1. queue' = queue /\ insertion' = AfterLocator
    BY <1>1, <1>5
  <2>2. /\ insertion' \in InsertionStates
        /\ insertion'.left = insertion.left - 1 /\ ~insertion'.busy
    <3>1. insertion.left - 1 \in Nat
      BY <1>2, <1>5 DEF InsertionStates
    <3>2. insertion' = [insertion EXCEPT !.busy = FALSE, !.left = insertion.left - 1, !.value = {}, !.lsb = 0]
      BY <2>1 DEF AfterLocator
    <3>3. QED
      BY <1>2, <3>1, <3>2 DEF InsertionStates
  <2>3. field' = field
    BY <2>1 DEF field
  <2>4. insertion'.left <= Len(field.ats)
    <3>1. insertion.left \in Nat /\ Len(field.ats) \in Nat
      BY <1>2, FieldIs DEF InsertionStates
    <3>2. QED
      BY <1>2, <2>2, <3>1
  <2>5. QED
    BY <1>1, <1>2, <1>3, <2>1, <2>2, <2>3, <2>4 DEF InsertionInv
<1>6. QED
  BY <1>4, <1>5

LEMMA InsertPartKeepsInsertion ==
  ASSUME InsertionInv, InsertFirst \/ InsertBetween
  PROVE  /\ InsertionInv'
         /\ InsertPart(elem_size - lsb_in_element)
         /\ insertion.busy /\ current_idx # max_idx(locator, elem_size)
<1>1. insertion.busy /\ current_idx # max_idx(locator, elem_size)
  BY DEF InsertFirst, InsertBetween
<1> DEFINE numbits == elem_size - lsb_in_element
<1>2. /\ lsb_in_element \in 0 .. elem_size - 1 /\ elem_size \in Nat
      /\ insertion.lsb \in Nat /\ last_bit(locator) \in Nat
      /\ locator.lsb \in Nat /\ locator.lsb <= insertion.lsb
      /\ insertion.lsb + numbits <= last_bit(locator)
      /\ (insertion.lsb + numbits) % elem_size = 0
  BY <1>1, PartOfLocation
<1>3. InsertPart(numbits)
  <2>1. CASE InsertFirst
    BY <2>1 DEF InsertFirst
  <2>2. CASE InsertBetween
    <3>1. current_idx # min_idx(locator, elem_size)
      BY <2>2 DEF InsertBetween
    <3>2. insertion.lsb # locator.lsb
      BY <3>1 DEF current_idx, min_idx
    <3>3. insertion.lsb % elem_size = 0
      BY <1>1, <3>2 DEF InsertionInv, WithinLocator
    <3>4. numbits = elem_size
      BY <1>2, <3>3 DEF lsb_in_element
    <3>5. QED
      BY <2>2, <3>4 DEF InsertBetween
  <2>3. QED
    BY <2>1, <2>2
<1> HIDE DEF numbits
<1>4. /\ insertion' = [insertion EXCEPT !.lsb = insertion.lsb + numbits,
                                        !.value = ShiftedRight(insertion.value, numbits)]
      /\ UNCHANGED <<phase, message, elem_size, queue>>
  BY <1>3 DEF InsertPart, definition
<1>5. numbits \in Nat
  BY <1>2 DEF numbits
<1>6. /\ insertion \in InsertionStates /\ insertion.left > 0
      /\ insertion.value \subseteq 0 .. last_bit(locator) - insertion.lsb
  BY <1>1 DEF InsertionInv, WithinLocator
<1>7. insertion.value \in SUBSET Nat
  BY <1>6 DEF InsertionStates
<1>8. /\ ShiftedRight(insertion.value, numbits) \in SUBSET Nat
      /\ ShiftedRight(insertion.value, numbits) \subseteq 0 .. last_bit(locator) - (insertion.lsb + numbits)
  <2> SUFFICES ASSUME NEW b \in insertion.value, b >= numbits
               PROVE  b - numbits \in Nat /\ b - numbits \in 0 .. last_bit(locator) - (insertion.lsb + numbits)
    BY DEF ShiftedRight
  <2>1. b \in Nat /\ b <= last_bit(locator) - insertion.lsb
    BY <1>2, <1>6, <1>7
  <2>2. QED
    BY <1>2, <1>5, <2>1
<1>9. /\ insertion' \in InsertionStates /\ insertion'.left = insertion.left /\ insertion'.busy
      /\ insertion'.lsb = insertion.lsb + numbits
      /\ insertion'.value = ShiftedRight(insertion.value, numbits)
  <2>1. insertion.lsb + numbits \in Nat
    BY <1>2, <1>5
  <2>2. QED
    BY <1>1, <1>4, <1>6, <1>8, <2>1 DEF InsertionStates
<1>10. field' = field /\ locator' = locator
  BY <1>4, <1>9 DEF field, locator
<1>11. WithinLocator(locator)'
  <2>1. insertion.lsb + numbits \in locator.lsb .. last_bit(locator)
    BY <1>2, <1>5
  <2>2. QED
    BY <1>2, <1>4, <1>8, <1>9, <1>10, <2>1 DEF WithinLocator, last_bit
<1>12. InsertionInv'
  BY <1>4, <1>6, <1>9, <1>10, <1>11 DEF InsertionInv
<1>13. QED
  BY <1>1, <1>3, <1>12 DEF numbits

StorageInv == DefinitionInv /\ InsertionInv

LEMMA StorageStep == StorageInv /\ [StorageNext]_storage_vars => StorageInv'
<1> SUFFICES ASSUME DefinitionInv, InsertionInv, [StorageNext]_storage_vars
             PROVE  DefinitionInv' /\ InsertionInv'
  BY DEF StorageInv
<1>1. CASE Extend \/ Pack \/ Overlay \/ Relax \/ Rename
  <2>1. DefinitionInv'
    BY <1>1, ExtendKeepsApart, PackStepKeepsApart, OverlayKeepsApart, RelaxKeepsApart, RenameKeepsApart
  <2>2. \E fields : Define(fields)
    BY <1>1 DEF Extend, Pack, Overlay, Relax, Rename
  <2>3. QED
    BY <2>1, <2>2, DefineKeepsInsertion
<1>2. CASE Own \/ View \/ OwnCopy
  <2>1. UNCHANGED definition
    BY <1>2 DEF Own, View, OwnCopy, Construct
  <2>2. QED
    BY <1>2, <2>1, DefinitionUnchanged, ConstructionKeepsInsertion
<1>3. CASE Set \/ SetDefault
  <2>1. UNCHANGED definition
    BY <1>3 DEF Set, SetDefault
  <2>2. QED
    BY <1>3, <2>1, DefinitionUnchanged, SetKeepsInsertion
<1>4. CASE BeginField
  <2>1. UNCHANGED definition
    BY <1>4 DEF BeginField
  <2>2. QED
    BY <1>4, <2>1, DefinitionUnchanged, BeginFieldKeepsInsertion
<1>5. CASE BeginLocator
  <2>1. UNCHANGED definition
    BY <1>5 DEF BeginLocator
  <2>2. QED
    BY <1>5, <2>1, DefinitionUnchanged, BeginLocatorKeepsInsertion
<1>6. CASE InsertLast
  <2>1. UNCHANGED definition
    BY <1>6 DEF InsertLast
  <2>2. QED
    BY <1>6, <2>1, DefinitionUnchanged, InsertLastKeepsInsertion
<1>7. CASE InsertFirst \/ InsertBetween
  <2>1. UNCHANGED definition
    BY <1>7 DEF InsertFirst, InsertBetween, InsertPart
  <2>2. QED
    BY <1>7, <2>1, DefinitionUnchanged, InsertPartKeepsInsertion
<1>8. CASE UNCHANGED storage_vars
  <2>1. UNCHANGED <<phase, message, definition, elem_size, queue, insertion>>
    BY <1>8 DEF storage_vars, definition
  <2>2. InsertionInv'
    BY <2>1 DEF InsertionInv, WithinLocator, locator, field
  <2>3. QED
    BY <2>1, <2>2, DefinitionUnchanged
<1>9. QED
  BY <1>1, <1>2, <1>3, <1>4, <1>5, <1>6, <1>7, <1>8 DEF StorageNext

LEMMA StorageInvAlways == StorageSpec => []StorageInv
<1>1. StorageInit => StorageInv
  BY DefinitionInit, InsertionInit DEF StorageInv
<1>2. QED
  BY <1>1, StorageStep, PTL DEF StorageSpec

(* However messages are extended, packed, overlaid, relaxed and renamed,    *)
(* and in whatever order: fields that were packed side by side, or that the *)
(* library placed, share no bit (pack, relaxed_message).                    *)
THEOREM PackedStaysApart == StorageSpec => []PackedApart
<1>1. StorageInv => PackedApart
  BY DEF StorageInv, DefinitionInv
<1>2. QED
  BY <1>1, StorageInvAlways, PTL

\* What the steps of an insertion change.
LEMMA InsertLastChanges ==
  ASSUME InsertionInv, InsertLast, NEW e \in DOMAIN storage, NEW b \in 0 .. elem_size - 1,
         (b \in storage[e]) # (b \in storage'[e])
  PROVE  e * elem_size + b \in located_bits(field)
<1> DEFINE shifted == Cut(ShiftedLeft(insertion.value, lsb_in_element))
           kept == leftover(storage[current_idx], msb_in_element, lsb_in_element)
<1>1. /\ insertion.busy /\ current_idx = max_idx(locator, elem_size)
      /\ storage' = [storage EXCEPT ![current_idx] = kept \cup shifted]
  BY DEF InsertLast
<1>2. /\ lsb_in_element \in 0 .. elem_size - 1 /\ elem_size \in Nat
      /\ insertion.lsb \in Nat /\ last_bit(locator) \in Nat
      /\ msb_in_element - lsb_in_element = last_bit(locator) - insertion.lsb
      /\ \A x \in lsb_in_element .. msb_in_element : current_idx * elem_size + x \in located_bits(field)
  BY <1>1, PartOfLocation
<1>3. e = current_idx
  <2> HIDE DEF kept, shifted
  <2> QED BY <1>1
<1>4. b \in storage'[e] <=> b \in kept \/ b \in shifted
  <2> HIDE DEF kept, shifted
  <2> QED BY <1>1, <1>3
<1>5. b \in lsb_in_element .. msb_in_element \/ b \in shifted
  <2>1. b \in kept <=> b \in storage[e] /\ b \notin lsb_in_element .. msb_in_element
    BY <1>3 DEF leftover
  <2> HIDE DEF kept, shifted
  <2>2. QED
    BY <1>4, <2>1
<1>6. ASSUME b \in shifted PROVE b \in lsb_in_element .. msb_in_element
  <2>1. PICK c \in insertion.value : b = c + lsb_in_element
    BY <1>6 DEF Cut, ShiftedLeft
  <2>2. c \in 0 .. last_bit(locator) - insertion.lsb
    BY <1>1 DEF InsertionInv, WithinLocator
  <2>3. msb_in_element \in Int
    <3>1. elem_size \in WholeElements
      BY DEF InsertionInv
    <3>2. msb_in_element = last_bit(locator) % elem_size
      BY DEF msb_in_element, last_bit
    <3>3. QED
      BY <1>2, <3>1, <3>2 DEF WholeElements
  <2>4. QED
    BY <1>2, <2>1, <2>2, <2>3
<1>7. QED
  BY <1>2, <1>3, <1>5, <1>6

LEMMA InsertPartChanges ==
  ASSUME InsertionInv, InsertFirst \/ InsertBetween, NEW e \in DOMAIN storage, NEW b \in 0 .. elem_size - 1,
         (b \in storage[e]) # (b \in storage'[e])
  PROVE  e * elem_size + b \in located_bits(field)
<1> DEFINE numbits == elem_size - lsb_in_element
           part == ShiftedLeft(value_part(insertion.value, numbits), elem_size - numbits)
           kept == leftover(storage[current_idx], elem_size - 1, elem_size - numbits)
<1>1. /\ insertion.busy /\ current_idx # max_idx(locator, elem_size)
      /\ storage' = [storage EXCEPT ![current_idx] = kept \cup part]
  BY InsertPartKeepsInsertion DEF InsertPart
<1>2. /\ lsb_in_element \in 0 .. elem_size - 1 /\ elem_size \in Nat
      /\ \A x \in lsb_in_element .. elem_size - 1 : current_idx * elem_size + x \in located_bits(field)
  BY <1>1, PartOfLocation
<1>3. elem_size - numbits = lsb_in_element
  BY <1>2
<1>4. e = current_idx
  <2> HIDE DEF kept, part
  <2> QED BY <1>1
<1>5. b \in storage'[e] <=> b \in kept \/ b \in part
  <2> HIDE DEF kept, part
  <2> QED BY <1>1, <1>4
<1>6. b \in kept <=> b \in storage[e] /\ b \notin lsb_in_element .. elem_size - 1
  BY <1>3, <1>4 DEF leftover
<1>7. ASSUME b \in part PROVE b \in lsb_in_element .. elem_size - 1
  <2>1. PICK c \in value_part(insertion.value, numbits) : b = c + lsb_in_element
    BY <1>3, <1>7 DEF ShiftedLeft
  <2>2. c \in 0 .. numbits - 1
    BY <2>1 DEF value_part
  <2>3. QED
    BY <1>2, <2>1, <2>2
<1>8. b \in lsb_in_element .. elem_size - 1
  <2> HIDE DEF kept, part
  <2> QED BY <1>5, <1>6, <1>7
<1>9. QED
  BY <1>2, <1>4, <1>8

OtherBitsStep ==
  phase = "insert" /\ queue # <<>> =>
    \A e \in DOMAIN storage : \A b \in 0 .. elem_size - 1 :
      (b \in storage[e]) # (b \in storage'[e]) => e * elem_size + b \in located_bits(field)

(* field_t::insert: whatever the locations of a field are, and whatever     *)
(* elements they cross, writing it changes none but its own bits.           *)
THEOREM OtherBitsAlwaysKept == StorageSpec => OtherBitsKept
<1>1. StorageInv /\ [StorageNext]_storage_vars => [OtherBitsStep]_storage_vars
  <2> SUFFICES ASSUME InsertionInv, StorageNext, phase = "insert", queue # <<>>,
                      NEW e \in DOMAIN storage, NEW b \in 0 .. elem_size - 1,
                      (b \in storage[e]) # (b \in storage'[e])
               PROVE  e * elem_size + b \in located_bits(field)
    BY DEF StorageInv, OtherBitsStep
  <2>1. storage' # storage
    OBVIOUS
  <2>2. CASE InsertLast
    BY <2>2, InsertLastChanges
  <2>3. CASE InsertFirst \/ InsertBetween
    BY <2>3, InsertPartChanges
  <2>4. CASE Extend \/ Pack \/ Overlay \/ Relax \/ Rename
    BY <2>4 DEF Extend, Pack, Overlay, Relax, Rename, Define
  <2>5. CASE Own \/ View \/ OwnCopy
    BY <2>5 DEF Own, View, OwnCopy, Construct
  <2>6. CASE Set \/ SetDefault \/ BeginField \/ BeginLocator
    BY <2>1, <2>6 DEF Set, SetDefault, BeginField, BeginLocator
  <2>7. QED
    BY <2>2, <2>3, <2>4, <2>5, <2>6 DEF StorageNext
<1>2. [][OtherBitsStep]_storage_vars => OtherBitsKept
  BY DEF OtherBitsKept, OtherBitsStep
<1>3. QED
  BY <1>1, <1>2, StorageInvAlways, PTL DEF StorageSpec

\* The storage has the elements that the message takes.
RoomInv ==
  phase = "insert" => \A e \in 0 .. storage_size(message, elem_size) - 1 : e \in DOMAIN storage

LEMMA RoomStep ==
  ASSUME Spare \subseteq Nat
  PROVE  StorageInv /\ RoomInv /\ [StorageNext]_storage_vars => RoomInv'
<1> SUFFICES ASSUME InsertionInv, RoomInv, [StorageNext]_storage_vars
             PROVE  RoomInv'
  BY DEF StorageInv
<1>1. CASE Extend \/ Pack \/ Overlay \/ Relax \/ Rename
  <2>1. phase' = "define"
    BY <1>1 DEF Extend, Pack, Overlay, Relax, Rename, Define
  <2>2. QED
    BY <2>1 DEF RoomInv
<1>2. CASE Own \/ View \/ OwnCopy
  <2>1. PICK n \in Sizes : DOMAIN storage' = 0 .. n - 1
    <3>1. CASE Own
      BY <3>1 DEF Own, Construct
    <3>2. CASE View
      BY <3>2 DEF View, Construct
    <3>3. CASE OwnCopy
      BY <3>3 DEF OwnCopy, Construct
    <3>4. QED
      BY <1>2, <3>1, <3>2, <3>3
  <2>2. UNCHANGED <<message, elem_size>>
    BY <1>2 DEF Own, View, OwnCopy, Construct, definition
  <2>3. storage_size(message, elem_size) \in Nat
    BY StorageSizeIs DEF InsertionInv
  <2>4. n \in Nat /\ storage_size(message, elem_size) <= n
    BY <2>3 DEF Sizes
  <2>5. \A e \in 0 .. storage_size(message, elem_size) - 1 : e \in DOMAIN storage'
    BY <2>1, <2>3, <2>4
  <2>6. QED
    BY <2>2, <2>5 DEF RoomInv
<1>3. CASE UNCHANGED <<phase, message, elem_size>> /\ DOMAIN storage' = DOMAIN storage
  BY <1>3 DEF RoomInv
<1>4. CASE Set \/ SetDefault \/ BeginField \/ BeginLocator
  <2>1. UNCHANGED <<phase, message, elem_size, storage>>
    BY <1>4 DEF Set, SetDefault, BeginField, BeginLocator, definition
  <2>2. QED
    BY <1>3, <2>1
<1>5. CASE InsertLast \/ InsertFirst \/ InsertBetween
  <2>1. UNCHANGED <<phase, message, elem_size>> /\ DOMAIN storage' = DOMAIN storage
    BY <1>5 DEF InsertLast, InsertFirst, InsertBetween, InsertPart, definition
  <2>2. QED
    BY <1>3, <2>1
<1>6. CASE UNCHANGED storage_vars
  <2>1. UNCHANGED <<phase, message, elem_size, storage>>
    BY <1>6 DEF storage_vars, definition
  <2>2. QED
    BY <1>3, <2>1
<1>7. QED
  BY <1>1, <1>2, <1>4, <1>5, <1>6 DEF StorageNext

\* An element that is written is one of the storage.
LEMMA IndexInStorage ==
  ASSUME InsertionInv, RoomInv, insertion.busy
  PROVE  current_idx \in DOMAIN storage
<1> DEFINE a == field.ats[insertion.left]
           size == storage_size(message, elem_size)
<1>1. insertion.left > 0 /\ elem_size \in WholeElements /\ Listed(message)
  BY DEF InsertionInv
<1>2. /\ queue # <<>> /\ insertion.left \in 1 .. Len(field.ats)
      /\ a \in Locations /\ locator = locator_for(a)
  BY <1>1, LocationIs
<1>3. phase = "insert"
  BY <1>2 DEF InsertionInv
<1>4. field \in Range(message) /\ a \in Range(field.ats)
  BY <1>2, FieldIs, LocatedIs DEF Range
<1>5. insertion.lsb \in locator.lsb .. locator.lsb + locator.size - 1
  BY DEF InsertionInv, WithinLocator, last_bit
<1> HIDE DEF a
<1>6. current_idx \in 0 .. extent(locator, elem_size) - 1 /\ extent(locator, elem_size) \in Nat
  BY <1>1, <1>2, <1>5, ExtentCovers DEF current_idx
<1>7. size \in Nat /\ extent(locator, elem_size) <= size
  BY <1>1, <1>2, <1>4, StorageSizeIs
<1>8. current_idx \in 0 .. size - 1
  <2> HIDE DEF size
  <2> QED BY <1>6, <1>7
<1>9. QED
  BY <1>3, <1>8 DEF RoomInv

(* field_t::insert writes to elements of the storage only, if the storage   *)
(* has at least the elements that storage_size takes for the message.       *)
THEOREM WritesAlwaysInStorage ==
  ASSUME Spare \subseteq Nat
  PROVE  StorageSpec => []WritesInStorage
<1>1. StorageInit => RoomInv
  BY DEF StorageInit, RoomInv
<1>2. StorageInv /\ RoomInv /\ [StorageNext]_storage_vars => RoomInv'
  BY RoomStep
<1>3. StorageInv /\ RoomInv => WritesInStorage
  BY IndexInStorage DEF StorageInv, WritesInStorage
<1>4. QED
  BY <1>1, <1>2, <1>3, StorageInvAlways, PTL DEF StorageSpec

----------------------------------------------------------------------------
(***************************************************************************)
(* What fields read as.  The layout of a message keeps one field of each   *)
(* name and no bit twice in a field; the steps of an insertion put the bits *)
(* of the value in their places, location by location; and extract reads   *)
(* bit by bit.                                                             *)
(***************************************************************************)
LEMMA ShiftedStaysApart ==
  ASSUME NEW f \in LocatedFields, LocationsApart(f), NEW n \in Nat
  PROVE  LocationsApart(shifted_by(f, n))
<1> DEFINE ats == [k \in DOMAIN f.ats |-> [msb |-> f.ats[k].msb + n, lsb |-> f.ats[k].lsb + n]]
<1>1. f \in DefinedFields
  BY DEF LocatedFields
<1>2. shifted_by(f, n).ats = ats
  <2> HIDE DEF ats, Locations, Names
  <2>1. shifted_by(f, n) = [f EXCEPT !.ats = ats]
    BY DEF shifted_by, ats
  <2>2. QED
    BY <1>1, <2>1 DEF DefinedFields, FieldsNamed
<1>3. DOMAIN ats = DOMAIN f.ats
  OBVIOUS
<1>4. ASSUME NEW i \in DOMAIN f.ats, NEW j \in DOMAIN f.ats, i # j
      PROVE  ats[i].msb < ats[j].lsb \/ ats[j].msb < ats[i].lsb
  <2>1. /\ f.ats[i].lsb \in Nat /\ f.ats[i].msb \in Nat
        /\ f.ats[j].lsb \in Nat /\ f.ats[j].msb \in Nat
    BY LocatedIs
  <2>2. /\ ats[i].msb = f.ats[i].msb + n /\ ats[i].lsb = f.ats[i].lsb + n
        /\ ats[j].msb = f.ats[j].msb + n /\ ats[j].lsb = f.ats[j].lsb + n
    OBVIOUS
  <2>3. f.ats[i].msb < f.ats[j].lsb \/ f.ats[j].msb < f.ats[i].lsb
    BY <1>4 DEF LocationsApart
  <2> HIDE DEF ats
  <2>4. QED
    BY <2>1, <2>2, <2>3
<1>5. QED
  <2> HIDE DEF ats
  <2> QED BY <1>2, <1>3, <1>4 DEF LocationsApart

LEMMA DefaultIsApart ==
  ASSUME NEW f \in DefinedFields
  PROVE  LocationsApart(default_located(f))
<1> DEFINE ats == <<[msb |-> f.type - 1, lsb |-> 0]>>
<1>1. default_located(f).ats = ats
  <2> HIDE DEF ats, Locations, Names
  <2>1. default_located(f) = [f EXCEPT !.ats = ats]
    BY DEF default_located, ats
  <2>2. QED
    BY <2>1 DEF DefinedFields, FieldsNamed
<1>2. \A i, j \in DOMAIN ats : i = j
  OBVIOUS
<1>3. QED
  <2> HIDE DEF ats
  <2> QED BY <1>1, <1>2 DEF LocationsApart

\* One field of each name, none with a bit twice.
LayoutInv == OnePerName(message) /\ FieldsApart(message)

LEMMA LayoutInit ==
  ASSUME NoBitTwice, StorageInit
  PROVE  LayoutInv
<1>1. PICK m \in Definitions : message = unique_by_name(m)
  BY DEF StorageInit
<1>2. FieldsApart(m)
  BY DEF NoBitTwice
<1>3. OnePerName(message) /\ Range(message) \subseteq Range(m)
  BY <1>1, GivenLists, UniqueByName
<1>4. QED
  BY <1>2, <1>3 DEF LayoutInv, FieldsApart

LEMMA LayoutStep ==
  ASSUME NoBitTwice, DefinitionInv, LayoutInv, [StorageNext]_storage_vars
  PROVE  LayoutInv'
<1>0. Listed(message) /\ FieldsApart(message)
  BY DEF DefinitionInv, LayoutInv
<1>1. CASE Extend
  <2>1. PICK fields \in Extensions : message' = extension(message, fields)
    BY <1>1 DEF Extend, Define
  <2>2. FieldsApart(fields) /\ Listed(fields)
    BY GivenLists DEF NoBitTwice
  <2>3. OnePerName(message') /\ Range(message') \subseteq Range(fields) \cup Range(message)
    BY <1>0, <2>1, <2>2, ExtensionIs
  <2>4. QED
    BY <1>0, <2>2, <2>3 DEF LayoutInv, FieldsApart
<1>2. CASE Pack
  <2>1. PICK m \in Definitions : \E align \in Alignments : message' = pack(align, <<message, unique_by_name(m)>>)
    BY <1>2 DEF Pack, Define
  <2>2. PICK align \in Alignments : message' = pack(align, <<message, unique_by_name(m)>>)
    BY <2>1
  <2> DEFINE u == unique_by_name(m)
             ms == <<message, u>>
             start == [i \in 1 .. Len(ms) |-> msg_offsets(align, ms)[i] * align]
  <2>3. Listed(u) /\ Range(u) \subseteq Range(m) /\ align \in WholeElements
    BY GivenLists, UniqueByName
  <2>4. FieldsApart(u)
    <3>1. FieldsApart(m)
      BY DEF NoBitTwice
    <3> HIDE DEF u
    <3> QED BY <2>3, <3>1 DEF FieldsApart
  <2>5. message' = pack(align, ms)
    BY <2>2
  <2> HIDE DEF u
  <2>6. ms \in Seq(Seq(LocatedFields)) /\ Len(ms) = 2 /\ ms[1] = message /\ ms[2] = u
    BY <1>0, <2>3, TwoMessages
  <2> HIDE DEF ms
  <2>7. /\ OnePerName(message')
        /\ \A i \in 1 .. Len(ms) : start[i] \in Nat
        /\ \A g \in Range(message') : \E i \in 1 .. Len(ms) : \E f \in Range(ms[i]) : g = shifted_by(f, start[i])
    <3>1. Len(ms) > 0
      BY <2>6
    <3>2. QED
      BY <2>3, <2>5, <2>6, <3>1, PackIs
  <2> HIDE DEF start
  <2>8. ASSUME NEW g \in Range(message') PROVE LocationsApart(g)
    <3>1. PICK i \in 1 .. Len(ms) : \E f \in Range(ms[i]) : g = shifted_by(f, start[i])
      BY <2>7
    <3>2. PICK f \in Range(ms[i]) : g = shifted_by(f, start[i])
      BY <3>1
    <3>3. i \in {1, 2} /\ (ms[i] = message \/ ms[i] = u)
      BY <2>6
    <3>4. f \in LocatedFields /\ LocationsApart(f)
      BY <1>0, <2>3, <2>4, <3>3, ListedItems DEF FieldsApart
    <3>5. QED
      BY <2>7, <3>2, <3>4, ShiftedStaysApart
  <2>9. QED
    BY <2>7, <2>8 DEF LayoutInv, FieldsApart
<1>3. CASE Overlay
  <2>1. PICK m \in Definitions : message' = overlay(<<message, m>>)
    BY <1>3 DEF Overlay, Define
  <2>2. FieldsApart(m) /\ Listed(m)
    BY GivenLists DEF NoBitTwice
  <2>3. OnePerName(message') /\ Range(message') \subseteq Range(message) \cup Range(m)
    BY <1>0, <2>1, <2>2, OverlayIs
  <2>4. QED
    BY <1>0, <2>2, <2>3 DEF LayoutInv, FieldsApart
<1>4. CASE Relax
  <2>1. PICK fields \in Unlocated : message' = relaxed_message(fields \o message)
    BY <1>4 DEF Relax, Define
  <2> DEFINE all == fields \o message
  <2>2. /\ message \in Seq(DefinedFields) /\ fields \in Seq(DefinedFields) /\ FieldsApart(fields)
    BY <1>0, GivenLists, ListedItems DEF NoBitTwice
  <2>3. all \in Seq(DefinedFields) /\ Range(all) = Range(fields) \cup Range(message)
    <3> HIDE DEF DefinedFields
    <3> QED BY <2>2, ConcatRange
  <2> HIDE DEF all
  <2>4. /\ OnePerName(message')
        /\ \A f \in Range(message') : \E f0 \in Range(all), n \in Nat :
             f = shifted_by(IF is_locatable(f0) THEN f0 ELSE default_located(f0), n)
    BY <2>1, <2>3, RelaxIs DEF all
  <2>5. ASSUME NEW f \in Range(message') PROVE LocationsApart(f)
    <3>1. PICK f0 \in Range(all), n \in Nat : f = shifted_by(IF is_locatable(f0) THEN f0 ELSE default_located(f0), n)
      BY <2>4
    <3>2. f0 \in DefinedFields /\ LocationsApart(f0)
      <4>1. f0 \in DefinedFields
        <5> HIDE DEF DefinedFields
        <5> QED BY <2>3 DEF Range
      <4>2. QED
        BY <1>0, <2>2, <2>3, <4>1 DEF FieldsApart
    <3>3. CASE is_locatable(f0)
      <4>1. f0 \in LocatedFields
        BY <3>2, <3>3 DEF LocatedFields
      <4>2. QED
        BY <3>1, <3>2, <3>3, <4>1, ShiftedStaysApart
    <3>4. CASE ~is_locatable(f0)
      <4>1. default_located(f0) \in LocatedFields /\ LocationsApart(default_located(f0))
        BY <3>2, DefaultLocated, DefaultIsApart
      <4>2. QED
        BY <3>1, <3>4, <4>1, ShiftedStaysApart
    <3>5. QED
      BY <3>3, <3>4
  <2>6. QED
    BY <2>4, <2>5 DEF LayoutInv, FieldsApart
<1>5. CASE Rename
  <2>1. PICK r \in Renames : r.old \in names_of(message) /\ message' = rename_field(message, r.old, r.new)
    BY <1>5 DEF Rename, Define
  <2>2. r.new \in Names
    <3>1. r.new \in {q.new : q \in Renames}
      OBVIOUS
    <3>2. QED
      BY <3>1, Zenon DEF Names
  <2>3. OnePerName(message') /\ \A f \in Range(message') : \E g \in Range(message) : f.ats = g.ats
    BY <1>0, <2>1, <2>2, RenameIs
  <2>4. QED
    BY <1>0, <2>3 DEF LayoutInv, FieldsApart, LocationsApart
<1>6. CASE UNCHANGED message
  BY <1>6 DEF LayoutInv, FieldsApart, OnePerName
<1>7. CASE Own \/ View \/ OwnCopy \/ Set \/ SetDefault
  BY <1>6, <1>7 DEF Own, View, OwnCopy, Construct, Set, SetDefault, definition
<1>8. CASE BeginField \/ BeginLocator \/ InsertLast \/ InsertFirst \/ InsertBetween
  BY <1>6, <1>8 DEF BeginField, BeginLocator, InsertLast, InsertFirst, InsertBetween, InsertPart, definition
<1>9. QED
  BY <1>1, <1>2, <1>3, <1>4, <1>5, <1>6, <1>7, <1>8 DEF StorageNext, storage_vars, definition

LEMMA SizesIs ==
  ASSUME NEW ats \in Seq(Locations)
  PROVE  LET size == sizes_to(ats) IN
         size = [k \in 0 .. Len(ats) |-> IF k = 0 THEN 0 ELSE size[k - 1] + at_size(ats[k])]
<1> DEFINE n == Len(ats)
           value == [k \in 0 .. n |-> [g \in [Preceding(n)[k] -> Int] |->
                       IF k = 0 THEN 0 ELSE g[k - 1] + at_size(ats[k])]]
<1>1. n \in Nat /\ DOMAIN ats = 1 .. n /\ \A k \in 1 .. n : ats[k] \in Locations
  <2> HIDE DEF Locations
  <2> QED OBVIOUS
<1>2. \A k \in 1 .. n : at_size(ats[k]) \in Int
  BY <1>1 DEF Locations, at_size
<1>3. Valued(0 .. n, Preceding(n), Int, value)
  <2>1. ASSUME NEW k \in 0 .. n, NEW g \in [Preceding(n)[k] -> Int]
        PROVE  value[k][g] \in Int
    <3>1. value[k][g] = IF k = 0 THEN 0 ELSE g[k - 1] + at_size(ats[k])
      OBVIOUS
    <3>2. CASE k = 0
      BY <3>1, <3>2
    <3>3. CASE k # 0
      <4>1. g[k - 1] \in Int /\ k \in 1 .. n
        BY <1>1, <3>3 DEF Preceding
      <4>2. value[k][g] = g[k - 1] + at_size(ats[k])
        BY <3>1, <3>3
      <4>3. at_size(ats[k]) \in Int
        BY <1>2, <4>1
      <4> HIDE DEF value
      <4>4. QED
        BY <4>1, <4>2, <4>3
    <3>4. QED
      BY <3>2, <3>3
  <2>2. QED
    <3> HIDE DEF value
    <3> QED BY <2>1 DEF Valued
<1>4. PICK f \in [0 .. n -> Int] : \A k \in 0 .. n : FollowsAt(f, Preceding(n), value, k)
  <2> HIDE DEF value
  <2>1. Parted(0 .. n, [k \in 0 .. n |-> k], Preceding(n))
    BY <1>1, FromZeroParted
  <2>2. QED
    BY <1>3, <2>1, RecursionExists
<1>5. ASSUME NEW k \in 0 .. n
      PROVE  f[k] = IF k = 0 THEN 0 ELSE f[k - 1] + at_size(ats[k])
  <2> DEFINE g == [c \in Preceding(n)[k] |-> f[c]]
  <2>1. g \in [Preceding(n)[k] -> Int]
    BY <1>1 DEF Preceding
  <2>2. f[k] = value[k][g]
    <3> HIDE DEF value
    <3> QED BY <1>4 DEF FollowsAt
  <2>3. f[k] = IF k = 0 THEN 0 ELSE g[k - 1] + at_size(ats[k])
    <3> HIDE DEF g
    <3> QED BY <2>1, <2>2
  <2>4. k # 0 => g[k - 1] = f[k - 1]
    BY DEF Preceding
  <2>5. QED
    <3> HIDE DEF g
    <3> QED BY <2>3, <2>4
<1>6. f = [k \in 0 .. n |-> IF k = 0 THEN 0 ELSE f[k - 1] + at_size(ats[k])]
  <2> HIDE DEF value
  <2> QED BY <1>5
<1>7. QED
  <2> HIDE DEF value
  <2> QED BY <1>6 DEF sizes_to

LEMMA SizesGrow ==
  ASSUME NEW ats \in Seq(Locations)
  PROVE  LET size == sizes_to(ats) IN
         /\ Len(ats) \in Nat /\ size[0] = 0
         /\ \A k \in 0 .. Len(ats) : size[k] \in Nat
         /\ \A k \in 1 .. Len(ats) : size[k] = size[k - 1] + at_size(ats[k]) /\ at_size(ats[k]) \in Nat \ {0}
         /\ \A i, j \in 0 .. Len(ats) : i <= j => size[i] <= size[j]
<1> DEFINE n == Len(ats)
           size == sizes_to(ats)
<1>1. n \in Nat /\ \A k \in 1 .. n : ats[k] \in Locations
  <2> HIDE DEF Locations
  <2> QED OBVIOUS
<1>2. \A k \in 1 .. n : at_size(ats[k]) \in Nat \ {0}
  BY <1>1 DEF Locations, at_size
<1>3. size[0] = 0 /\ \A k \in 1 .. n : size[k] = size[k - 1] + at_size(ats[k])
  <2>1. \A k \in 0 .. n : size[k] = IF k = 0 THEN 0 ELSE size[k - 1] + at_size(ats[k])
    BY SizesIs
  <2> HIDE DEF size
  <2>2. QED
    BY <1>1, <2>1
<1> HIDE DEF size
<1> DEFINE Good(j) == size[j] \in Nat /\ \A i \in 0 .. j : size[i] <= size[j]
           T == {j \in 0 .. n : ~Good(j)}
<1>4. T = {}
  <2> SUFFICES ASSUME T # {} PROVE FALSE
    OBVIOUS
  <2>1. T \in SUBSET Nat
    BY <1>1
  <2>2. PICK j \in T : \A i \in T : j <= i
    <3> HIDE DEF T
    <3> QED BY <2>1, LeastOf
  <2>3. j \in 0 .. n /\ ~Good(j)
    OBVIOUS
  <2>4. j # 0
    <3>1. Good(0)
      BY <1>3
    <3> HIDE DEF Good
    <3>2. QED
      BY <2>3, <3>1
  <2>5. j \in 1 .. n /\ j - 1 \in 0 .. n /\ ~(j <= j - 1)
    BY <1>1, <2>3, <2>4
  <2>6. Good(j - 1)
    <3>1. j - 1 \notin T
      BY <2>2, <2>5
    <3> HIDE DEF Good
    <3>2. QED
      BY <2>5, <3>1
  <2>7. size[j] = size[j - 1] + at_size(ats[j]) /\ at_size(ats[j]) \in Nat
    BY <1>2, <1>3, <2>5
  <2>8. ASSUME NEW i \in 0 .. j PROVE size[i] <= size[j]
    <3>1. CASE i = j
      BY <2>6, <2>7, <3>1
    <3>2. CASE i # j
      <4>1. i \in 0 .. j - 1
        BY <2>5, <3>2
      <4>2. size[i] <= size[j - 1]
        BY <2>6, <4>1
      <4>3. size[i] \in Nat
        <5>1. i \in 0 .. n /\ ~(j <= i)
          BY <2>5, <4>1
        <5>2. Good(i)
          <6>1. i \notin T
            BY <2>2, <5>1
          <6> HIDE DEF Good
          <6>2. QED
            BY <5>1, <6>1
        <5>3. QED
          BY <5>2
      <4>4. size[j - 1] \in Nat
        BY <2>6
      <4>5. QED
        BY <2>7, <4>2, <4>3, <4>4
    <3>3. QED
      BY <3>1, <3>2
  <2>9. Good(j)
    BY <2>6, <2>7, <2>8
  <2>10. QED
    BY <2>3, <2>9
<1>5. \A j \in 0 .. n : Good(j)
  <2> HIDE DEF Good
  <2> QED BY <1>4
<1>6. \A k \in 0 .. n : size[k] \in Nat
  BY <1>5
<1>7. \A i, j \in 0 .. n : i <= j => size[i] <= size[j]
  BY <1>1, <1>5
<1>8. QED
  BY <1>1, <1>2, <1>3, <1>6, <1>7 DEF size

\* Where the value of location k begins in the value of the field.
place(ats, k) == sizes_to(ats)[Len(ats)] - sizes_to(ats)[k]

LEMMA PlaceIs ==
  ASSUME NEW ats \in Seq(Locations)
  PROVE  /\ \A k \in 0 .. Len(ats) : place(ats, k) \in Nat
         /\ place(ats, Len(ats)) = 0 /\ place(ats, 0) = sizes_to(ats)[Len(ats)]
         /\ \A k \in 1 .. Len(ats) : place(ats, k - 1) = place(ats, k) + at_size(ats[k])
         /\ \A k \in 1 .. Len(ats) : place(ats, k) + at_size(ats[k]) <= place(ats, 0)
<1> DEFINE n == Len(ats)
           size == sizes_to(ats)
<1>1. /\ n \in Nat /\ size[0] = 0
      /\ \A k \in 0 .. n : size[k] \in Nat
      /\ \A k \in 1 .. n : size[k] = size[k - 1] + at_size(ats[k]) /\ at_size(ats[k]) \in Nat \ {0}
      /\ \A i, j \in 0 .. n : i <= j => size[i] <= size[j]
  BY SizesGrow
<1>2. \A k \in 0 .. n : place(ats, k) = size[n] - size[k]
  BY DEF place
<1> HIDE DEF size
<1>3. ASSUME NEW k \in 0 .. n
      PROVE  place(ats, k) \in Nat
  <2>1. n \in 0 .. n /\ k <= n
    BY <1>1
  <2>2. size[k] \in Nat /\ size[n] \in Nat /\ size[k] <= size[n]
    BY <1>1, <2>1
  <2>3. place(ats, k) = size[n] - size[k]
    BY <1>2
  <2> HIDE DEF n
  <2>4. QED
    BY <2>2, <2>3
<1>4. place(ats, n) = 0 /\ place(ats, 0) = size[n]
  BY <1>1, <1>2
<1>5. ASSUME NEW k \in 1 .. n
      PROVE  place(ats, k - 1) = place(ats, k) + at_size(ats[k]) /\ place(ats, k) + at_size(ats[k]) <= place(ats, 0)
  <2>1. k \in 0 .. n /\ k - 1 \in 0 .. n /\ n \in 0 .. n
    BY <1>1
  <2>2. size[k] \in Nat /\ size[k - 1] \in Nat /\ size[n] \in Nat
    BY <1>1, <2>1
  <2>3. /\ place(ats, k) = size[n] - size[k] /\ place(ats, k - 1) = size[n] - size[k - 1]
        /\ place(ats, 0) = size[n]
    BY <1>2, <1>4, <2>1
  <2>4. size[k] = size[k - 1] + at_size(ats[k]) /\ at_size(ats[k]) \in Nat
    BY <1>1
  <2> HIDE DEF n
  <2>5. QED
    BY <2>2, <2>3, <2>4
<1>6. QED
  BY <1>3, <1>4, <1>5 DEF size

\* Each bit of the value has its location.
LEMMA PlaceOfBit ==
  ASSUME NEW ats \in Seq(Locations), NEW x \in Nat, x < place(ats, 0)
  PROVE  \E k \in 1 .. Len(ats) : place(ats, k) <= x /\ x < place(ats, k) + at_size(ats[k])
<1> DEFINE n == Len(ats)
           T == {k \in 0 .. n : place(ats, k) <= x}
<1>1. n \in Nat
  OBVIOUS
<1>2. /\ \A k \in 0 .. n : place(ats, k) \in Nat
      /\ place(ats, n) = 0
      /\ \A k \in 1 .. n : place(ats, k - 1) = place(ats, k) + at_size(ats[k])
  BY PlaceIs
<1>3. n \in T
  BY <1>1, <1>2
<1>4. PICK k \in T : \A j \in T : k <= j
  <2>1. T \in SUBSET Nat /\ T # {}
    BY <1>1, <1>3
  <2> HIDE DEF T
  <2>2. QED
    BY <2>1, LeastOf
<1>5. k # 0
  <2>1. place(ats, 0) \in Nat
    BY <1>1, <1>2
  <2>2. QED
    BY <2>1
<1>6. k \in 1 .. n /\ k - 1 \in 0 .. n /\ ~(k <= k - 1)
  BY <1>1, <1>5
<1>7. ~(place(ats, k - 1) <= x)
  BY <1>4, <1>6
<1>8. QED
  BY <1>2, <1>6, <1>7

LEMMA SumsShift ==
  ASSUME NEW low \in Nat, NEW high \in Nat, low <= high, NEW step \in Nat, NEW y \in Nat
  PROVE  /\ (high - low) + y \in Nat
         /\ ((high + step) - low) + y = ((high - low) + y) + step
         /\ ((high + step) - low) + y \in Nat
  OBVIOUS

LEMMA JoinedIs ==
  ASSUME NEW ats \in Seq(Locations), NEW parts \in [1 .. Len(ats) -> SUBSET Nat]
  PROVE  \A x : x \in joined(ats, parts) <=>
           \E k \in 1 .. Len(ats) : \E y \in parts[k] : x = place(ats, k) + y
<1> DEFINE n == Len(ats)
           size == sizes_to(ats)
           body(h) == [k \in 0 .. n |->
                         IF k = 0 THEN {} ELSE ShiftedLeft(h[k - 1], at_size(ats[k])) \cup parts[k]]
           given == [k \in 0 .. n |->
                       {x \in Nat : \E i \in 1 .. k : \E y \in parts[i] : x = (size[k] - size[i]) + y}]
           raw == CHOOSE h : h = body(h)
<1>1. /\ n \in Nat /\ size[0] = 0
      /\ \A k \in 0 .. n : size[k] \in Nat
      /\ \A k \in 1 .. n : size[k] = size[k - 1] + at_size(ats[k]) /\ at_size(ats[k]) \in Nat \ {0}
      /\ \A i, j \in 0 .. n : i <= j => size[i] <= size[j]
  BY SizesGrow
<1> HIDE DEF size
<1>2. ASSUME NEW k \in 0 .. n, NEW x
      PROVE  x \in given[k] <=> x \in Nat /\ \E i \in 1 .. k : \E y \in parts[i] : x = (size[k] - size[i]) + y
  OBVIOUS
<1> HIDE DEF given
<1>3. ASSUME NEW k \in 1 .. n
      PROVE  given[k] = ShiftedLeft(given[k - 1], at_size(ats[k])) \cup parts[k]
  <2>1. /\ k \in 0 .. n /\ k - 1 \in 0 .. n /\ size[k] \in Nat /\ size[k - 1] \in Nat
        /\ at_size(ats[k]) \in Nat /\ size[k] = size[k - 1] + at_size(ats[k])
        /\ \A i \in 1 .. k - 1 : i \in 0 .. n /\ size[i] \in Nat /\ size[i] <= size[k - 1]
    BY <1>1
  <2>2. parts[k] \subseteq Nat /\ \A i \in 1 .. k - 1 : parts[i] \subseteq Nat
    <3>1. \A i \in 1 .. n : parts[i] \in SUBSET Nat
      OBVIOUS
    <3>2. k \in 1 .. n /\ \A i \in 1 .. k - 1 : i \in 1 .. n
      BY <1>1
    <3> HIDE DEF n
    <3>3. QED
      BY <3>1, <3>2
  <2>3. ASSUME NEW x \in given[k] PROVE x \in ShiftedLeft(given[k - 1], at_size(ats[k])) \cup parts[k]
    <3>1. PICK i \in 1 .. k : \E y \in parts[i] : x = (size[k] - size[i]) + y
      BY <1>2, <2>1
    <3>2. PICK y \in parts[i] : x = (size[k] - size[i]) + y
      BY <3>1
    <3>3. CASE i = k
      <4>1. y \in Nat
        BY <2>2, <3>2, <3>3
      <4>2. x = y
        BY <2>1, <3>2, <3>3, <4>1
      <4>3. QED
        BY <3>2, <3>3, <4>2
    <3>4. CASE i # k
      <4>1. i \in 1 .. k - 1
        BY <2>1, <3>4
      <4>2. y \in Nat /\ size[i] \in Nat /\ size[i] <= size[k - 1]
        BY <2>1, <2>2, <4>1
      <4> DEFINE z == (size[k - 1] - size[i]) + y
      <4>3. z \in Nat /\ x = z + at_size(ats[k])
        <5>1. x = (size[k] - size[i]) + y
          BY <3>2
        <5>2. /\ size[k] \in Nat /\ size[k - 1] \in Nat
              /\ at_size(ats[k]) \in Nat /\ size[k] = size[k - 1] + at_size(ats[k])
          BY <2>1
        <5>3. (((size[k - 1] + at_size(ats[k])) - size[i]) + y = z + at_size(ats[k])) /\ z \in Nat
          BY <4>2, <5>2, SumsShift
        <5>4. x = ((size[k - 1] + at_size(ats[k])) - size[i]) + y
          BY <5>1, <5>2
        <5> HIDE DEF n, z
        <5>5. QED
          BY <5>3, <5>4
      <4>4. z \in given[k - 1]
        <5>1. z = (size[k - 1] - size[i]) + y /\ y \in parts[i]
          BY <3>2
        <5> HIDE DEF z
        <5>2. QED
          BY <1>2, <2>1, <4>1, <4>3, <5>1
      <4>5. QED
        <5> HIDE DEF z
        <5> QED BY <4>3, <4>4 DEF ShiftedLeft
    <3>5. QED
      BY <3>3, <3>4
  <2>4. ASSUME NEW x \in ShiftedLeft(given[k - 1], at_size(ats[k])) PROVE x \in given[k]
    <3>1. PICK z \in given[k - 1] : x = z + at_size(ats[k])
      BY <2>4 DEF ShiftedLeft
    <3>2. PICK i \in 1 .. k - 1 : \E y \in parts[i] : z = (size[k - 1] - size[i]) + y
      <4>1. k - 1 \in 0 .. n
        BY <2>1
      <4> DEFINE j == k - 1
      <4>2. z \in given[j] /\ j \in 0 .. n
        BY <3>1, <4>1
      <4> HIDE DEF n, j
      <4>3. \E i \in 1 .. j : \E y \in parts[i] : z = (size[j] - size[i]) + y
        BY <1>2, <4>2
      <4>4. QED
        BY <4>3 DEF j
    <3>3. PICK y \in parts[i] : z = (size[k - 1] - size[i]) + y
      BY <3>2
    <3>4. y \in Nat /\ size[i] \in Nat /\ size[i] <= size[k - 1] /\ i \in 1 .. k
      BY <2>1, <2>2, <3>2, <3>3
    <3>5. x \in Nat /\ x = (size[k] - size[i]) + y
      <4>1. /\ size[k] \in Nat /\ size[k - 1] \in Nat
            /\ at_size(ats[k]) \in Nat /\ size[k] = size[k - 1] + at_size(ats[k])
        BY <2>1
      <4> DEFINE w == (size[k - 1] - size[i]) + y
      <4>2. /\ ((size[k - 1] + at_size(ats[k])) - size[i]) + y = w + at_size(ats[k])
            /\ ((size[k - 1] + at_size(ats[k])) - size[i]) + y \in Nat
        BY <3>4, <4>1, SumsShift
      <4>3. x = w + at_size(ats[k])
        BY <3>1, <3>3
      <4>4. size[k] = size[k - 1] + at_size(ats[k])
        BY <4>1
      <4> HIDE DEF n, w
      <4>5. QED
        BY <4>2, <4>3, <4>4
    <3>6. QED
      BY <1>2, <2>1, <3>3, <3>4, <3>5
  <2>5. ASSUME NEW x \in parts[k] PROVE x \in given[k]
    <3>1. x \in Nat /\ x = (size[k] - size[k]) + x /\ k \in 1 .. k
      BY <2>1, <2>2
    <3>2. QED
      BY <1>2, <2>1, <3>1
  <2>6. QED
    BY <2>3, <2>4, <2>5
<1>4. given[0] = {}
  <2>1. \A x : x \notin given[0]
    BY <1>1, <1>2
  <2>2. QED
    BY <2>1
<1>5. given = body(given)
  <2>1. ASSUME NEW k \in 0 .. n
        PROVE  given[k] = IF k = 0 THEN {} ELSE ShiftedLeft(given[k - 1], at_size(ats[k])) \cup parts[k]
    <3>1. k # 0 => k \in 1 .. n
      BY <1>1
    <3>2. QED
      BY <1>3, <1>4, <3>1
  <2>2. given = [k \in 0 .. n |-> given[k]]
    BY DEF given
  <2>3. QED
    BY <2>1, <2>2
<1>6. raw = body(raw)
  <2> HIDE DEF body
  <2> QED BY <1>5
<1>7. ASSUME NEW k \in 0 .. n
      PROVE  raw[k] = IF k = 0 THEN {} ELSE ShiftedLeft(raw[k - 1], at_size(ats[k])) \cup parts[k]
  <2> HIDE DEF raw
  <2> QED BY <1>6
<1>8. joined(ats, parts) = raw[n]
  BY DEF joined
<1> HIDE DEF raw, body
<1>9. \A k \in 0 .. n : raw[k] = given[k]
  <2>1. Parted(0 .. n, [k \in 0 .. n |-> k], Preceding(n))
    BY <1>1, FromZeroParted
  <2>2. ASSUME NEW k \in 0 .. n
        PROVE  (\A c \in Preceding(n)[k] : raw[c] = given[c]) => raw[k] = given[k]
    <3> SUFFICES ASSUME \A c \in Preceding(n)[k] : raw[c] = given[c]
                 PROVE  raw[k] = given[k]
      OBVIOUS
    <3>1. CASE k = 0
      BY <1>4, <1>7, <3>1
    <3>2. CASE k # 0
      <4>1. k \in 1 .. n /\ Preceding(n)[k] = {k - 1}
        BY <1>1, <3>2 DEF Preceding
      <4>2. raw[k - 1] = given[k - 1]
        BY <4>1
      <4>3. QED
        BY <1>3, <1>7, <3>2, <4>1, <4>2
    <3>3. QED
      BY <3>1, <3>2
  <2>3. \A k \in 0 .. n : (\A c \in Preceding(n)[k] : raw[c] = given[c]) => raw[k] = given[k]
    BY <2>2
  <2> DEFINE X == 0 .. n
             height == [k \in 0 .. n |-> k]
             before == Preceding(n)
  <2>4. Parted(X, height, before)
    BY <2>1
  <2>5. \A k \in X : (\A c \in before[k] : raw[c] = given[c]) => raw[k] = given[k]
    BY <2>3
  <2>6. \A k \in X : raw[k] = given[k]
    <3> HIDE DEF X, height, before
    <3> QED BY <2>4, <2>5, RecursionAgrees
  <2>7. QED
    BY <2>6
<1>10. \A k \in 1 .. n : place(ats, k) = size[n] - size[k]
  BY DEF place, size
<1>11. ASSUME NEW x
       PROVE  x \in joined(ats, parts) <=> \E k \in 1 .. n : \E y \in parts[k] : x = place(ats, k) + y
  <2>1. n \in 0 .. n
    BY <1>1
  <2>2. \A k \in 1 .. n : \A y \in parts[k] : place(ats, k) + y \in Nat
    <3> SUFFICES ASSUME NEW k \in 1 .. n, NEW y \in parts[k] PROVE place(ats, k) + y \in Nat
      OBVIOUS
    <3>1. k \in 0 .. n /\ size[k] <= size[n] /\ size[k] \in Nat /\ size[n] \in Nat
      BY <1>1, <2>1
    <3>3. y \in Nat
      <4>1. \A i \in 1 .. n : parts[i] \in SUBSET Nat
        OBVIOUS
      <4> HIDE DEF n
      <4>2. QED
        BY <4>1
    <3>2. QED
      BY <1>10, <3>1, <3>3
  <2>3. QED
    BY <1>2, <1>8, <1>9, <1>10, <2>1, <2>2
<1>12. QED
  BY <1>11

LEMMA ElementOf ==
  ASSUME NEW size \in WholeElements, NEW c \in Nat
  PROVE  /\ size \in Nat /\ c \div size \in Nat /\ c % size \in 0 .. size - 1
         /\ c = (c \div size) * size + (c % size)
         /\ \A e \in Nat : \A b \in 0 .. size - 1 : c = e * size + b => c \div size = e /\ c % size = b
<1>1. CASE size = 8
  BY <1>1
<1>2. CASE size = 16
  BY <1>2
<1>3. CASE size = 32
  BY <1>3
<1>4. QED
  BY <1>1, <1>2, <1>3 DEF WholeElements

\* Bits low to high of an element are replaced by those of a value; and so are
\* bits first to last of a storage.
ReplacedIn(new, old, low, high, value) ==
  \A b \in 0 .. elem_size - 1 :
    b \in new <=> IF low <= b /\ b <= high THEN b - low \in value ELSE b \in old

WrittenIn(new, old, first, last, value) ==
  \A c \in Nat :
    bit(new, c) <=> IF first <= c /\ c <= last THEN c - first \in value ELSE bit(old, c)

LEMMA ElementWritten ==
  ASSUME elem_size \in WholeElements, NEW elems, NEW idx \in DOMAIN elems, idx \in Nat, NEW new,
         NEW low \in 0 .. elem_size - 1, NEW high \in 0 .. elem_size - 1, NEW value,
         ReplacedIn(new, elems[idx], low, high, value)
  PROVE  WrittenIn([elems EXCEPT ![idx] = new], elems,
                   idx * elem_size + low, idx * elem_size + high, value)
<1> SUFFICES ASSUME NEW c \in Nat
             PROVE  bit([elems EXCEPT ![idx] = new], c) <=>
                      IF idx * elem_size + low <= c /\ c <= idx * elem_size + high
                      THEN c - (idx * elem_size + low) \in value ELSE bit(elems, c)
  BY DEF WrittenIn
<1> DEFINE e == c \div elem_size
           b == c % elem_size
           changed == [elems EXCEPT ![idx] = new]
<1>1. /\ elem_size \in Nat /\ e \in Nat /\ b \in 0 .. elem_size - 1 /\ c = e * elem_size + b
  BY ElementOf
<1>2. \A g : bit(g, c) <=> e \in DOMAIN g /\ b \in g[e]
  BY DEF bit
<1> HIDE DEF e, b
<1>3. bit(changed, c) <=> e \in DOMAIN elems /\ b \in changed[e]
  BY <1>2
<1>4. CASE e = idx
  <2>1. /\ idx * elem_size + low <= c <=> low <= b
        /\ c <= idx * elem_size + high <=> b <= high
        /\ c - (idx * elem_size + low) = b - low
    <3>1. idx * elem_size \in Nat
      BY <1>1
    <3>2. b \in Nat /\ low \in Nat /\ high \in Nat
      BY <1>1
    <3>3. c = idx * elem_size + b
      BY <1>1, <1>4
    <3> DEFINE start == idx * elem_size
    <3> HIDE DEF start
    <3>4. QED
      BY <3>1, <3>2, <3>3 DEF start
  <2>2. changed[e] = new
    BY <1>4
  <2> HIDE DEF changed
  <2>3. b \in new <=> IF low <= b /\ b <= high THEN b - low \in value ELSE b \in elems[idx]
    BY <1>1 DEF ReplacedIn
  <2>4. bit(elems, c) <=> b \in elems[idx]
    BY <1>2, <1>4
  <2>5. QED
    BY <1>3, <1>4, <2>1, <2>2, <2>3, <2>4 DEF changed
<1>5. CASE e # idx
  <2>1. bit(changed, c) <=> bit(elems, c)
    BY <1>2, <1>3, <1>5
  <2>2. ~(idx * elem_size + low <= c /\ c <= idx * elem_size + high)
    <3> SUFFICES ASSUME idx * elem_size + low <= c, c <= idx * elem_size + high
                 PROVE  FALSE
      OBVIOUS
    <3>1. e = idx
      <4>1. CASE elem_size = 8
        BY <1>1, <4>1
      <4>2. CASE elem_size = 16
        BY <1>1, <4>2
      <4>3. CASE elem_size = 32
        BY <1>1, <4>3
      <4>4. QED
        BY <4>1, <4>2, <4>3 DEF WholeElements
    <3>2. QED
      BY <1>5, <3>1
  <2> HIDE DEF changed
  <2>3. QED
    BY <2>1, <2>2 DEF changed
<1>6. QED
  BY <1>4, <1>5

\* The first bit of the storage that is yet to be written.
cur == locator.index * 32 + insertion.lsb
target == field.ats[insertion.left]

LEMMA WrittenPart ==
  ASSUME InsertionInv, insertion.busy
  PROVE  /\ elem_size \in WholeElements /\ current_idx \in Nat /\ lsb_in_element \in 0 .. elem_size - 1
         /\ cur \in Nat /\ cur = current_idx * elem_size + lsb_in_element
         /\ insertion.left \in 1 .. Len(field.ats) /\ field \in LocatedFields /\ field \in Range(message)
         /\ target \in Locations /\ target.lsb \in Nat /\ target.msb \in Nat
         /\ target.lsb <= cur /\ cur <= target.msb
         /\ insertion.value \subseteq 0 .. target.msb - cur
         /\ current_idx = max_idx(locator, elem_size) =>
              msb_in_element \in 0 .. elem_size - 1 /\ target.msb = current_idx * elem_size + msb_in_element
         /\ current_idx # max_idx(locator, elem_size) =>
              cur + (elem_size - lsb_in_element) <= target.msb
<1> DEFINE l == locator
           i == l.index
           last == last_bit(l)
           lsb == insertion.lsb
<1>1. /\ queue # <<>> /\ insertion.left \in 1 .. Len(field.ats)
      /\ target \in Locations /\ l = locator_for(target)
      /\ field \in LocatedFields /\ field \in Range(message)
  <2>1. insertion.left > 0
    BY DEF InsertionInv
  <2>2. QED
    BY <2>1, LocationIs, FieldIs DEF target
<1>2. /\ i \in Nat /\ l.lsb \in Nat
      /\ target.lsb = i * 32 + l.lsb /\ target.msb = i * 32 + last
  BY <1>1, LocatorIs
<1>3. /\ lsb_in_element \in 0 .. elem_size - 1 /\ elem_size \in Nat
      /\ lsb \in Nat /\ last \in Nat /\ l.lsb <= lsb /\ lsb <= last
      /\ current_idx = max_idx(locator, elem_size) => msb_in_element - lsb_in_element = last - lsb
      /\ current_idx # max_idx(locator, elem_size) => lsb + (elem_size - lsb_in_element) <= last
  BY PartOfLocation
<1>4. elem_size \in WholeElements /\ insertion.value \subseteq 0 .. last - lsb
  BY DEF InsertionInv, WithinLocator
<1>5. cur = i * 32 + lsb
  BY DEF cur
<1>16. /\ current_idx = (i * 32) \div elem_size + lsb \div elem_size
       /\ lsb_in_element = lsb % elem_size
  BY DEF current_idx, element, lsb_in_element
<1>7. msb_in_element = last % elem_size
  BY DEF msb_in_element, last_bit
<1> HIDE DEF l, i, last, lsb
<1>6. current_idx * elem_size = i * 32 + lsb - lsb_in_element /\ current_idx \in Nat
  <2>1. /\ current_idx = (i * 32) \div elem_size + lsb \div elem_size
        /\ lsb_in_element = lsb % elem_size
    BY <1>16
  <2>2. ((i * 32) \div elem_size + lsb \div elem_size) * elem_size = i * 32 + lsb - (lsb % elem_size)
    BY <1>2, <1>3, <1>4, ElementArithmetic
  <2>3. current_idx \in Nat
    BY <1>2, <1>3, <1>4, <2>1 DEF WholeElements
  <2>4. QED
    BY <2>1, <2>2, <2>3
<1>8. msb_in_element \in 0 .. elem_size - 1
  BY <1>3, <1>4, <1>7, ElementOf
<1>9. cur \in Nat /\ target.lsb \in Nat /\ target.msb \in Nat
  BY <1>2, <1>3, <1>5
<1>10. target.lsb <= cur /\ cur <= target.msb /\ target.msb - cur = last - lsb
  BY <1>2, <1>3, <1>5
<1>11. cur = current_idx * elem_size + lsb_in_element
  <2> DEFINE start == current_idx * elem_size
  <2>1. start = i * 32 + lsb - lsb_in_element
    BY <1>6
  <2> HIDE DEF start
  <2>2. cur = start + lsb_in_element
    BY <1>2, <1>3, <1>5, <2>1
  <2>3. QED
    BY <2>2 DEF start
<1>12. ASSUME current_idx = max_idx(locator, elem_size)
       PROVE  target.msb = current_idx * elem_size + msb_in_element
  <2> DEFINE start == current_idx * elem_size
  <2>1. start = i * 32 + lsb - lsb_in_element
    BY <1>6
  <2>2. msb_in_element - lsb_in_element = last - lsb
    BY <1>3, <1>12
  <2> HIDE DEF start
  <2>3. target.msb = start + msb_in_element
    BY <1>2, <1>3, <1>8, <2>1, <2>2
  <2>4. QED
    BY <2>3 DEF start
<1>13. ASSUME current_idx # max_idx(locator, elem_size)
       PROVE  cur + (elem_size - lsb_in_element) <= target.msb
  <2>1. lsb + (elem_size - lsb_in_element) <= last
    BY <1>3, <1>13
  <2>2. QED
    BY <1>2, <1>3, <1>5, <2>1
<1>14. QED
  BY <1>1, <1>3, <1>4, <1>6, <1>8, <1>9, <1>10, <1>11, <1>12, <1>13

\* What is read after a step that writes, bit by bit.
LEMMA LastWrites ==
  ASSUME InsertionInv, InsertLast, current_idx \in DOMAIN storage
  PROVE  WrittenIn(storage', storage, cur, target.msb, insertion.value)
<1> DEFINE low == lsb_in_element
           high == msb_in_element
           value == insertion.value
           new == leftover(storage[current_idx], high, low) \cup Cut(ShiftedLeft(value, low))
<1>1. insertion.busy /\ current_idx = max_idx(locator, elem_size)
  BY DEF InsertLast
<1>2. storage' = [storage EXCEPT ![current_idx] = new]
  BY DEF InsertLast
<1>3. /\ elem_size \in WholeElements /\ current_idx \in Nat /\ low \in 0 .. elem_size - 1
      /\ cur \in Nat /\ cur = current_idx * elem_size + low
      /\ value \subseteq 0 .. target.msb - cur
      /\ target.msb \in Nat /\ cur <= target.msb
      /\ high \in 0 .. elem_size - 1 /\ target.msb = current_idx * elem_size + high
  BY <1>1, WrittenPart
<1>4. elem_size \in Nat /\ current_idx * elem_size \in Nat
  BY <1>3 DEF WholeElements
<1>5. target.msb - cur = high - low /\ low <= high
  <2> DEFINE start == current_idx * elem_size
  <2>1. start \in Nat /\ cur = start + low /\ target.msb = start + high /\ cur <= target.msb
    BY <1>3, <1>4
  <2> HIDE DEF start, low, high
  <2>2. QED
    BY <1>3, <1>4, <2>1
<1> HIDE DEF low, high, value
<1>6. ASSUME NEW b \in 0 .. elem_size - 1
      PROVE  b \in new <=> IF low <= b /\ b <= high THEN b - low \in value ELSE b \in storage[current_idx]
  <2>1. b \in Nat /\ low \in Nat /\ high \in Nat
    BY <1>3, <1>4
  <2>2. b \in leftover(storage[current_idx], high, low) <=> b \in storage[current_idx] /\ ~(low <= b /\ b <= high)
    BY <2>1 DEF leftover
  <2>3. b \in Cut(ShiftedLeft(value, low)) <=> low <= b /\ b <= high /\ b - low \in value
    <3>1. b \in Cut(ShiftedLeft(value, low)) <=> \E v \in value : b = v + low
      BY DEF Cut, ShiftedLeft
    <3>2. \A v \in value : v \in Nat /\ v <= high - low
      BY <1>3, <1>5, <2>1
    <3>3. QED
      BY <2>1, <3>1, <3>2
  <2>4. QED
    BY <2>2, <2>3
<1> HIDE DEF new
<1>7. ReplacedIn(new, storage[current_idx], low, high, value)
  BY <1>6 DEF ReplacedIn
<1>8. WrittenIn([storage EXCEPT ![current_idx] = new], storage,
                current_idx * elem_size + low, current_idx * elem_size + high, value)
  BY <1>3, <1>7, ElementWritten
<1>9. QED
  BY <1>2, <1>3, <1>8 DEF value

LEMMA PartWrites ==
  ASSUME InsertionInv, InsertFirst \/ InsertBetween, current_idx \in DOMAIN storage
  PROVE  WrittenIn(storage', storage, cur, cur + (elem_size - lsb_in_element) - 1, insertion.value)
<1> DEFINE numbits == elem_size - lsb_in_element
           low == lsb_in_element
           high == elem_size - 1
           value == insertion.value
           new == leftover(storage[current_idx], elem_size - 1, elem_size - numbits)
                    \cup ShiftedLeft(value_part(value, numbits), elem_size - numbits)
<1>1. insertion.busy /\ current_idx # max_idx(locator, elem_size) /\ InsertPart(numbits)
  BY InsertPartKeepsInsertion
<1>2. storage' = [storage EXCEPT ![current_idx] = new]
  BY <1>1 DEF InsertPart
<1>3. /\ elem_size \in WholeElements /\ current_idx \in Nat /\ low \in 0 .. elem_size - 1
      /\ cur \in Nat /\ cur = current_idx * elem_size + low
      /\ value \subseteq 0 .. target.msb - cur
      /\ target.msb \in Nat
  BY <1>1, WrittenPart
<1>4. elem_size \in Nat /\ current_idx * elem_size \in Nat /\ low \in Nat
  BY <1>3 DEF WholeElements
<1>5. elem_size - numbits = low /\ numbits - 1 = high - low /\ high \in 0 .. elem_size - 1 /\ low <= high
  BY <1>3, <1>4
<1>6. cur + numbits - 1 = current_idx * elem_size + high
  <2> DEFINE start == current_idx * elem_size
  <2>1. start \in Nat /\ cur = start + low
    BY <1>3, <1>4
  <2> HIDE DEF start
  <2>2. cur + numbits - 1 = start + high
    BY <1>4, <2>1
  <2>3. QED
    BY <2>2 DEF start
<1>7. ASSUME NEW b \in 0 .. elem_size - 1
      PROVE  b \in new <=> IF low <= b /\ b <= high THEN b - low \in value ELSE b \in storage[current_idx]
  <2>1. b \in Nat /\ b <= high
    BY <1>3, <1>4
  <2>2. b \in leftover(storage[current_idx], elem_size - 1, elem_size - numbits)
          <=> b \in storage[current_idx] /\ ~(low <= b /\ b <= high)
    BY <1>4, <1>5, <2>1 DEF leftover
  <2>3. b \in ShiftedLeft(value_part(value, numbits), elem_size - numbits) <=> low <= b /\ b - low \in value
    <3>1. b \in ShiftedLeft(value_part(value, numbits), elem_size - numbits)
            <=> \E v \in value \cap (0 .. numbits - 1) : b = v + low
      BY <1>5 DEF ShiftedLeft, value_part
    <3>2. numbits - 1 = high - low /\ numbits - 1 \in Int /\ high \in Int
      BY <1>4, <1>5
    <3>3. \A v \in value : v \in Nat
      BY <1>3
    <3> HIDE DEF numbits, high, value, low
    <3>4. QED
      BY <1>4, <2>1, <3>1, <3>2, <3>3
  <2>4. QED
    BY <2>1, <2>2, <2>3
<1> HIDE DEF new, low, high, value, numbits
<1>8. ReplacedIn(new, storage[current_idx], low, high, value)
  BY <1>7 DEF ReplacedIn
<1>9. WrittenIn([storage EXCEPT ![current_idx] = new], storage,
                current_idx * elem_size + low, current_idx * elem_size + high, value)
  BY <1>3, <1>5, <1>8, ElementWritten
<1>10. QED
  BY <1>2, <1>3, <1>6, <1>9 DEF value, numbits

\* The bit of the value that bit c of the storage has, as part of location k.
spot(ats, k, c) == place(ats, k) + (c - ats[k].lsb)

LEMMA SpotIs ==
  ASSUME NEW f \in LocatedFields, NEW k \in 1 .. Len(f.ats), NEW c \in f.ats[k].lsb .. f.ats[k].msb
  PROVE  /\ c \in Nat /\ f.ats[k].lsb \in Nat /\ f.ats[k].msb \in Nat
         /\ f.ats[k].lsb <= c /\ c <= f.ats[k].msb
         /\ place(f.ats, k) \in Nat /\ place(f.ats, k - 1) = place(f.ats, k) + at_size(f.ats[k])
         /\ spot(f.ats, k, c) \in 0 .. field_size(f) - 1
<1> DEFINE ats == f.ats
           here == ats[k]
<1>1. ats \in Seq(Locations) /\ here.lsb \in Nat /\ here.msb \in Nat /\ Len(ats) \in Nat
  BY LocatedIs
<1>2. c \in Nat /\ here.lsb <= c /\ c <= here.msb
  BY <1>1
<1>3. /\ place(ats, k) \in Nat /\ place(ats, 0) \in Nat /\ place(ats, 0) = field_size(f)
      /\ place(ats, k - 1) = place(ats, k) + at_size(here)
      /\ place(ats, k) + at_size(here) <= place(ats, 0)
  <2>1. k \in 0 .. Len(ats) /\ 0 \in 0 .. Len(ats)
    BY <1>1
  <2>2. QED
    BY <1>1, <2>1, PlaceIs DEF field_size
<1>4. at_size(here) = here.msb - here.lsb + 1
  BY DEF at_size
<1>5. spot(ats, k, c) = place(ats, k) + (c - here.lsb)
  BY DEF spot
<1> HIDE DEF here
<1>6. spot(ats, k, c) \in 0 .. field_size(f) - 1
  <2>1. c - here.lsb \in 0 .. at_size(here) - 1 /\ at_size(here) \in Int
    BY <1>1, <1>2, <1>4
  <2>2. place(ats, k) + at_size(here) <= field_size(f) /\ field_size(f) \in Nat
    BY <1>3
  <2> HIDE DEF ats
  <2>3. QED
    BY <1>3, <1>5, <2>1, <2>2
<1>7. QED
  BY <1>1, <1>2, <1>3, <1>6 DEF here

LEMMA ReadingIs ==
  ASSUME NEW f \in LocatedFields, NEW elems
  PROVE  \A x : x \in reading(f, elems) <=>
           \E k \in 1 .. Len(f.ats) : \E c \in f.ats[k].lsb .. f.ats[k].msb :
             bit(elems, c) /\ x = spot(f.ats, k, c)
<1> DEFINE ats == f.ats
           parts == [k \in DOMAIN ats |-> bits_at(ats[k], elems)]
<1>1. ats \in Seq(Locations) /\ DOMAIN ats = 1 .. Len(ats)
  BY LocatedIs
<1>2. ASSUME NEW k \in 1 .. Len(ats)
      PROVE  /\ bits_at(ats[k], elems) \in SUBSET Nat
             /\ \A y : y \in bits_at(ats[k], elems) <=>
                  \E c \in ats[k].lsb .. ats[k].msb : bit(elems, c) /\ y = c - ats[k].lsb
  <2>1. \A y : y \in bits_at(ats[k], elems) <=>
          \E c \in ats[k].lsb .. ats[k].msb : bit(elems, c) /\ y = c - ats[k].lsb
    BY DEF bits_at
  <2>2. \A c \in ats[k].lsb .. ats[k].msb : c - ats[k].lsb \in Nat
    BY <1>1, LocatedIs
  <2>3. QED
    BY <2>1, <2>2
<1>3. parts \in [1 .. Len(ats) -> SUBSET Nat] /\ \A k \in 1 .. Len(ats) : parts[k] = bits_at(ats[k], elems)
  BY <1>1, <1>2
<1>4. reading(f, elems) = joined(ats, parts)
  BY DEF reading
<1> HIDE DEF parts, ats
<1>5. \A x : x \in joined(ats, parts) <=> \E k \in 1 .. Len(ats) : \E y \in parts[k] : x = place(ats, k) + y
  BY <1>1, <1>3, JoinedIs
<1>6. ASSUME NEW x, NEW k \in 1 .. Len(ats)
      PROVE  (\E y \in parts[k] : x = place(ats, k) + y) <=>
               \E c \in ats[k].lsb .. ats[k].msb : bit(elems, c) /\ x = spot(ats, k, c)
  <2>1. \A c : spot(ats, k, c) = place(ats, k) + (c - ats[k].lsb)
    BY DEF spot
  <2>2. \A y : y \in parts[k] <=> \E c \in ats[k].lsb .. ats[k].msb : bit(elems, c) /\ y = c - ats[k].lsb
    BY <1>2, <1>3
  <2>3. ASSUME NEW y \in parts[k], x = place(ats, k) + y
        PROVE  \E c \in ats[k].lsb .. ats[k].msb : bit(elems, c) /\ x = spot(ats, k, c)
    <3>1. PICK c \in ats[k].lsb .. ats[k].msb : bit(elems, c) /\ y = c - ats[k].lsb
      BY <2>2
    <3>2. x = spot(ats, k, c)
      BY <2>1, <2>3, <3>1
    <3>3. QED
      BY <3>1, <3>2
  <2>4. ASSUME NEW c \in ats[k].lsb .. ats[k].msb, bit(elems, c), x = spot(ats, k, c)
        PROVE  \E y \in parts[k] : x = place(ats, k) + y
    <3>1. c - ats[k].lsb \in parts[k]
      BY <2>2, <2>4
    <3>2. x = place(ats, k) + (c - ats[k].lsb)
      BY <2>1, <2>4
    <3>3. QED
      BY <3>1, <3>2
  <2>5. QED
    BY <2>3, <2>4
<1>7. ASSUME NEW x
      PROVE  x \in reading(f, elems) <=>
               \E k \in 1 .. Len(ats) : \E c \in ats[k].lsb .. ats[k].msb : bit(elems, c) /\ x = spot(ats, k, c)
  <2>1. x \in reading(f, elems) <=> \E k \in 1 .. Len(ats) : \E y \in parts[k] : x = place(ats, k) + y
    BY <1>4, <1>5
  <2>2. QED
    BY <1>6, <2>1, Zenon
<1>8. QED
  BY <1>7 DEF ats

\* Storages with the same bits in the locations of a field.
LEMMA SameReading ==
  ASSUME NEW f \in LocatedFields, NEW elems, NEW others,
         \A c \in located_bits(f) : bit(elems, c) <=> bit(others, c)
  PROVE  reading(f, elems) = reading(f, others)
<1>1. \A k \in 1 .. Len(f.ats) : \A c \in f.ats[k].lsb .. f.ats[k].msb : bit(elems, c) <=> bit(others, c)
  BY BitIs
<1>2. ASSUME NEW x
      PROVE  x \in reading(f, elems) <=> x \in reading(f, others)
  <2>1. x \in reading(f, elems) <=>
          \E k \in 1 .. Len(f.ats) : \E c \in f.ats[k].lsb .. f.ats[k].msb : bit(elems, c) /\ x = spot(f.ats, k, c)
    BY ReadingIs
  <2>2. x \in reading(f, others) <=>
          \E k \in 1 .. Len(f.ats) : \E c \in f.ats[k].lsb .. f.ats[k].msb : bit(others, c) /\ x = spot(f.ats, k, c)
    BY ReadingIs
  <2>3. QED
    BY <1>1, <2>1, <2>2, Zenon
<1>3. QED
  BY <1>2, Zenon

\* A storage with the bits of a value in the locations of a field.
LEMMA ReadingOf ==
  ASSUME NEW f \in LocatedFields, NEW elems, NEW value \in SUBSET Nat,
         \A k \in 1 .. Len(f.ats) : \A c \in f.ats[k].lsb .. f.ats[k].msb :
           bit(elems, c) <=> spot(f.ats, k, c) \in value
  PROVE  reading(f, elems) = stored(f, value)
<1> DEFINE ats == f.ats
<1>1. ats \in Seq(Locations) /\ Len(ats) \in Nat
  BY LocatedIs
<1>2. ASSUME NEW x \in reading(f, elems) PROVE x \in stored(f, value)
  <2>1. PICK k \in 1 .. Len(ats) : \E c \in ats[k].lsb .. ats[k].msb : bit(elems, c) /\ x = spot(ats, k, c)
    BY <1>2, ReadingIs
  <2>2. PICK c \in ats[k].lsb .. ats[k].msb : bit(elems, c) /\ x = spot(ats, k, c)
    BY <2>1
  <2>3. x \in value /\ x \in 0 .. field_size(f) - 1
    BY <2>2, SpotIs
  <2>4. QED
    BY <2>3 DEF stored
<1>3. ASSUME NEW x \in stored(f, value) PROVE x \in reading(f, elems)
  <2>1. x \in value /\ x \in Nat /\ x < place(ats, 0)
    <3>1. field_size(f) = place(ats, 0) /\ place(ats, 0) \in Nat
      <4>1. 0 \in 0 .. Len(ats)
        BY <1>1
      <4>2. QED
        BY <1>1, <4>1, PlaceIs DEF field_size
    <3>2. x \in value /\ x \in 0 .. field_size(f) - 1
      BY DEF stored
    <3>3. QED
      BY <3>1, <3>2
  <2>2. PICK k \in 1 .. Len(ats) : place(ats, k) <= x /\ x < place(ats, k) + at_size(ats[k])
    BY <1>1, <2>1, PlaceOfBit
  <2> DEFINE c == ats[k].lsb + (x - place(ats, k))
  <2>3. ats[k].lsb \in Nat /\ ats[k].msb \in Nat /\ at_size(ats[k]) = ats[k].msb - ats[k].lsb + 1
    BY LocatedIs DEF at_size
  <2>4. place(ats, k) \in Nat
    <3>1. k \in 0 .. Len(ats)
      BY <1>1
    <3>2. QED
      BY <1>1, <3>1, PlaceIs
  <2>5. c \in ats[k].lsb .. ats[k].msb
    BY <2>1, <2>2, <2>3, <2>4
  <2>6. x = spot(ats, k, c)
    BY <2>1, <2>3, <2>4 DEF spot
  <2>7. QED
    <3> HIDE DEF c
    <3> QED BY <2>1, <2>5, <2>6, ReadingIs
<1>4. QED
  BY <1>2, <1>3

(***************************************************************************)
(* How far the writing of a field has come: the locations after left have  *)
(* their bits of the value, raw has those of the locations before, and in  *)
(* the location that is being written the bits below first are written and *)
(* the others are in rest.                                                 *)
(***************************************************************************)
DoneIn(elems, left, f, value) ==
  \A k \in left + 1 .. Len(f.ats) : \A c \in f.ats[k].lsb .. f.ats[k].msb :
    bit(elems, c) <=> spot(f.ats, k, c) \in value

RestIn(raw, left, f, value) == \A b \in Nat : b \in raw <=> b + place(f.ats, left) \in value

HereIn(elems, first, rest, k, f, value) ==
  \A c \in f.ats[k].lsb .. f.ats[k].msb :
    (IF c < first THEN bit(elems, c) ELSE c - first \in rest) <=> spot(f.ats, k, c) \in value

WritingInv ==
  insertion.left > 0 =>
    /\ DoneIn(storage, insertion.left, field, Head(queue).value)
    /\ RestIn(insertion.raw, IF insertion.busy THEN insertion.left - 1 ELSE insertion.left,
              field, Head(queue).value)
    /\ insertion.busy =>
         HereIn(storage, cur, insertion.value, insertion.left, field, Head(queue).value)

LEMMA WritingAfter ==
  ASSUME elem_size' = elem_size,
         insertion'.left > 0 =>
           /\ DoneIn(storage', insertion'.left, field', Head(queue').value)
           /\ RestIn(insertion'.raw, IF insertion'.busy THEN insertion'.left - 1 ELSE insertion'.left,
                     field', Head(queue').value)
           /\ insertion'.busy =>
                HereIn(storage', cur', insertion'.value, insertion'.left, field', Head(queue').value)
  PROVE  WritingInv'
  BY DEF WritingInv, DoneIn, RestIn, HereIn, bit

LEMMA BeginFieldWrites ==
  ASSUME InsertionInv, BeginField
  PROVE  WritingInv'
<1>1. /\ queue # <<>>
      /\ insertion' = [no_insertion EXCEPT !.left = Len(field.ats), !.raw = Head(queue).value]
      /\ UNCHANGED <<elem_size, queue, storage>>
  BY DEF BeginField
<1>2. insertion'.left = Len(field.ats) /\ insertion'.raw = Head(queue).value /\ ~insertion'.busy
  BY <1>1 DEF no_insertion
<1>3. field' = field
  BY <1>1 DEF field
<1>4. field \in LocatedFields
  BY <1>1, FieldIs
<1>5. field.ats \in Seq(Locations) /\ Len(field.ats) \in Nat
  BY <1>4, LocatedIs
<1>6. DoneIn(storage', Len(field.ats), field, Head(queue).value)
  BY <1>5 DEF DoneIn
<1>7. RestIn(Head(queue).value, Len(field.ats), field, Head(queue).value)
  <2>1. place(field.ats, Len(field.ats)) = 0
    BY <1>5, PlaceIs
  <2>2. QED
    BY <2>1 DEF RestIn
<1>8. QED
  BY <1>1, <1>2, <1>3, <1>6, <1>7, WritingAfter

LEMMA BeginLocatorWrites ==
  ASSUME InsertionInv, WritingInv, BeginLocator
  PROVE  WritingInv'
<1> DEFINE left == insertion.left
           value == Head(queue).value
           size == locator.size
           rest == insertion.raw \cap (0 .. size - 1)
           raw == ShiftedRight(insertion.raw, size)
<1>1. /\ queue # <<>> /\ left > 0 /\ ~insertion.busy
      /\ insertion' = [insertion EXCEPT !.busy = TRUE, !.lsb = locator.lsb, !.value = rest, !.raw = raw]
      /\ UNCHANGED <<elem_size, queue, storage>>
  BY DEF BeginLocator
<1>2. insertion \in InsertionStates
  BY DEF InsertionInv
<1> HIDE DEF rest, raw
<1>3. /\ insertion'.left = left /\ insertion'.raw = raw /\ insertion'.busy
      /\ insertion'.value = rest /\ insertion'.lsb = locator.lsb
  BY <1>1, <1>2 DEF InsertionStates
<1>4. field' = field /\ locator' = locator
  BY <1>1, <1>3 DEF field, locator
<1>5. /\ left \in 1 .. Len(field.ats) /\ target \in Locations /\ locator = locator_for(target)
      /\ field \in LocatedFields /\ target = field.ats[left]
  BY <1>1, LocationIs, FieldIs DEF target
<1>6. cur' = target.lsb /\ size \in Nat /\ size = at_size(target)
  <2>1. target.lsb = locator.index * 32 + locator.lsb /\ size \in Nat
    BY <1>5, LocatorIs
  <2>2. size = at_size(target)
    BY <1>5 DEF locator_for
  <2>3. cur' = locator.index * 32 + locator.lsb
    BY <1>3, <1>4 DEF cur
  <2>4. QED
    BY <2>1, <2>2, <2>3
<1>7. DoneIn(storage, left, field, value) /\ RestIn(insertion.raw, left, field, value)
  BY <1>1 DEF WritingInv
<1>8. /\ place(field.ats, left) \in Nat
      /\ place(field.ats, left - 1) = place(field.ats, left) + size
  <2>1. left \in 0 .. Len(field.ats) /\ field.ats \in Seq(Locations)
    BY <1>5, LocatedIs
  <2>2. QED
    BY <1>5, <1>6, <2>1, PlaceIs
<1>9. insertion.raw \in SUBSET Nat
  BY <1>2 DEF InsertionStates
<1> HIDE DEF size, left, value
<1>10. RestIn(raw, left - 1, field, value)
  <2> SUFFICES ASSUME NEW b \in Nat
               PROVE  b \in raw <=> b + place(field.ats, left - 1) \in value
    BY DEF RestIn
  <2>1. b \in raw <=> b + size \in insertion.raw
    <3>1. b \in raw <=> \E v \in insertion.raw : v >= size /\ b = v - size
      BY DEF raw, ShiftedRight
    <3>2. QED
      BY <1>6, <1>9, <3>1
  <2>2. b + size \in Nat /\ b + place(field.ats, left - 1) = (b + size) + place(field.ats, left)
    BY <1>6, <1>8
  <2>3. QED
    BY <1>7, <2>1, <2>2 DEF RestIn
<1>11. HereIn(storage, target.lsb, rest, left, field, value)
  <2> SUFFICES ASSUME NEW c \in target.lsb .. target.msb
               PROVE  (IF c < target.lsb THEN bit(storage, c) ELSE c - target.lsb \in rest)
                        <=> spot(field.ats, left, c) \in value
    BY <1>5 DEF HereIn
  <2>1. c \in Nat /\ target.lsb \in Nat /\ target.msb \in Nat /\ target.lsb <= c /\ c <= target.msb
    BY <1>5, SpotIs
  <2>2. c - target.lsb \in Nat /\ c - target.lsb \in 0 .. size - 1 /\ ~(c < target.lsb)
    BY <1>6, <2>1 DEF at_size
  <2>3. c - target.lsb \in rest <=> c - target.lsb \in insertion.raw
    BY <2>2 DEF rest, size
  <2>4. c - target.lsb \in insertion.raw <=> (c - target.lsb) + place(field.ats, left) \in value
    BY <1>7, <2>2 DEF RestIn
  <2>5. spot(field.ats, left, c) = (c - target.lsb) + place(field.ats, left)
    BY <1>5, <1>8, <2>2 DEF spot
  <2>6. QED
    BY <2>2, <2>3, <2>4, <2>5
<1>12. QED
  BY <1>1, <1>3, <1>4, <1>6, <1>7, <1>10, <1>11, WritingAfter DEF left, value

\* Bits of other locations are not written.
LEMMA OthersDone ==
  ASSUME InsertionInv, insertion.busy, LocationsApart(field), NEW elems, NEW value,
         NEW first, NEW last, NEW bits, first \in Nat, last \in Nat, target.lsb <= first, last <= target.msb,
         WrittenIn(elems, storage, first, last, bits),
         DoneIn(storage, insertion.left, field, value)
  PROVE  DoneIn(elems, insertion.left, field, value)
<1>1. /\ insertion.left \in 1 .. Len(field.ats) /\ field \in LocatedFields
      /\ target.lsb \in Nat /\ target.msb \in Nat
  BY WrittenPart
<1> SUFFICES ASSUME NEW k \in insertion.left + 1 .. Len(field.ats),
                    NEW c \in field.ats[k].lsb .. field.ats[k].msb
             PROVE  bit(elems, c) <=> spot(field.ats, k, c) \in value
  BY DEF DoneIn
<1>2. k \in 1 .. Len(field.ats) /\ k # insertion.left
  <2>1. Len(field.ats) \in Nat
    BY <1>1, LocatedIs
  <2>2. QED
    BY <1>1, <2>1
<1>3. /\ c \in Nat /\ field.ats[k].lsb \in Nat /\ field.ats[k].msb \in Nat
      /\ field.ats[k].lsb <= c /\ c <= field.ats[k].msb
  BY <1>1, <1>2, SpotIs
<1>4. field.ats[k].msb < target.lsb \/ target.msb < field.ats[k].lsb
  <2>1. k \in DOMAIN field.ats /\ insertion.left \in DOMAIN field.ats
    BY <1>1, <1>2, LocatedIs
  <2>2. QED
    BY <1>2, <2>1 DEF LocationsApart, target
<1>5. ~(first <= c /\ c <= last)
  BY <1>1, <1>3, <1>4
<1>6. bit(elems, c) <=> bit(storage, c)
  BY <1>3, <1>5 DEF WrittenIn
<1>7. bit(storage, c) <=> spot(field.ats, k, c) \in value
  BY DEF DoneIn
<1>8. QED
  BY <1>6, <1>7

LEMMA InsertPartContinues ==
  ASSUME InsertionInv, WritingInv, LocationsApart(field), InsertFirst \/ InsertBetween,
         current_idx \in DOMAIN storage
  PROVE  WritingInv'
<1> DEFINE left == insertion.left
           value == Head(queue).value
           numbits == elem_size - lsb_in_element
           rest == ShiftedRight(insertion.value, numbits)
<1>1. insertion.busy /\ current_idx # max_idx(locator, elem_size) /\ InsertPart(numbits)
  BY InsertPartKeepsInsertion
<1>2. /\ insertion' = [insertion EXCEPT !.lsb = insertion.lsb + numbits, !.value = rest]
      /\ UNCHANGED <<elem_size, queue>>
  BY <1>1 DEF InsertPart
<1>3. insertion \in InsertionStates /\ left > 0
  BY <1>1 DEF InsertionInv
<1> HIDE DEF rest, numbits
<1>4. /\ insertion'.left = left /\ insertion'.raw = insertion.raw /\ insertion'.busy
      /\ insertion'.value = rest /\ insertion'.lsb = insertion.lsb + numbits
  BY <1>1, <1>2, <1>3 DEF InsertionStates
<1>5. field' = field /\ locator' = locator
  BY <1>2, <1>4 DEF field, locator
<1>6. /\ elem_size \in WholeElements /\ lsb_in_element \in 0 .. elem_size - 1
      /\ left \in 1 .. Len(field.ats) /\ field \in LocatedFields
      /\ cur \in Nat /\ target.lsb \in Nat /\ target.msb \in Nat /\ target.lsb <= cur
      /\ insertion.value \subseteq 0 .. target.msb - cur
      /\ cur + numbits <= target.msb
  BY <1>1, WrittenPart DEF numbits
<1>7. numbits \in Nat /\ numbits > 0
  BY <1>6 DEF numbits, WholeElements
<1>8. cur' = cur + numbits
  <2>1. cur' = locator.index * 32 + (insertion.lsb + numbits) /\ cur = locator.index * 32 + insertion.lsb
    BY <1>4, <1>5 DEF cur
  <2>2. locator.index \in Nat /\ insertion.lsb \in Nat
    <3>1. target \in Locations /\ locator = locator_for(target)
      BY <1>3, LocationIs DEF target
    <3>2. QED
      BY <1>3, <3>1, LocatorIs DEF InsertionStates
  <2>3. QED
    BY <1>7, <2>1, <2>2
<1>9. /\ DoneIn(storage, left, field, value) /\ RestIn(insertion.raw, left - 1, field, value)
      /\ HereIn(storage, cur, insertion.value, left, field, value)
  BY <1>1, <1>3 DEF WritingInv
<1>10. WrittenIn(storage', storage, cur, cur + numbits - 1, insertion.value)
  BY PartWrites DEF numbits
<1> HIDE DEF value
<1>11. DoneIn(storage', left, field, value)
  <2>1. cur + numbits - 1 \in Nat /\ cur + numbits - 1 <= target.msb
    BY <1>6, <1>7
  <2>2. QED
    BY <1>1, <1>6, <1>9, <1>10, <2>1, OthersDone
<1>12. HereIn(storage', cur + numbits, rest, left, field, value)
  <2> SUFFICES ASSUME NEW c \in target.lsb .. target.msb
               PROVE  (IF c < cur + numbits THEN bit(storage', c) ELSE c - (cur + numbits) \in rest)
                        <=> spot(field.ats, left, c) \in value
    BY DEF HereIn, target
  <2>1. c \in Nat
    BY <1>6
  <2>2. (IF c < cur THEN bit(storage, c) ELSE c - cur \in insertion.value)
          <=> spot(field.ats, left, c) \in value
    BY <1>9 DEF HereIn, target
  <2>3. bit(storage', c) <=>
          IF cur <= c /\ c <= cur + numbits - 1 THEN c - cur \in insertion.value ELSE bit(storage, c)
    BY <1>10, <2>1 DEF WrittenIn
  <2>4. CASE c < cur
    BY <1>6, <1>7, <2>1, <2>2, <2>3, <2>4
  <2>5. CASE ~(c < cur) /\ c < cur + numbits
    BY <1>6, <1>7, <2>1, <2>2, <2>3, <2>5
  <2>6. CASE ~(c < cur + numbits)
    <3>1. c - (cur + numbits) \in rest <=> \E v \in insertion.value : v >= numbits /\ c - (cur + numbits) = v - numbits
      BY DEF rest, ShiftedRight
    <3>2. \A v \in insertion.value : v \in Nat
      BY <1>6
    <3>3. c - (cur + numbits) \in rest <=> c - cur \in insertion.value
      <4>1. \A v \in Nat : c - (cur + numbits) = v - numbits <=> v = c - cur
        BY <1>6, <1>7, <2>1
      <4>2. c - cur >= numbits
        BY <1>6, <1>7, <2>1, <2>6
      <4>3. QED
        BY <3>1, <3>2, <4>1, <4>2
    <3>4. ~(c < cur)
      BY <1>6, <1>7, <2>1, <2>6
    <3>5. QED
      BY <2>2, <2>6, <3>3, <3>4
  <2>7. QED
    BY <2>4, <2>5, <2>6
<1>13. QED
  BY <1>1, <1>2, <1>4, <1>5, <1>8, <1>9, <1>11, <1>12, WritingAfter DEF left, value

\* The last element of a location: it is as the value has it.
LEMMA InsertLastDone ==
  ASSUME InsertionInv, WritingInv, LocationsApart(field), InsertLast, current_idx \in DOMAIN storage
  PROVE  DoneIn(storage', insertion.left - 1, field, Head(queue).value)
<1> DEFINE left == insertion.left
           value == Head(queue).value
<1>1. insertion.busy /\ current_idx = max_idx(locator, elem_size) /\ left > 0
  BY DEF InsertLast, InsertionInv
<1>2. /\ left \in 1 .. Len(field.ats) /\ field \in LocatedFields
      /\ cur \in Nat /\ target.lsb \in Nat /\ target.msb \in Nat /\ target.lsb <= cur
  BY <1>1, WrittenPart
<1>3. DoneIn(storage, left, field, value) /\ HereIn(storage, cur, insertion.value, left, field, value)
  BY <1>1 DEF WritingInv
<1>4. WrittenIn(storage', storage, cur, target.msb, insertion.value)
  BY LastWrites
<1> HIDE DEF value
<1>5. DoneIn(storage', left, field, value)
  BY <1>1, <1>2, <1>3, <1>4, OthersDone
<1>6. \A c \in field.ats[left].lsb .. field.ats[left].msb :
        bit(storage', c) <=> spot(field.ats, left, c) \in value
  <2> SUFFICES ASSUME NEW c \in target.lsb .. target.msb
               PROVE  bit(storage', c) <=> spot(field.ats, left, c) \in value
    BY DEF target
  <2>1. c \in Nat /\ c <= target.msb
    BY <1>2
  <2>2. (IF c < cur THEN bit(storage, c) ELSE c - cur \in insertion.value)
          <=> spot(field.ats, left, c) \in value
    BY <1>3 DEF HereIn, target
  <2>3. bit(storage', c) <=>
          IF cur <= c /\ c <= target.msb THEN c - cur \in insertion.value ELSE bit(storage, c)
    BY <1>4, <2>1 DEF WrittenIn
  <2>4. cur <= c <=> ~(c < cur)
    BY <1>2, <2>1
  <2>5. QED
    BY <2>1, <2>2, <2>3, <2>4
<1>7. \A k \in (left - 1) + 1 .. Len(field.ats) : k = left \/ k \in left + 1 .. Len(field.ats)
  <2>1. Len(field.ats) \in Nat
    BY <1>2, LocatedIs
  <2>2. QED
    BY <1>2, <2>1
<1>8. DoneIn(storage', left - 1, field, value)
  BY <1>5, <1>6, <1>7 DEF DoneIn
<1>9. QED
  BY <1>8 DEF value

LEMMA InsertLastContinues ==
  ASSUME InsertionInv, WritingInv, LocationsApart(field), InsertLast, current_idx \in DOMAIN storage
  PROVE  WritingInv'
<1>1. /\ insertion.busy /\ elem_size' = elem_size
      /\ insertion' = IF insertion.left = 1 THEN no_insertion ELSE AfterLocator
      /\ queue' = IF insertion.left = 1 THEN Tail(queue) ELSE queue
  BY DEF InsertLast
<1>2. insertion.left > 0 /\ insertion \in InsertionStates
  BY <1>1 DEF InsertionInv
<1>3. CASE insertion.left = 1
  <2>1. insertion'.left = 0
    BY <1>1, <1>3 DEF no_insertion
  <2>2. QED
    BY <1>1, <2>1, WritingAfter
<1>4. CASE insertion.left # 1
  <2>1. queue' = queue /\ insertion' = AfterLocator
    BY <1>1, <1>4
  <2>2. insertion'.left = insertion.left - 1 /\ insertion'.raw = insertion.raw /\ ~insertion'.busy
    BY <1>2, <2>1 DEF AfterLocator, InsertionStates
  <2>3. field' = field
    BY <2>1 DEF field
  <2>4. RestIn(insertion.raw, insertion.left - 1, field, Head(queue).value)
    BY <1>1, <1>2 DEF WritingInv
  <2>5. DoneIn(storage', insertion.left - 1, field, Head(queue).value)
    BY InsertLastDone
  <2>6. QED
    BY <1>1, <2>1, <2>2, <2>3, <2>4, <2>5, WritingAfter
<1>5. QED
  BY <1>3, <1>4

\* The first bit of element n.
start_of(n) == n * elem_size

LEMMA StartIs ==
  ASSUME elem_size \in WholeElements
  PROVE  /\ elem_size \in Nat \ {0}
         /\ \A n \in Nat : start_of(n) \in Nat /\ start_of(n + 1) = start_of(n) + elem_size
         /\ \A n, m \in Nat : n < m => start_of(n) + elem_size <= start_of(m)
         /\ \A n \in Nat : \A b \in 0 .. elem_size - 1 :
              \A elems : bit(elems, start_of(n) + b) <=> n \in DOMAIN elems /\ b \in elems[n]
<1>1. ASSUME elem_size \in {8, 16, 32}
      PROVE  /\ elem_size \in Nat \ {0}
             /\ \A n \in Nat : n * elem_size \in Nat /\ (n + 1) * elem_size = n * elem_size + elem_size
             /\ \A n, m \in Nat : n < m => n * elem_size + elem_size <= m * elem_size
  <2>1. CASE elem_size = 8
    BY <2>1
  <2>2. CASE elem_size = 16
    BY <2>2
  <2>3. CASE elem_size = 32
    BY <2>3
  <2>4. QED
    BY <1>1, <2>1, <2>2, <2>3
<1>2. ASSUME NEW n \in Nat, NEW b \in 0 .. elem_size - 1, NEW elems
      PROVE  bit(elems, n * elem_size + b) <=> n \in DOMAIN elems /\ b \in elems[n]
  <2> DEFINE c == n * elem_size + b
  <2>1. c \in Nat
    BY <1>1 DEF WholeElements
  <2>2. c \div elem_size = n /\ c % elem_size = b
    BY <2>1, ElementOf
  <2> HIDE DEF c
  <2>3. bit(elems, c) <=> n \in DOMAIN elems /\ b \in elems[n]
    BY <2>2 DEF bit
  <2>4. QED
    BY <2>3 DEF c
<1>3. QED
  BY <1>1, <1>2 DEF start_of, WholeElements

\* The numbers of a range, each of which has the one after it as a part.
Following(low, high) == [n \in low .. high |-> IF n = high THEN {} ELSE {n + 1}]

LEMMA ToLastParted ==
  ASSUME NEW low \in Nat, NEW high \in Nat
  PROVE  Parted(low .. high, [n \in low .. high |-> high - n], Following(low, high))
  BY DEF Parted, Following

\* bits_locator_t::extract yields the bits of the location one by one.
LEMMA ExtractBitsIs ==
  ASSUME elem_size \in WholeElements, NEW location \in Locations,
         \A e \in min_idx(locator_for(location), elem_size) .. max_idx(locator_for(location), elem_size) :
           e \in DOMAIN storage /\ storage[e] \subseteq 0 .. elem_size - 1
  PROVE  extract_bits(locator_for(location)) = bits_at(location, storage)
<1> DEFINE l == locator_for(location)
           first == min_idx(l, elem_size)
           last == max_idx(l, elem_size)
           top == (l.lsb + l.size - 1) % elem_size
           shift == l.lsb % elem_size
           masked == storage[last] \cap (0 .. top)
           body(g) == [n \in first + 1 .. last |->
                         IF n = last THEN masked ELSE ShiftedLeft(g[n + 1], elem_size) \cup storage[n]]
           down_to == CHOOSE g : g = body(g)
           above == [n \in first + 1 .. last |->
                       {x \in Nat : start_of(n) + x <= location.msb /\ bit(storage, start_of(n) + x)}]
<1>1. extract_bits(l) =
        IF first = last THEN ShiftedRight(masked, shift)
        ELSE ShiftedLeft(down_to[first + 1], elem_size - shift) \cup ShiftedRight(storage[first], shift)
  BY DEF extract_bits
<1>2. /\ l.index \in Nat /\ l.lsb \in Nat /\ l.size \in Nat \ {0}
      /\ location.lsb = l.index * 32 + l.lsb /\ location.msb = l.index * 32 + last_bit(l)
      /\ location.lsb \in Nat /\ location.msb \in Nat /\ location.lsb <= location.msb
  BY LocatorIs DEF Locations
<1>3. /\ first = (l.index * 32) \div elem_size + l.lsb \div elem_size
      /\ last = (l.index * 32) \div elem_size + last_bit(l) \div elem_size
      /\ top = last_bit(l) % elem_size
  BY DEF min_idx, max_idx, element, last_bit
<1>4. last_bit(l) \in Nat /\ l.lsb <= last_bit(l)
  BY <1>2 DEF last_bit
<1>5. \A e \in first .. last : e \in DOMAIN storage /\ storage[e] \subseteq 0 .. elem_size - 1
  OBVIOUS
<1> HIDE DEF l
<1>6. first \in Nat /\ last \in Nat /\ first <= last
  <2>1. CASE elem_size = 8
    BY <1>2, <1>3, <1>4, <2>1
  <2>2. CASE elem_size = 16
    BY <1>2, <1>3, <1>4, <2>2
  <2>3. CASE elem_size = 32
    BY <1>2, <1>3, <1>4, <2>3
  <2>4. QED
    BY <2>1, <2>2, <2>3 DEF WholeElements
<1>7. /\ shift \in 0 .. elem_size - 1 /\ top \in 0 .. elem_size - 1
      /\ location.lsb = start_of(first) + shift /\ location.msb = start_of(last) + top
  <2>1. /\ ((l.index * 32) \div elem_size + l.lsb \div elem_size) * elem_size
             = l.index * 32 + l.lsb - (l.lsb % elem_size)
        /\ ((l.index * 32) \div elem_size + last_bit(l) \div elem_size) * elem_size
             = l.index * 32 + last_bit(l) - (last_bit(l) % elem_size)
    BY <1>2, <1>4, ElementArithmetic
  <2>2. /\ start_of(first) = l.index * 32 + l.lsb - shift
        /\ start_of(last) = l.index * 32 + last_bit(l) - top
    BY <1>3, <2>1 DEF start_of
  <2>3. shift \in 0 .. elem_size - 1 /\ top \in 0 .. elem_size - 1 /\ elem_size \in Nat
    BY <1>2, <1>3, <1>4, ElementOf
  <2> HIDE DEF first, last, shift, top
  <2>4. QED
    BY <1>2, <1>4, <2>2, <2>3
<1> HIDE DEF first, last, top, shift
<1>8. /\ elem_size \in Nat \ {0}
      /\ \A n \in Nat : start_of(n) \in Nat /\ start_of(n + 1) = start_of(n) + elem_size
      /\ \A n, m \in Nat : n < m => start_of(n) + elem_size <= start_of(m)
      /\ \A n \in first .. last : \A b \in 0 .. elem_size - 1 :
           bit(storage, start_of(n) + b) <=> b \in storage[n]
  <2>1. \A n \in first .. last : n \in Nat /\ n \in DOMAIN storage
    BY <1>5, <1>6
  <2>2. QED
    BY <2>1, StartIs
<1>19. /\ start_of(first) \in Nat /\ start_of(last) \in Nat /\ shift \in Nat /\ top \in Nat
       /\ elem_size \in Nat /\ elem_size > 0 /\ shift < elem_size /\ top < elem_size
       /\ location.lsb = start_of(first) + shift /\ location.msb = start_of(last) + top
  BY <1>6, <1>7, <1>8
<1>9. \A x : x \in masked <=> x \in 0 .. top /\ bit(storage, start_of(last) + x)
  <2>1. last \in first .. last /\ \A x \in 0 .. top : x \in 0 .. elem_size - 1
    BY <1>6, <1>7, <1>8
  <2>2. QED
    BY <1>8, <2>1
<1> HIDE DEF masked
<1>10. ASSUME NEW n \in first + 1 .. last, NEW x
       PROVE  x \in above[n] <=> x \in Nat /\ start_of(n) + x <= location.msb /\ bit(storage, start_of(n) + x)
  OBVIOUS
<1>11. \A n \in first + 1 .. last : n \in Nat /\ n \in first .. last /\ n - 1 \in Nat
  BY <1>6
<1>12. above = [n \in first + 1 .. last |-> above[n]]
  OBVIOUS
<1> HIDE DEF above
<1>13. ASSUME NEW n \in first + 1 .. last
       PROVE  above[n] = IF n = last THEN masked ELSE ShiftedLeft(above[n + 1], elem_size) \cup storage[n]
  <2>1. start_of(n) \in Nat
    BY <1>8, <1>11
  <2>2. CASE n = last
    <3>1. ASSUME NEW x PROVE x \in above[n] <=> x \in masked
      <4>1. x \in Nat /\ start_of(n) + x <= location.msb <=> x \in 0 .. top
        <5> HIDE DEF above
        <5>1. \A b \in Nat : start_of(last) + b <= start_of(last) + top <=> b <= top
          BY <1>19
        <5>2. location.msb = start_of(n) + top /\ start_of(n) = start_of(last)
          BY <1>19, <2>2
        <5>3. x \in 0 .. top <=> x \in Nat /\ x <= top
          BY <1>19
        <5>4. QED
          BY <5>1, <5>2, <5>3
      <4>2. QED
        BY <1>9, <1>10, <2>2, <4>1
    <3>2. QED
      BY <2>2, <3>1
  <2>3. CASE n # last
    <3>1. n + 1 \in first + 1 .. last /\ n < last /\ n \in first .. last
      BY <1>6, <2>3
    <3>2. /\ start_of(n + 1) = start_of(n) + elem_size
          /\ start_of(n) + elem_size <= start_of(last) /\ start_of(last) \in Nat
      BY <1>6, <1>8, <1>11, <3>1
    <3>3. storage[n] \subseteq 0 .. elem_size - 1
      BY <1>5, <3>1
    <3>4. ASSUME NEW x \in above[n] PROVE x \in ShiftedLeft(above[n + 1], elem_size) \cup storage[n]
      <4>1. x \in Nat /\ start_of(n) + x <= location.msb /\ bit(storage, start_of(n) + x)
        BY <1>10
      <4>2. CASE x < elem_size
        <5>1. x \in 0 .. elem_size - 1
          BY <1>8, <4>1, <4>2
        <5>2. QED
          BY <1>8, <3>1, <4>1, <5>1
      <4>3. CASE ~(x < elem_size)
        <5>1. x - elem_size \in Nat /\ start_of(n + 1) + (x - elem_size) = start_of(n) + x
          <6>1. start_of(n + 1) = start_of(n) + elem_size /\ x \in Nat
            BY <3>2, <4>1
          <6>2. QED
            BY <1>19, <2>1, <4>3, <6>1
        <5>2. x - elem_size \in above[n + 1]
          BY <1>10, <3>1, <4>1, <5>1
        <5>3. x = (x - elem_size) + elem_size
          BY <1>8, <4>1
        <5>4. QED
          BY <5>2, <5>3 DEF ShiftedLeft
      <4>4. QED
        BY <4>2, <4>3
    <3>5. ASSUME NEW z \in above[n + 1] PROVE z + elem_size \in above[n]
      <4>1. z \in Nat /\ start_of(n + 1) + z <= location.msb /\ bit(storage, start_of(n + 1) + z)
        BY <1>10, <3>1
      <4>2. start_of(n + 1) + z = start_of(n) + (z + elem_size) /\ z + elem_size \in Nat
        BY <1>8, <2>1, <3>2, <4>1
      <4>3. QED
        BY <1>10, <4>1, <4>2
    <3>6. ASSUME NEW x \in storage[n] PROVE x \in above[n]
      <4>1. x \in 0 .. elem_size - 1 /\ x \in Nat
        <5>1. x \in 0 .. elem_size - 1
          BY <3>3
        <5>2. QED
          BY <1>19, <5>1
      <4>2. bit(storage, start_of(n) + x)
        BY <1>8, <3>1, <4>1
      <4>3. start_of(n) + x <= location.msb
        BY <1>19, <2>1, <3>2, <4>1
      <4>4. QED
        BY <1>10, <4>1, <4>2, <4>3
    <3>7. above[n] = ShiftedLeft(above[n + 1], elem_size) \cup storage[n]
      BY <3>4, <3>5, <3>6 DEF ShiftedLeft
    <3>8. QED
      BY <2>3, <3>7
  <2>4. QED
    BY <2>2, <2>3
<1>14. above = body(above)
  BY <1>12, <1>13
<1>15. down_to = body(down_to)
  <2> HIDE DEF body
  <2> QED BY <1>14
<1>16. ASSUME NEW n \in first + 1 .. last
       PROVE  down_to[n] = IF n = last THEN masked ELSE ShiftedLeft(down_to[n + 1], elem_size) \cup storage[n]
  <2> HIDE DEF down_to
  <2> QED BY <1>15
<1> HIDE DEF down_to, body
<1>17. \A n \in first + 1 .. last : down_to[n] = above[n]
  <2> DEFINE low == first + 1
             X == low .. last
             height == [n \in low .. last |-> last - n]
             after == Following(low, last)
  <2>1. Parted(X, height, after)
    BY <1>6, ToLastParted
  <2>2. ASSUME NEW n \in X
        PROVE  (\A c \in after[n] : down_to[c] = above[c]) => down_to[n] = above[n]
    <3> SUFFICES ASSUME \A c \in after[n] : down_to[c] = above[c]
                 PROVE  down_to[n] = above[n]
      OBVIOUS
    <3>1. CASE n = last
      BY <1>13, <1>16, <3>1
    <3>2. CASE n # last
      <4>1. after[n] = {n + 1}
        BY <3>2 DEF Following
      <4>2. down_to[n + 1] = above[n + 1]
        BY <4>1
      <4>3. QED
        BY <1>13, <1>16, <3>2, <4>2
    <3>3. QED
      BY <3>1, <3>2
  <2>3. \A n \in X : (\A c \in after[n] : down_to[c] = above[c]) => down_to[n] = above[n]
    BY <2>2
  <2>4. \A n \in X : down_to[n] = above[n]
    <3> HIDE DEF X, height, after
    <3> QED BY <2>1, <2>3, RecursionAgrees
  <2>5. QED
    BY <2>4
<1>18. ASSUME NEW y
       PROVE  y \in bits_at(location, storage) <=> \E c \in location.lsb .. location.msb : bit(storage, c) /\ y = c - location.lsb
  BY DEF bits_at
<1>20. CASE first = last
  <2>1. ASSUME NEW y PROVE y \in ShiftedRight(masked, shift) <=> y \in bits_at(location, storage)
    <3>1. y \in ShiftedRight(masked, shift) <=> \E x \in masked : x >= shift /\ y = x - shift
      BY DEF ShiftedRight
    <3>2. ASSUME NEW x \in masked, x >= shift, y = x - shift PROVE y \in bits_at(location, storage)
      <4>1. x \in 0 .. top /\ bit(storage, start_of(last) + x)
        BY <1>9
      <4> DEFINE c == start_of(last) + x
      <4>2. c \in location.lsb .. location.msb /\ y = c - location.lsb
        BY <1>2, <1>7, <1>19, <1>20, <3>2, <4>1
      <4> HIDE DEF c
      <4>3. bit(storage, c)
        BY <4>1 DEF c
      <4>4. QED
        BY <1>18, <4>2, <4>3
    <3>3. ASSUME NEW c \in location.lsb .. location.msb, bit(storage, c), y = c - location.lsb
          PROVE  \E x \in masked : x >= shift /\ y = x - shift
      <4> DEFINE x == c - start_of(last)
      <4>1. x \in 0 .. top /\ x >= shift /\ y = x - shift /\ start_of(last) + x = c
        BY <1>2, <1>7, <1>19, <1>20, <3>3
      <4> HIDE DEF x
      <4>2. x \in masked
        BY <1>9, <3>3, <4>1
      <4>3. QED
        BY <4>1, <4>2
    <3>4. QED
      BY <1>18, <3>1, <3>2, <3>3
  <2>2. QED
    BY <1>1, <1>20, <2>1 DEF l
<1>21. CASE first # last
  <2>1. first + 1 \in first + 1 .. last /\ first \in first .. last /\ first < last
    BY <1>6, <1>21
  <2>2. /\ start_of(first + 1) = start_of(first) + elem_size
        /\ start_of(first) + elem_size <= start_of(last)
    BY <1>6, <1>8, <2>1
  <2>3. down_to[first + 1] = above[first + 1]
    BY <1>17, <2>1
  <2>4. storage[first] \subseteq 0 .. elem_size - 1
    BY <1>5, <2>1
  <2>5. ASSUME NEW x \in above[first + 1] PROVE x + (elem_size - shift) \in bits_at(location, storage)
    <3>1. x \in Nat /\ start_of(first + 1) + x <= location.msb /\ bit(storage, start_of(first + 1) + x)
      BY <1>10, <2>1
    <3> DEFINE c == start_of(first + 1) + x
    <3>2. c \in location.lsb .. location.msb /\ x + (elem_size - shift) = c - location.lsb
      BY <1>2, <1>19, <2>2, <3>1
    <3>3. bit(storage, c)
      BY <3>1
    <3> HIDE DEF c
    <3>4. QED
      BY <1>18, <3>2, <3>3
  <2>6. ASSUME NEW x \in storage[first], x >= shift PROVE x - shift \in bits_at(location, storage)
    <3>1. x \in 0 .. elem_size - 1
      BY <2>4
    <3> DEFINE c == start_of(first) + x
    <3>2. c \in location.lsb .. location.msb /\ x - shift = c - location.lsb
      BY <1>2, <1>19, <2>2, <2>6, <3>1
    <3>3. bit(storage, c)
      BY <1>8, <2>1, <3>1
    <3> HIDE DEF c
    <3>4. QED
      BY <1>18, <3>2, <3>3
  <2>7. ASSUME NEW c \in location.lsb .. location.msb, bit(storage, c)
        PROVE  \/ \E x \in above[first + 1] : c - location.lsb = x + (elem_size - shift)
               \/ \E x \in storage[first] : x >= shift /\ c - location.lsb = x - shift
    <3>1. c \in Nat /\ location.lsb <= c /\ c <= location.msb
      BY <1>2
    <3>2. CASE c < start_of(first) + elem_size
      <4> DEFINE x == c - start_of(first)
      <4>1. x \in 0 .. elem_size - 1 /\ x >= shift /\ c - location.lsb = x - shift /\ start_of(first) + x = c
        BY <1>2, <1>19, <3>1, <3>2
      <4> HIDE DEF x
      <4>2. x \in storage[first]
        BY <1>8, <2>1, <2>7, <4>1
      <4>3. QED
        BY <4>1, <4>2
    <3>3. CASE ~(c < start_of(first) + elem_size)
      <4> DEFINE x == c - start_of(first + 1)
      <4>1. x \in Nat /\ c - location.lsb = x + (elem_size - shift) /\ start_of(first + 1) + x = c
        BY <1>2, <1>19, <2>2, <3>1, <3>3
      <4> HIDE DEF x
      <4>2. x \in above[first + 1]
        BY <1>10, <2>1, <2>7, <3>1, <4>1
      <4>3. QED
        BY <4>1, <4>2
    <3>4. QED
      BY <3>2, <3>3
  <2> DEFINE high == ShiftedLeft(above[first + 1], elem_size - shift)
             low == ShiftedRight(storage[first], shift)
  <2>8. ASSUME NEW y \in high \cup low PROVE y \in bits_at(location, storage)
    <3>1. CASE y \in high
      BY <2>5, <3>1 DEF ShiftedLeft
    <3>2. CASE y \in low
      BY <2>6, <3>2 DEF ShiftedRight
    <3>3. QED
      BY <3>1, <3>2
  <2>9. ASSUME NEW y \in bits_at(location, storage) PROVE y \in high \cup low
    <3>1. PICK c \in location.lsb .. location.msb : bit(storage, c) /\ y = c - location.lsb
      BY <1>18
    <3>2. \/ \E x \in above[first + 1] : y = x + (elem_size - shift)
          \/ \E x \in storage[first] : x >= shift /\ y = x - shift
      BY <2>7, <3>1
    <3>3. QED
      BY <3>2 DEF ShiftedLeft, ShiftedRight
  <2>10. extract_bits(l) = high \cup low
    BY <1>1, <1>21, <2>3
  <2> HIDE DEF high, low
  <2>11. QED
    BY <2>8, <2>9, <2>10 DEF l
<1>22. QED
  BY <1>20, <1>21

\* The elements have no more bits than they may.
TypedElements(elems) == \A e \in DOMAIN elems : elems[e] \subseteq 0 .. elem_size - 1

TypedInv == phase = "insert" => TypedElements(storage)

LEMMA TypedInit == StorageInit => TypedInv
  BY DEF StorageInit, TypedInv

LEMMA TypedStep ==
  ASSUME InsertionInv, TypedInv, [StorageNext]_storage_vars
  PROVE  TypedInv'
<1>1. CASE Extend \/ Pack \/ Overlay \/ Relax \/ Rename
  <2>1. phase' = "define"
    BY <1>1 DEF Extend, Pack, Overlay, Relax, Rename, Define, InsertionInv
  <2>2. QED
    BY <2>1 DEF TypedInv
<1>2. CASE Own
  <2>1. PICK n : storage' = [e \in 0 .. n - 1 |-> {}]
    BY <1>2 DEF Own, Construct
  <2>2. QED
    BY <2>1 DEF TypedInv, TypedElements
<1>3. CASE View
  <2>1. PICK n, elem : storage' = [e \in 0 .. n - 1 |-> elem \cap (0 .. elem_size - 1)]
    BY <1>3 DEF View, Construct
  <2>2. elem_size' = elem_size
    BY <1>3 DEF View, Construct
  <2>3. QED
    BY <2>1, <2>2 DEF TypedInv, TypedElements
<1>4. CASE OwnCopy
  <2>0. PICK n_brought \in Lengths, n \in Sizes, elem \in Brought :
          Construct([e \in 0 .. n - 1 |-> IF e < n_brought THEN elem \cap (0 .. elem_size - 1) ELSE {}], <<>>)
    BY <1>4 DEF OwnCopy
  <2>1. storage' = [e \in 0 .. n - 1 |-> IF e < n_brought THEN elem \cap (0 .. elem_size - 1) ELSE {}]
    BY <2>0 DEF Construct
  <2>2. elem_size' = elem_size
    BY <2>0 DEF Construct
  <2>3. QED
    BY <2>1, <2>2 DEF TypedInv, TypedElements
<1>5. CASE UNCHANGED <<phase, elem_size, storage>>
  BY <1>5 DEF TypedInv, TypedElements
<1>6. CASE Set \/ SetDefault \/ BeginField \/ BeginLocator
  BY <1>5, <1>6 DEF Set, SetDefault, BeginField, BeginLocator
<1>7. ASSUME NEW new, storage' = [storage EXCEPT ![current_idx] = new], new \subseteq 0 .. elem_size - 1,
             UNCHANGED <<phase, elem_size>>
      PROVE  TypedInv'
  <2> SUFFICES ASSUME phase = "insert", NEW e \in DOMAIN storage
               PROVE  storage'[e] \subseteq 0 .. elem_size - 1
    BY <1>7 DEF TypedInv, TypedElements
  <2>1. storage[e] \subseteq 0 .. elem_size - 1
    BY DEF TypedInv, TypedElements
  <2>2. storage'[e] = IF e = current_idx THEN new ELSE storage[e]
    BY <1>7
  <2>3. QED
    BY <1>7, <2>1, <2>2
<1>8. insertion.busy => phase = "insert"
  BY DEF InsertionInv, no_insertion
<1>9. CASE InsertLast
  <2> DEFINE new == leftover(storage[current_idx], msb_in_element, lsb_in_element)
                      \cup Cut(ShiftedLeft(insertion.value, lsb_in_element))
  <2>1. storage' = [storage EXCEPT ![current_idx] = new] /\ UNCHANGED <<phase, elem_size>>
    BY <1>9 DEF InsertLast
  <2>2. CASE current_idx \in DOMAIN storage
    <3>1. storage[current_idx] \subseteq 0 .. elem_size - 1
      BY <1>8, <1>9, <2>2 DEF TypedInv, TypedElements, InsertLast
    <3>2. new \subseteq 0 .. elem_size - 1
      BY <3>1 DEF leftover, Cut
    <3> HIDE DEF new
    <3>3. QED
      BY <1>7, <2>1, <3>2
  <2>3. CASE current_idx \notin DOMAIN storage
    <3> HIDE DEF new
    <3>1. DOMAIN storage' = DOMAIN storage /\ \A e \in DOMAIN storage : storage'[e] = storage[e]
      BY <2>1, <2>3
    <3>2. QED
      BY <2>1, <3>1 DEF TypedInv, TypedElements
  <2>4. QED
    BY <2>2, <2>3
<1>10. CASE InsertFirst \/ InsertBetween
  <2> DEFINE numbits == elem_size - lsb_in_element
             part == ShiftedLeft(value_part(insertion.value, numbits), elem_size - numbits)
             new == leftover(storage[current_idx], elem_size - 1, elem_size - numbits) \cup part
  <2>1. /\ insertion.busy /\ storage' = [storage EXCEPT ![current_idx] = new]
        /\ UNCHANGED <<phase, elem_size>>
    BY <1>10, InsertPartKeepsInsertion DEF InsertPart
  <2>2. lsb_in_element \in 0 .. elem_size - 1 /\ elem_size \in Nat
    BY <2>1, PartOfLocation
  <2>3. part \subseteq 0 .. elem_size - 1
    <3> SUFFICES ASSUME NEW v \in insertion.value, v \in 0 .. numbits - 1
                 PROVE  v + (elem_size - numbits) \in 0 .. elem_size - 1
      BY DEF ShiftedLeft, value_part
    <3>1. QED
      BY <2>2
  <2>4. CASE current_idx \in DOMAIN storage
    <3>1. storage[current_idx] \subseteq 0 .. elem_size - 1
      BY <1>8, <2>1, <2>4 DEF TypedInv, TypedElements
    <3>2. new \subseteq 0 .. elem_size - 1
      BY <2>3, <3>1 DEF leftover
    <3> HIDE DEF new
    <3>3. QED
      BY <1>7, <2>1, <3>2
  <2>5. CASE current_idx \notin DOMAIN storage
    <3> HIDE DEF new
    <3>1. DOMAIN storage' = DOMAIN storage /\ \A e \in DOMAIN storage : storage'[e] = storage[e]
      BY <2>1, <2>5
    <3>2. QED
      BY <2>1, <3>1 DEF TypedInv, TypedElements
  <2>6. QED
    BY <2>4, <2>5
<1>11. CASE UNCHANGED storage_vars
  BY <1>5, <1>11 DEF storage_vars
<1>12. QED
  BY <1>1, <1>2, <1>3, <1>4, <1>6, <1>9, <1>10, <1>11 DEF StorageNext

\* field_t::extract reads the locations bit by bit, in a storage with the elements
\* that the message takes.
LEMMA ExtractIs ==
  ASSUME InsertionInv, RoomInv, TypedInv, phase = "insert", NEW f \in Range(message)
  PROVE  extract(f) = reading(f, storage)
<1>1. f \in LocatedFields /\ elem_size \in WholeElements /\ Listed(message)
  BY ListedItems DEF InsertionInv
<1>2. ASSUME NEW k \in DOMAIN f.ats
      PROVE  extract_bits(locator_for(f.ats[k])) = bits_at(f.ats[k], storage)
  <2> DEFINE a == f.ats[k]
             l == locator_for(a)
             size == storage_size(message, elem_size)
  <2>1. a \in Locations /\ a \in Range(f.ats)
    BY <1>1, LocatedIs DEF Range
  <2>2. l.lsb \in Nat /\ l.size \in Nat \ {0}
    BY <2>1, LocatorIs
  <2> HIDE DEF a
  <2>3. size \in Nat /\ extent(l, elem_size) <= size
    BY <1>1, <2>1, StorageSizeIs
  <2>4. /\ extent(l, elem_size) \in Nat
        /\ \A b \in l.lsb .. l.lsb + l.size - 1 : element(l, b, elem_size) \in 0 .. extent(l, elem_size) - 1
    BY <1>1, <2>1, ExtentCovers
  <2> HIDE DEF l, size
  <2>5. min_idx(l, elem_size) \in 0 .. extent(l, elem_size) - 1 /\ max_idx(l, elem_size) \in 0 .. extent(l, elem_size) - 1
    <3>1. l.lsb \in l.lsb .. l.lsb + l.size - 1 /\ l.lsb + l.size - 1 \in l.lsb .. l.lsb + l.size - 1
      BY <2>2
    <3>2. QED
      BY <2>4, <3>1 DEF min_idx, max_idx
  <2>6. \A e \in min_idx(l, elem_size) .. max_idx(l, elem_size) : e \in 0 .. size - 1
    BY <2>3, <2>4, <2>5
  <2>7. \A e \in min_idx(l, elem_size) .. max_idx(l, elem_size) :
          e \in DOMAIN storage /\ storage[e] \subseteq 0 .. elem_size - 1
    BY <2>6 DEF RoomInv, TypedInv, TypedElements, size
  <2>8. extract_bits(locator_for(a)) = bits_at(a, storage)
    BY <1>1, <2>1, <2>7, ExtractBitsIs DEF l
  <2>9. QED
    BY <2>8 DEF a
<1>3. [k \in DOMAIN f.ats |-> extract_bits(locator_for(f.ats[k]))] = [k \in DOMAIN f.ats |-> bits_at(f.ats[k], storage)]
  BY <1>2
<1>4. QED
  BY <1>3 DEF extract, reading

----------------------------------------------------------------------------
\* A field that no other overlaps.
Alone(f) == \A g \in Range(message) : overlap(f, g) => g = f

\* All the fields read as they were set, but the one that is being written.
ContentInv ==
  phase = "insert" =>
    /\ DOMAIN content = names_of(message)
    /\ \A f \in Range(message) :
         Alone(f) /\ ~(insertion.left > 0 /\ f = field) => content[f.name] = reading(f, storage)

LEMMA ContentAfter ==
  ASSUME UNCHANGED <<message, elem_size>>, DOMAIN content' = names_of(message),
         \A f \in Range(message) :
           Alone(f) /\ ~(insertion'.left > 0 /\ f = field') => content'[f.name] = reading(f, storage')
  PROVE  ContentInv'
  BY DEF ContentInv, Alone, reading, bits_at, bit

LEMMA ConstructReads ==
  ASSUME InsertionInv, LayoutInv, NEW elems, NEW insertions, phase = "define", Construct(elems, insertions)
  PROVE  ContentInv'
<1>1. /\ UNCHANGED <<message, elem_size>> /\ storage' = elems
      /\ content' = [n \in names_of(message) |-> reading(Field(n), elems)]
  BY DEF Construct, definition
<1>2. ASSUME NEW f \in Range(message)
      PROVE  content'[f.name] = reading(f, elems)
  <2>1. f.name \in names_of(message)
    BY DEF names_of
  <2>2. Field(f.name) = f
    <3>1. Field(f.name) \in Range(message) /\ Field(f.name).name = f.name
      BY DEF Field
    <3>2. QED
      BY <3>1 DEF LayoutInv, OnePerName
  <2>3. QED
    BY <1>1, <2>1, <2>2
<1>3. DOMAIN content' = names_of(message)
  BY <1>1
<1>4. QED
  BY <1>1, <1>2, <1>3, ContentAfter

\* What is written in a field is not read in another.
LEMMA OthersRead ==
  ASSUME InsertionInv, insertion.busy, NEW f \in Range(message), f # field, Alone(f), NEW elems,
         NEW first \in Nat, NEW last \in Nat, NEW bits, target.lsb <= first, last <= target.msb,
         WrittenIn(elems, storage, first, last, bits)
  PROVE  reading(f, elems) = reading(f, storage)
<1>1. /\ insertion.left \in 1 .. Len(field.ats) /\ field \in LocatedFields /\ field \in Range(message)
      /\ target.lsb \in Nat /\ target.msb \in Nat
  BY WrittenPart
<1>2. f \in LocatedFields
  BY ListedItems DEF InsertionInv
<1>3. ~overlap(f, field)
  BY <1>1 DEF Alone
<1>4. ASSUME NEW c \in located_bits(f)
      PROVE  bit(elems, c) <=> bit(storage, c)
  <2>1. PICK k \in 1 .. Len(f.ats) : c \in f.ats[k].lsb .. f.ats[k].msb
    BY <1>2, BitIs
  <2>2. c \in Nat
    BY <1>2, <2>1, SpotIs
  <2>3. c \notin located_bits(field)
    BY <1>3 DEF overlap
  <2>4. ~(target.lsb <= c /\ c <= target.msb)
    <3>1. c \notin target.lsb .. target.msb
      BY <1>1, <2>3, BitIs DEF target
    <3>2. QED
      BY <1>1, <2>2, <3>1
  <2>5. ~(first <= c /\ c <= last)
    BY <1>1, <2>2, <2>4
  <2>6. QED
    BY <2>2, <2>5 DEF WrittenIn
<1>5. QED
  BY <1>2, <1>4, SameReading

LEMMA InsertPartReads ==
  ASSUME InsertionInv, RoomInv, ContentInv, InsertFirst \/ InsertBetween
  PROVE  ContentInv'
<1> DEFINE numbits == elem_size - lsb_in_element
<1>1. /\ insertion.busy /\ current_idx # max_idx(locator, elem_size) /\ InsertPart(numbits)
      /\ insertion.left > 0 /\ phase = "insert"
  BY InsertPartKeepsInsertion DEF InsertionInv
<1>2. UNCHANGED <<message, elem_size, queue, content>> /\ insertion'.left = insertion.left
  <2>1. /\ insertion' = [insertion EXCEPT !.lsb = insertion.lsb + numbits,
                                          !.value = ShiftedRight(insertion.value, numbits)]
        /\ UNCHANGED <<message, elem_size, queue, content>>
    BY <1>1 DEF InsertPart, definition
  <2>2. insertion \in InsertionStates
    BY DEF InsertionInv
  <2> HIDE DEF numbits
  <2>3. QED
    BY <2>1, <2>2 DEF InsertionStates
<1>3. field' = field
  BY <1>2 DEF field
<1>4. WrittenIn(storage', storage, cur, cur + numbits - 1, insertion.value)
  BY <1>1, IndexInStorage, PartWrites
<1>5. /\ cur \in Nat /\ target.lsb <= cur /\ cur + numbits - 1 \in Nat /\ cur + numbits - 1 <= target.msb
  <2>1. /\ cur \in Nat /\ target.lsb <= cur /\ cur + numbits <= target.msb /\ target.msb \in Nat
        /\ lsb_in_element \in 0 .. elem_size - 1 /\ elem_size \in WholeElements
    BY <1>1, WrittenPart
  <2>2. numbits \in Nat /\ numbits > 0
    BY <2>1 DEF WholeElements
  <2> HIDE DEF numbits
  <2>3. QED
    BY <2>1, <2>2
<1> HIDE DEF numbits
<1>6. ASSUME NEW f \in Range(message), Alone(f), f # field
      PROVE  content'[f.name] = reading(f, storage')
  <2>1. reading(f, storage') = reading(f, storage)
    BY <1>1, <1>4, <1>5, <1>6, OthersRead
  <2>2. content[f.name] = reading(f, storage)
    BY <1>1, <1>6 DEF ContentInv
  <2>3. QED
    BY <1>2, <2>1, <2>2
<1>7. DOMAIN content' = names_of(message)
  BY <1>1, <1>2 DEF ContentInv
<1>8. QED
  BY <1>1, <1>2, <1>3, <1>6, <1>7, ContentAfter

LEMMA InsertLastReads ==
  ASSUME InsertionInv, RoomInv, LayoutInv, WritingInv, ContentInv, InsertLast
  PROVE  ContentInv'
<1>1. /\ insertion.busy /\ current_idx = max_idx(locator, elem_size)
      /\ insertion.left > 0 /\ phase = "insert" /\ queue # <<>>
  BY DEF InsertLast, InsertionInv
<1>2. /\ UNCHANGED <<message, elem_size>>
      /\ insertion' = IF insertion.left = 1 THEN no_insertion ELSE AfterLocator
      /\ queue' = IF insertion.left = 1 THEN Tail(queue) ELSE queue
      /\ content' = IF insertion.left = 1
                    THEN [content EXCEPT ![field.name] = stored(field, Head(queue).value)]
                    ELSE content
  BY DEF InsertLast, definition
<1>3. field \in Range(message) /\ field \in LocatedFields /\ LocationsApart(field)
  BY <1>1, FieldIs DEF LayoutInv, FieldsApart
<1>4. /\ cur \in Nat /\ target.msb \in Nat /\ target.lsb <= cur /\ target.msb <= target.msb
  BY <1>1, WrittenPart
<1>5. WrittenIn(storage', storage, cur, target.msb, insertion.value)
  BY <1>1, IndexInStorage, LastWrites
<1>6. ASSUME NEW f \in Range(message), Alone(f), f # field
      PROVE  content[f.name] = reading(f, storage')
  <2>1. reading(f, storage') = reading(f, storage)
    BY <1>1, <1>4, <1>5, <1>6, OthersRead
  <2>2. content[f.name] = reading(f, storage)
    BY <1>1, <1>6 DEF ContentInv
  <2>3. QED
    BY <2>1, <2>2
<1>7. DOMAIN content = names_of(message)
  BY <1>1 DEF ContentInv
<1>8. DOMAIN content' = names_of(message)
  BY <1>2, <1>7
<1>9. CASE insertion.left = 1
  <2>1. content' = [content EXCEPT ![field.name] = stored(field, Head(queue).value)]
    BY <1>2, <1>9
  <2>2. field.name \in DOMAIN content
    BY <1>3, <1>7 DEF names_of
  <2>3. reading(field, storage') = stored(field, Head(queue).value)
    <3>1. DoneIn(storage', 0, field, Head(queue).value)
      BY <1>1, <1>3, <1>9, IndexInStorage, InsertLastDone
    <3>2. \A k \in 1 .. Len(field.ats) : \A c \in field.ats[k].lsb .. field.ats[k].msb :
            bit(storage', c) <=> spot(field.ats, k, c) \in Head(queue).value
      BY <3>1 DEF DoneIn
    <3>3. Head(queue).value \in SUBSET Nat
      BY <1>1, FieldIs DEF QueueItems
    <3>4. QED
      BY <1>3, <3>2, <3>3, ReadingOf
  <2>4. ASSUME NEW f \in Range(message), Alone(f)
        PROVE  content'[f.name] = reading(f, storage')
    <3>1. CASE f = field
      BY <2>1, <2>2, <2>3, <3>1
    <3>2. CASE f # field
      <4>1. f.name # field.name
        BY <1>3, <3>2 DEF LayoutInv, OnePerName
      <4>2. QED
        BY <1>6, <2>1, <2>4, <3>2, <4>1
    <3>3. QED
      BY <3>1, <3>2
  <2>5. QED
    BY <1>2, <1>8, <2>4, ContentAfter
<1>10. CASE insertion.left # 1
  <2>1. queue' = queue /\ insertion' = AfterLocator /\ content' = content
    BY <1>2, <1>10
  <2>2. insertion'.left > 0
    <3>1. insertion \in InsertionStates
      BY DEF InsertionInv
    <3>2. insertion'.left = insertion.left - 1 /\ insertion.left \in Nat
      BY <2>1, <3>1 DEF AfterLocator, InsertionStates
    <3>3. QED
      BY <1>1, <1>10, <3>2
  <2>3. field' = field
    BY <2>1 DEF field
  <2>4. QED
    BY <1>2, <1>6, <1>8, <2>1, <2>2, <2>3, ContentAfter
<1>11. QED
  BY <1>9, <1>10

LEMMA ContentStep ==
  ASSUME InsertionInv, RoomInv, LayoutInv, WritingInv, ContentInv, [StorageNext]_storage_vars
  PROVE  ContentInv'
<1>1. CASE Extend \/ Pack \/ Overlay \/ Relax \/ Rename
  <2>1. phase' = "define"
    BY <1>1 DEF Extend, Pack, Overlay, Relax, Rename, Define
  <2>2. QED
    BY <2>1 DEF ContentInv
<1>2. CASE Own \/ View \/ OwnCopy
  <2>1. phase = "define" /\ \E elems, insertions : Construct(elems, insertions)
    BY <1>2 DEF Own, View, OwnCopy
  <2>2. QED
    BY <2>1, ConstructReads
<1>3. ASSUME UNCHANGED <<message, elem_size, storage, content>>, phase = "insert",
             \A f \in Range(message) : insertion.left > 0 /\ f = field => insertion'.left > 0 /\ f = field'
      PROVE  ContentInv'
  <2>1. \A f \in Range(message) :
          Alone(f) /\ ~(insertion'.left > 0 /\ f = field') => content'[f.name] = reading(f, storage')
    BY <1>3 DEF ContentInv
  <2>2. QED
    BY <1>3, <2>1, ContentAfter DEF ContentInv
<1>4. CASE Set \/ SetDefault
  <2>1. UNCHANGED <<message, elem_size, storage, content, insertion>> /\ phase = "insert" /\ queue = <<>>
    BY <1>4 DEF Set, SetDefault, definition
  <2>2. ~(insertion.left > 0)
    BY <2>1 DEF InsertionInv
  <2>3. QED
    BY <1>3, <2>1, <2>2
<1>5. CASE BeginField
  <2>1. /\ UNCHANGED <<message, elem_size, storage, content>> /\ queue # <<>> /\ insertion.left = 0
    BY <1>5 DEF BeginField, definition
  <2>2. phase = "insert" /\ ~(insertion.left > 0)
    BY <2>1 DEF InsertionInv
  <2>3. QED
    BY <1>3, <2>1, <2>2
<1>6. CASE BeginLocator
  <2>1. /\ UNCHANGED <<message, elem_size, storage, content, queue>> /\ queue # <<>>
        /\ insertion'.left = insertion.left
    <3>1. insertion \in InsertionStates
      BY DEF InsertionInv
    <3>2. QED
      BY <1>6, <3>1 DEF BeginLocator, definition, InsertionStates
  <2>2. phase = "insert"
    BY <2>1 DEF InsertionInv
  <2>3. field' = field
    BY <2>1 DEF field
  <2>4. QED
    BY <1>3, <2>1, <2>2, <2>3
<1>7. CASE InsertLast
  BY <1>7, InsertLastReads
<1>8. CASE InsertFirst \/ InsertBetween
  BY <1>8, InsertPartReads
<1>9. CASE UNCHANGED storage_vars
  <2>1. UNCHANGED <<phase, message, elem_size, storage, content, insertion, queue>>
    BY <1>9 DEF storage_vars, definition
  <2>2. field' = field
    BY <2>1 DEF field
  <2>3. CASE phase = "insert"
    BY <1>3, <2>1, <2>2, <2>3
  <2>4. CASE phase # "insert"
    BY <2>1, <2>4 DEF ContentInv
  <2>5. QED
    BY <2>3, <2>4
<1>10. QED
  BY <1>1, <1>2, <1>4, <1>5, <1>6, <1>7, <1>8, <1>9 DEF StorageNext

LEMMA WritingStep ==
  ASSUME InsertionInv, RoomInv, LayoutInv, WritingInv, [StorageNext]_storage_vars
  PROVE  WritingInv'
<1>1. CASE Extend \/ Pack \/ Overlay \/ Relax \/ Rename \/ Own \/ View \/ OwnCopy
  <2>1. phase = "define" /\ insertion' = insertion
    BY <1>1 DEF Extend, Pack, Overlay, Relax, Rename, Define, Own, View, OwnCopy, Construct
  <2>2. insertion'.left = 0
    BY <2>1 DEF InsertionInv, no_insertion
  <2>3. QED
    BY <2>2 DEF WritingInv
<1>2. CASE Set \/ SetDefault
  <2>1. insertion' = insertion /\ queue = <<>>
    BY <1>2 DEF Set, SetDefault
  <2>2. ~(insertion'.left > 0)
    BY <2>1 DEF InsertionInv
  <2>3. QED
    BY <2>2 DEF WritingInv
<1>3. insertion.busy => current_idx \in DOMAIN storage /\ LocationsApart(field)
  <2>1. insertion.busy => queue # <<>>
    BY DEF InsertionInv
  <2>2. queue # <<>> => LocationsApart(field)
    BY FieldIs DEF LayoutInv, FieldsApart
  <2>3. QED
    BY <2>1, <2>2, IndexInStorage
<1>4. CASE BeginField
  BY <1>4, BeginFieldWrites
<1>5. CASE BeginLocator
  BY <1>5, BeginLocatorWrites
<1>6. CASE InsertLast
  BY <1>3, <1>6, InsertLastContinues DEF InsertLast
<1>7. CASE InsertFirst \/ InsertBetween
  BY <1>3, <1>7, InsertPartContinues DEF InsertFirst, InsertBetween
<1>8. CASE UNCHANGED storage_vars
  <2>1. UNCHANGED <<elem_size, storage, insertion, queue>>
    BY <1>8 DEF storage_vars
  <2>2. QED
    BY <2>1 DEF WritingInv, DoneIn, RestIn, HereIn, bit, field, cur, locator
<1>9. QED
  BY <1>1, <1>2, <1>4, <1>5, <1>6, <1>7, <1>8 DEF StorageNext

ReadInv == RoomInv /\ LayoutInv /\ TypedInv /\ WritingInv /\ ContentInv

(* msg_access::get: whatever fields a message is made of, whatever locations *)
(* they have and whatever elements those cross: a field that no other        *)
(* overlaps reads as it was set last, or as it was brought along.            *)
THEOREM GetsAsSet ==
  ASSUME Spare \subseteq Nat, NoBitTwice
  PROVE  StorageSpec => []GetsWhatWasSet
<1>1. StorageInit => ReadInv
  <2> SUFFICES ASSUME StorageInit PROVE ReadInv
    OBVIOUS
  <2>1. phase = "define" /\ insertion.left = 0
    BY DEF StorageInit, no_insertion
  <2>2. QED
    BY <2>1, LayoutInit, TypedInit DEF ReadInv, RoomInv, WritingInv, ContentInv
<1>2. StorageInv /\ ReadInv /\ [StorageNext]_storage_vars => ReadInv'
  <2> SUFFICES ASSUME StorageInv, ReadInv, [StorageNext]_storage_vars PROVE ReadInv'
    OBVIOUS
  <2>1. DefinitionInv /\ InsertionInv /\ RoomInv /\ LayoutInv /\ TypedInv /\ WritingInv /\ ContentInv
    BY DEF StorageInv, ReadInv
  <2>2. RoomInv'
    BY <2>1, RoomStep
  <2>3. LayoutInv'
    BY <2>1, LayoutStep
  <2>4. TypedInv'
    BY <2>1, TypedStep
  <2>5. WritingInv'
    BY <2>1, WritingStep
  <2>6. ContentInv'
    BY <2>1, ContentStep
  <2>7. QED
    BY <2>2, <2>3, <2>4, <2>5, <2>6 DEF ReadInv
<1>3. StorageInv /\ ReadInv => GetsWhatWasSet
  <2> SUFFICES ASSUME StorageInv, ReadInv, IsConstructed, NEW f \in Range(message), Alone(f)
               PROVE  extract(f) = content[f.name]
    BY DEF GetsWhatWasSet, Alone
  <2>1. InsertionInv /\ RoomInv /\ TypedInv /\ ContentInv /\ phase = "insert" /\ queue = <<>>
    BY DEF StorageInv, ReadInv, IsConstructed
  <2>2. ~(insertion.left > 0)
    BY <2>1 DEF InsertionInv
  <2>3. content[f.name] = reading(f, storage)
    BY <2>1, <2>2 DEF ContentInv
  <2>4. QED
    BY <2>1, <2>3, ExtractIs
<1>4. QED
  BY <1>1, <1>2, <1>3, StorageInvAlways, PTL DEF StorageSpec

----------------------------------------------------------------------------
(* Relations on a field, from which matchers are simplified. *)

RelOps == {"<", "<=", ">", ">=", "==", "!="}

\* A relation on a field of which the type holds 0 .. Modulus - 1.
FieldRelation == [op : RelOps, value : 0 .. Modulus - 1]

\* A relation by the name of its operator.
Related(op, x, y) ==
  /\ op = "<" => x < y
  /\ op = "<=" => x <= y
  /\ op = ">" => x > y
  /\ op = ">=" => x >= y
  /\ op = "==" => x = y
  /\ op = "!=" => x # y

LEMMA RelOpIs ==
  ASSUME NEW op \in RelOps, NEW x \in Int, NEW y \in Int
  PROVE  RelOp(op, x, y) <=> Related(op, x, y)
<1>1. CASE op = "<"
  BY <1>1 DEF RelOp, Related
<1>2. CASE op = "<="
  BY <1>2 DEF RelOp, Related
<1>3. CASE op = ">"
  BY <1>3 DEF RelOp, Related
<1>4. CASE op = ">="
  BY <1>4 DEF RelOp, Related
<1>5. CASE op = "=="
  BY <1>5 DEF RelOp, Related
<1>6. CASE op = "!="
  BY <1>6 DEF RelOp, Related
<1>7. QED
  BY <1>1, <1>2, <1>3, <1>4, <1>5, <1>6 DEF RelOps

LEMMA IncrementIs ==
  \A x \in 0 .. Modulus - 1 : Increment(x) = IF x = Modulus - 1 THEN 0 ELSE x + 1
<1> SUFFICES ASSUME NEW x \in 0 .. Modulus - 1
             PROVE  Increment(x) = IF x = Modulus - 1 THEN 0 ELSE x + 1
  OBVIOUS
<1>1. CASE x = Modulus - 1
  <2>1. x + 1 = Modulus
    BY <1>1, ModulusIsPositive
  <2>2. Modulus % Modulus = 0
    BY ModulusIsPositive
  <2>3. QED
    BY <1>1, <2>1, <2>2 DEF Increment
<1>2. CASE x # Modulus - 1
  BY <1>2, ModulusIsPositive DEF Increment
<1>3. QED
  BY <1>1, <1>2

(* field_matchers.hpp, the overloads of implies: a relation that is said to *)
(* imply another on the same field does so at every value of the field,     *)
(* also where the increment wraps, unless both are != with two values.      *)
THEOREM RelationsImply ==
  ASSUME NEW l \in FieldRelation, NEW r \in FieldRelation, rel_implies(l, r),
         l.op = "!=" /\ r.op = "!=" => l.value = r.value,
         NEW x \in 0 .. Modulus - 1, RelOp(l.op, x, l.value)
  PROVE  RelOp(r.op, x, r.value)
<1>1. /\ l.op \in RelOps /\ r.op \in RelOps
      /\ l.value \in 0 .. Modulus - 1 /\ r.value \in 0 .. Modulus - 1
  BY DEF FieldRelation
<1>2. /\ Increment(l.value) = IF l.value = Modulus - 1 THEN 0 ELSE l.value + 1
      /\ Increment(r.value) = IF r.value = Modulus - 1 THEN 0 ELSE r.value + 1
  BY <1>1, IncrementIs
<1>3. /\ Related(l.op, x, l.value)
      /\ Related(r.op, x, r.value) => RelOp(r.op, x, r.value)
      /\ RelOp(r.op, l.value, r.value) <=> Related(r.op, l.value, r.value)
      /\ RelOp(l.op, l.value, r.value) <=> Related(l.op, l.value, r.value)
  BY <1>1, RelOpIs
<1>4. CASE l.op = r.op
  <2>1. l.value = r.value \/ RelOp(l.op, l.value, r.value)
    <3>1. CASE l.op = "=="
      <4>1. RelOp(l.op, l.value, r.value) => l.value = r.value
        BY <1>3, <3>1 DEF Related
      <4>2. QED
        BY <1>4, <3>1, <4>1 DEF rel_implies
    <3>2. CASE l.op # "=="
      BY <1>4, <3>2 DEF rel_implies
    <3>3. QED
      BY <3>1, <3>2
  <2>2. Related(r.op, x, r.value)
    BY <1>1, <1>3, <1>4, <2>1 DEF Related, RelOps
  <2>3. QED
    BY <1>3, <2>2
<1>5. CASE l.op = "==" /\ l.op # r.op
  <2>1. RelOp(r.op, l.value, r.value)
    BY <1>5 DEF rel_implies
  <2>2. x = l.value
    BY <1>3, <1>5 DEF Related
  <2>3. QED
    BY <2>1, <2>2
<1>6. CASE l.op = "<=" /\ r.op \in {"<", "!="}
  <2>1. l.value < r.value
    BY <1>6 DEF rel_implies
  <2>2. Related(r.op, x, r.value)
    BY <1>1, <1>2, <1>3, <1>6, <2>1 DEF Related
  <2>3. QED
    BY <1>3, <2>2
<1>7. CASE l.op = ">=" /\ r.op \in {">", "!="}
  <2>1. l.value > r.value
    BY <1>7 DEF rel_implies
  <2>2. Related(r.op, x, r.value)
    BY <1>1, <1>2, <1>3, <1>7, <2>1 DEF Related
  <2>3. QED
    BY <1>3, <2>2
<1>8. CASE l.op = "<" /\ r.op = "<="
  <2>1. l.value <= Increment(r.value)
    BY <1>8 DEF rel_implies
  <2>2. Related(r.op, x, r.value)
    BY <1>1, <1>2, <1>3, <1>8, <2>1 DEF Related
  <2>3. QED
    BY <1>3, <2>2
<1>9. CASE l.op = ">" /\ r.op = ">="
  <2>1. Increment(l.value) >= r.value
    BY <1>9 DEF rel_implies
  <2>2. Related(r.op, x, r.value)
    BY <1>1, <1>2, <1>3, <1>9, <2>1 DEF Related
  <2>3. QED
    BY <1>3, <2>2
<1>10. CASE l.op = "<" /\ r.op = "!="
  <2>1. l.value <= r.value
    BY <1>10 DEF rel_implies
  <2>2. Related(r.op, x, r.value)
    BY <1>1, <1>2, <1>3, <1>10, <2>1 DEF Related
  <2>3. QED
    BY <1>3, <2>2
<1>11. CASE l.op = ">" /\ r.op = "!="
  <2>1. l.value >= r.value
    BY <1>11 DEF rel_implies
  <2>2. Related(r.op, x, r.value)
    BY <1>1, <1>2, <1>3, <1>11, <2>1 DEF Related
  <2>3. QED
    BY <1>3, <2>2
<1>12. CASE /\ l.op # r.op /\ l.op # "=="
            /\ ~ (l.op = "<=" /\ r.op \in {"<", "!="}) /\ ~ (l.op = ">=" /\ r.op \in {">", "!="})
            /\ ~ (l.op = "<" /\ r.op \in {"<=", "!="}) /\ ~ (l.op = ">" /\ r.op \in {">=", "!="})
  BY <1>12 DEF rel_implies
<1>13. QED
  BY <1>4, <1>5, <1>6, <1>7, <1>8, <1>9, <1>10, <1>11, <1>12

(* field_matchers.hpp, the overloads of negate: the inverse of a relation   *)
(* holds of the values of which the relation does not hold, and of no       *)
(* others.                                                                  *)
THEOREM RelationsInvert ==
  ASSUME NEW op \in RelOps, NEW x \in Int, NEW y \in Int
  PROVE  RelOp(inverse_op(op), x, y) <=> ~ RelOp(op, x, y)
<1>1. ASSUME NEW o \in RelOps, NEW i \in RelOps, inverse_op(o) = i,
             Related(i, x, y) <=> ~ Related(o, x, y)
      PROVE  RelOp(inverse_op(o), x, y) <=> ~ RelOp(o, x, y)
  BY <1>1, RelOpIs
<1>2. CASE op = "<"
  <2>1. inverse_op(op) = ">="
    BY <1>2 DEF inverse_op
  <2>2. Related(">=", x, y) <=> ~ Related(op, x, y)
    BY <1>2 DEF Related
  <2>3. QED
    BY <1>1, <2>1, <2>2 DEF RelOps
<1>3. CASE op = "<="
  <2>1. inverse_op(op) = ">"
    BY <1>3 DEF inverse_op
  <2>2. Related(">", x, y) <=> ~ Related(op, x, y)
    BY <1>3 DEF Related
  <2>3. QED
    BY <1>1, <2>1, <2>2 DEF RelOps
<1>4. CASE op = ">"
  <2>1. inverse_op(op) = "<="
    BY <1>4 DEF inverse_op
  <2>2. Related("<=", x, y) <=> ~ Related(op, x, y)
    BY <1>4 DEF Related
  <2>3. QED
    BY <1>1, <2>1, <2>2 DEF RelOps
<1>5. CASE op = ">="
  <2>1. inverse_op(op) = "<"
    BY <1>5 DEF inverse_op
  <2>2. Related("<", x, y) <=> ~ Related(op, x, y)
    BY <1>5 DEF Related
  <2>3. QED
    BY <1>1, <2>1, <2>2 DEF RelOps
<1>6. CASE op = "=="
  <2>1. inverse_op(op) = "!="
    BY <1>6 DEF inverse_op
  <2>2. Related("!=", x, y) <=> ~ Related(op, x, y)
    BY <1>6 DEF Related
  <2>3. QED
    BY <1>1, <2>1, <2>2 DEF RelOps
<1>7. CASE op = "!="
  <2>1. inverse_op(op) = "=="
    BY <1>7 DEF inverse_op
  <2>2. Related("==", x, y) <=> ~ Related(op, x, y)
    BY <1>7 DEF Related
  <2>3. QED
    BY <1>1, <2>1, <2>2 DEF RelOps
<1>8. QED
  BY <1>2, <1>3, <1>4, <1>5, <1>6, <1>7 DEF RelOps
=============================================================================
