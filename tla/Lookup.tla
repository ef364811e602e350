------------------------------- MODULE Lookup -------------------------------
(***************************************************************************)
(* lookup::make: the first strategy that takes the input builds, while     *)
(* compiling, a linear search, or a table that a hash of the key points    *)
(* into, directly or through a table of indices.  At run time the built    *)
(* lookup is asked for keys, also for keys that it has no entry for.       *)
(***************************************************************************)
EXTENDS PseudoPext, Sequences, Functions

CONSTANTS
  Values,
  Inputs,      \* [entries, default_value, strategies]
  Asked,       \* the raw keys that are asked for
  NoAnswer

Entry == [key : RawKeys, value : Values]
Strategy ==
  [kind : {"linear"}, max_size : Nat]
  \cup [kind : {"pext"}, indirect : BOOLEAN, max_search_len : Nat \ {0}]

ASSUME LookupTypes ==
  /\ Asked \subseteq RawKeys
  /\ \A i \in Inputs :
       /\ i.entries \in Seq(Entry)
       /\ i.default_value \in Values
       /\ i.strategies \in Seq(Strategy)

VARIABLES
  input,
  stage,
  mask,
  bit,            \* the bit that the first loop tries to drop
  longest_run,    \* prev_longest_run
  storage,        \* the entries, as the indirect strategy sorts and rotates them
  lookup_table,   \* the index into storage for each hash
  slots,          \* the entry for each hash, in the direct strategy
  key,            \* what the lookup was asked for
  at,             \* the entry that is looked at, or filled in
  searched,       \* search_count
  answer

vars == <<input, stage, mask, bit, longest_run, storage, lookup_table, slots,
          key, at, searched, answer>>

built == <<input, mask, bit, longest_run, storage, lookup_table, slots>>
asking == <<key, searched, answer>>

Stages == {"mask", "cheapen", "sort", "rotate", "fill", "direct", "ready", "search", "answered"}

Size == Len(input.entries)
KeysOf(entries) == {entries[n].key : n \in DOMAIN entries}
Keys == KeysOf(input.entries)

----------------------------------------------------------------------------
\* linear_search_lookup takes a bounded number of entries, pext any number.
strategy_failed(s, i) == s.kind = "linear" /\ Len(i.entries) > s.max_size

\* The first strategy that does not fail.
make(i) ==
  i.strategies[Min({n \in DOMAIN i.strategies : ~strategy_failed(i.strategies[n], i)})]

strategy == make(input)

Takes(i) ==
  /\ \E n \in DOMAIN i.strategies : ~strategy_failed(i.strategies[n], i)
  /\ make(i).kind = "pext" =>
       /\ \A m, n \in DOMAIN i.entries : i.entries[m].key = i.entries[n].key => m = n
       /\ make(i).indirect \/ make(i).max_search_len = 1

TopBit == Width - 1

\* A hash has as many bits as the mask: it indexes a table of that size.
HashesOf(m) == 0 .. 2 ^ Cardinality(m) - 1

hash(k) == pseudo_pext(mask, k)
search_len == longest_run + 1

Init ==
  /\ input \in {i \in Inputs : Takes(i)}
  /\ stage = IF strategy.kind = "linear" THEN "ready" ELSE "mask"
  /\ mask = Bits
  /\ bit = TopBit
  /\ longest_run = 0
  /\ storage = <<>>
  /\ lookup_table = <<>>
  /\ slots = <<>>
  /\ key = {}
  /\ at = 1
  /\ searched = 0
  /\ answer = NoAnswer

----------------------------------------------------------------------------
\* calc_pseudo_pext_mask: drop every bit that the keys do not need.
DropBit ==
  /\ stage = "mask"
  /\ mask' = IF keys_are_unique(mask \ {bit}, Keys) THEN mask \ {bit} ELSE mask
  /\ bit' = IF bit = 0 THEN 0 ELSE bit - 1
  /\ stage' = IF bit = 0 THEN "cheapen" ELSE "mask"
  /\ UNCHANGED <<input, longest_run, storage, lookup_table, slots, at, asking>>

\* make: what the mask is used for.
AfterMask ==
  CASE Size = 0 -> "ready"
    [] Size > 0 /\ strategy.indirect -> "sort"
    [] Size > 0 /\ ~strategy.indirect -> "direct"

\* A mutant: the run of the mask that is given up is remembered.
RunAfter_kept_always(accepted, tried, before) == tried
RunAfter(accepted, tried, before) == IF accepted THEN tried ELSE before

\* calc_pseudo_pext_mask: trade bits for longer searches.
RemoveBit ==
  /\ stage = "cheapen"
  /\ strategy.max_search_len > 1
  /\ Cardinality(mask) > 4
  /\ LET try_mask == remove_cheapest_bit(mask, Keys)
         run == count_longest_run(try_mask, Keys)
         accepted == run <= strategy.max_search_len
     IN /\ mask' = IF accepted THEN try_mask ELSE mask
        /\ longest_run' = RunAfter(accepted, run, longest_run)
        /\ stage' = IF accepted THEN "cheapen" ELSE AfterMask
  /\ UNCHANGED <<input, bit, storage, lookup_table, slots, at, asking>>

KeepMask ==
  /\ stage = "cheapen"
  /\ strategy.max_search_len <= 1 \/ Cardinality(mask) <= 4
  /\ stage' = AfterMask
  /\ slots' = IF stage' = "direct"
              THEN [h \in HashesOf(mask) |-> [key |-> {}, value |-> input.default_value]]
              ELSE slots
  /\ UNCHANGED <<input, mask, bit, longest_run, storage, lookup_table, at, asking>>

----------------------------------------------------------------------------
\* make, indirect: std::sort by the hash, which leaves the order in a bucket open.
Unplaced == {n \in 1 .. Size : input.entries[n] \notin Range(storage)}

PlaceEntry ==
  /\ stage = "sort"
  /\ \E n \in Unplaced :
       /\ \A m \in Unplaced : hash(input.entries[n].key) <= hash(input.entries[m].key)
       /\ storage' = Append(storage, input.entries[n])
  /\ stage' = IF Len(storage') = Size THEN "rotate" ELSE "sort"
  /\ UNCHANGED <<input, mask, bit, longest_run, lookup_table, slots, at, asking>>

HashAt(n) == hash(storage[n].key)

\* The first end of a bucket at which search_len entries have been counted.
IsEndOfLongest(e) ==
  /\ e < Size => HashAt(e + 1) # HashAt(e)
  /\ e < Size => e >= search_len /\ HashAt(e - longest_run) = HashAt(e)

end_of_longest_bucket ==
  Min({e \in 1 .. Size : IsEndOfLongest(e)})

\* A mutant: the storage is left as it was sorted.
left_sorted(s, e) == s

\* std::rotate: what follows e comes first, and e ends up last.
rotated(s, e) == [n \in 1 .. Len(s) |-> s[((n + e - 1) % Len(s)) + 1]]

Rotate ==
  /\ stage = "rotate"
  /\ storage' = rotated(storage, end_of_longest_bucket)
  /\ lookup_table' = [h \in HashesOf(mask) |-> 1]
  /\ at' = Size
  /\ stage' = "fill"
  /\ UNCHANGED <<input, mask, bit, longest_run, slots, asking>>

\* From the back, so that the index of a bucket's first entry remains.
FillTable ==
  /\ stage = "fill"
  /\ lookup_table' = [lookup_table EXCEPT ![HashAt(at)] = at]
  /\ at' = at - 1
  /\ stage' = IF at = 1 THEN "ready" ELSE "fill"
  /\ UNCHANGED <<input, mask, bit, longest_run, storage, slots, asking>>

\* make, direct: each entry goes to the slot of its hash.
FillSlot ==
  /\ stage = "direct"
  /\ slots' = [slots EXCEPT ![hash(input.entries[at].key)] = input.entries[at]]
  /\ at' = at + 1
  /\ stage' = IF at = Size THEN "ready" ELSE "direct"
  /\ UNCHANGED <<input, mask, bit, longest_run, storage, lookup_table, asking>>

----------------------------------------------------------------------------
\* Where operator[] starts.
FirstIndex(k) ==
  IF Size > 0 /\ strategy.kind = "pext" /\ strategy.indirect THEN lookup_table[hash(k)] ELSE 1

Ask(k) ==
  /\ stage = "ready"
  /\ stage' = "search"
  /\ key' = k
  /\ at' = FirstIndex(k)
  /\ searched' = 0
  /\ answer' = input.default_value
  /\ UNCHANGED built

Answer(v) ==
  /\ answer' = v
  /\ stage' = "answered"

\* linear_search_lookup: all entries are compared, a later one prevails.
SelectEntry ==
  /\ stage = "search" /\ strategy.kind = "linear"
  /\ at <= Size
  /\ answer' = IF input.entries[at].key = key THEN input.entries[at].value ELSE answer
  /\ at' = at + 1
  /\ UNCHANGED <<built, stage, key, searched>>

AnswerSelected ==
  /\ stage = "search" /\ strategy.kind = "linear"
  /\ at > Size
  /\ Answer(answer)
  /\ UNCHANGED <<built, key, at, searched>>

\* A mutant: the slot is taken for the key's because it is in use.
SlotIsUsed(k) == slots[hash(k)].value # input.default_value
SlotHas(k) == slots[hash(k)].key = k

\* empty_impl and direct_impl.
AnswerFromSlot ==
  /\ stage = "search" /\ strategy.kind = "pext"
  /\ \/ Size = 0 /\ Answer(input.default_value)
     \/ Size > 0 /\ ~strategy.indirect
        /\ Answer(IF SlotHas(key) THEN slots[hash(key)].value ELSE input.default_value)
  /\ UNCHANGED <<built, key, at, searched>>

\* indirect_impl: up to search_len entries, from the first of the bucket on.
SearchEntry ==
  /\ stage = "search" /\ strategy.kind = "pext" /\ strategy.indirect /\ Size > 0
  /\ searched < search_len
  /\ IF storage[at].key = key
     THEN Answer(storage[at].value) /\ UNCHANGED <<at, searched>>
     ELSE /\ at' = at + 1
          /\ searched' = searched + 1
          /\ UNCHANGED <<stage, answer>>
  /\ UNCHANGED <<built, key>>

AnswerDefault ==
  /\ stage = "search" /\ strategy.kind = "pext" /\ strategy.indirect /\ Size > 0
  /\ searched = search_len
  /\ Answer(input.default_value)
  /\ UNCHANGED <<built, key, at, searched>>

\* The caller has the answer; the lookup remembers nothing.
Return ==
  /\ stage = "answered"
  /\ stage' = "ready"
  /\ key' = {}
  /\ at' = 1
  /\ searched' = 0
  /\ answer' = NoAnswer
  /\ UNCHANGED built

Next ==
  \/ DropBit \/ RemoveBit \/ KeepMask
  \/ PlaceEntry \/ Rotate \/ FillTable \/ FillSlot
  \/ \E k \in Asked : Ask(k)
  \/ SelectEntry \/ AnswerSelected \/ AnswerFromSlot \/ SearchEntry \/ AnswerDefault
  \/ Return

Spec == Init /\ [][Next]_vars

----------------------------------------------------------------------------
\* The map that the input stands for.
AsMap(k) ==
  LET with_key == {n \in 1 .. Size : input.entries[n].key = k}
  IN IF with_key = {} THEN input.default_value ELSE input.entries[Max(with_key)].value

(* input.hpp: whatever strategy was made and whatever its hash is, a lookup *)
(* answers as the map that its entries and its default stand for, for keys  *)
(* with and without entries.                                                *)
AnswersAsMap == stage = "answered" => answer = AsMap(key)

(* indirect_impl::operator[] counts to search_len without asking for the    *)
(* end of the storage: it must never read past it, also for a key whose     *)
(* hash is that of the last bucket or of none.                              *)
ReadsInBounds ==
  stage = "search" /\ strategy.kind = "pext" /\ strategy.indirect /\ Size > 0
  /\ searched < search_len
    => at \in 1 .. Size

(* Of a built lookup: the search length that goes with the mask that is     *)
(* returned is the size of its largest bucket, not that of a mask that was  *)
(* tried and given up, or of one before.                                    *)
SearchLenFitsMask ==
  stage = "ready" /\ strategy.kind = "pext" /\ Size > 0 =>
    /\ \A k \in Keys : Cardinality(Bucket(mask, Keys, k)) <= search_len
    /\ \E k \in Keys : Cardinality(Bucket(mask, Keys, k)) = search_len
=============================================================================
