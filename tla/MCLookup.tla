------------------------------ MODULE MCLookup ------------------------------
(***************************************************************************)
(* Instances of Lookup for TLC: keys of eight bits, as in                  *)
(* test/lookup/pseudo_pext_lookup.cpp, in sets that are dense, sparse, far *)
(* apart or have more keys than four bits tell apart.                      *)
(***************************************************************************)
EXTENDS Lookup

RawKey(n) == {b \in Bits : (n \div 2 ^ b) % 2 = 1}

\* The entries k -> 1, 2, 3, ... for the keys of a sequence.
EntriesOf(keys) == [n \in DOMAIN keys |-> [key |-> RawKey(keys[n]), value |-> n % 3]]

linear(size) == [kind |-> "linear", max_size |-> size]
pext(indirect, len) == [kind |-> "pext", indirect |-> indirect, max_search_len |-> len]

Powers == <<1, 2, 4, 8, 16, 32, 64, 128>>
KeySets ==
  { <<>>, <<0>>, <<255>>, <<0, 1, 255>>, <<1, 2, 4, 8>>,
    <<5, 38, 42, 100, 253>>, <<54, 324 % 256, 64, 234, 93>>,
    <<0, 3, 6, 12, 24, 48, 96, 192>>, Powers, <<7, 56, 73, 146, 84, 219>>,
    <<1, 2, 4, 7, 8, 11, 13, 14>>, <<17, 34, 68, 136, 51, 102, 204>>,
    <<85, 170, 90, 165, 60, 195, 15, 240>>, <<0, 16, 32, 48, 64, 80, 96, 112, 128>> }

Direct == {<<pext(FALSE, 1)>>}
Indirect == {<<pext(TRUE, len)>> : len \in 1 .. 3}
LinearThenPext == {<<linear(4), pext(TRUE, 2)>>}

InputsOf(keysets, strategies) ==
  [entries : {EntriesOf(keys) : keys \in keysets}, default_value : {3},
   strategies : strategies]

Duplicates == {<<9, 9, 8>>, <<9, 8, 9>>}

AllInputs ==
  InputsOf(KeySets, Direct \cup Indirect \cup LinearThenPext)
  \cup InputsOf(Duplicates, LinearThenPext)

AllKeys == RawKeys
=============================================================================
