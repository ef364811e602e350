----------------------------- MODULE PseudoPext -----------------------------
(***************************************************************************)
(* lookup::detail: the hash of pseudo_pext_lookup.  It brings the bits of  *)
(* a key that a mask selects together with one multiplication, so that     *)
(* neighbouring stretches of bits may disturb one another by a carry.  A   *)
(* key and a mask are the sets of the bits that are set in them.           *)
(***************************************************************************)
EXTENDS Integers, FiniteSets, FiniteSetsExt

CONSTANT Width    \* std::numeric_limits<raw_key_type>::digits

ASSUME WidthIsPositive == Width \in Nat \ {0}

Bits == 0 .. Width - 1
RawKeys == SUBSET Bits

as_number(bits) == MapThenSumSet(LAMBDA b : 2 ^ b, bits)

\* std::countl_zero, and the zeros of the mask that are below its top bit.
countl_zero(mask) == IF mask = {} THEN Width ELSE Width - 1 - Max(mask)
gap_bits(mask) == Width - Cardinality(mask) - countl_zero(mask)

\* Each stretch of mask bits is shifted up to lie against the one above it.
compute_pack_coefficient(mask) ==
  LET Stretches == {src \in mask : src - 1 \notin mask}
      Below(src) == {b \in mask : b < src}
  IN MapThenSumSet(LAMBDA src : 2 ^ (gap_bits(mask) + Cardinality(Below(src)) - src), Stretches)

pseudo_pext(mask, key) ==
  LET packed == as_number(key \cap mask) * compute_pack_coefficient(mask)
  IN (packed \div 2 ^ gap_bits(mask)) % 2 ^ Cardinality(mask)

----------------------------------------------------------------------------
with_mask(mask, keys) == {pseudo_pext(mask, k) : k \in keys}

count_duplicates(mask, keys) == Cardinality(keys) - Cardinality(with_mask(mask, keys))

keys_are_unique(mask, keys) ==
  \A k, l \in keys : pseudo_pext(mask, k) = pseudo_pext(mask, l) => k = l

Bucket(mask, keys, key) == {k \in keys : pseudo_pext(mask, k) = pseudo_pext(mask, key)}

\* How many keys follow the first of the longest run of equal hashes.
count_longest_run(mask, keys) ==
  IF keys = {} THEN 0 ELSE Max({Cardinality(Bucket(mask, keys, k)) : k \in keys}) - 1

\* The lowest of the bits whose loss leaves the fewest duplicates.
remove_cheapest_bit(mask, keys) ==
  LET Cost(b) == count_duplicates(mask \ {b}, keys)
      cheapest == {b \in mask : \A c \in mask : Cost(b) <= Cost(c)}
  IN mask \ {Min(cheapest)}
=============================================================================
