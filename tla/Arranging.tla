----------------------------- MODULE Arranging -----------------------------
(***************************************************************************)
(* Lists that are made of the items of others.                             *)
(***************************************************************************)
EXTENDS Integers, Sequences, FiniteSets

\* The items at some positions, which have the ranks 0, 1, ...
arranged(items, rank) ==
  [k \in 1 .. Cardinality(DOMAIN rank) |-> items[CHOOSE i \in DOMAIN rank : rank[i] = k - 1]]

\* The items at some positions, in their order.
at_positions(items, positions) ==
  arranged(items, [i \in positions |-> Cardinality({j \in positions : j < i})])
============================================================================
