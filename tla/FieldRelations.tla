--------------------------- MODULE FieldRelations ---------------------------
(***************************************************************************)
(* The relations that field matchers make between the value of a field and *)
(* a constant: their meaning, their negation, and the table of which       *)
(* relation on a field implies which other.                                *)
(***************************************************************************)
EXTENDS Integers

CONSTANT Modulus   \* a field's type holds 0 .. Modulus - 1

ASSUME ModulusIsPositive == Modulus \in Nat \ {0}

RelOp(op, x, y) ==
  CASE op = "<"  -> x < y
    [] op = "<=" -> x <= y
    [] op = ">"  -> x > y
    [] op = ">=" -> x >= y
    [] op = "==" -> x = y
    [] op = "!=" -> x # y

inverse_op(op) ==
  CASE op = "<"  -> ">="
    [] op = "<=" -> ">"
    [] op = ">"  -> "<="
    [] op = ">=" -> "<"
    [] op = "==" -> "!="
    [] op = "!=" -> "=="

\* The increment is made in the field's type.
Increment(x) == (x + 1) % Modulus

\* A mutant: the strict comparisons are not strict.
rel_implies_loosely(l, r) ==
  CASE l.op = "==" -> RelOp(r.op, l.value, r.value)
    [] l.op = r.op -> l.value = r.value \/ RelOp(l.op, l.value, r.value)
    [] l.op = "<=" /\ r.op \in {"<", "!="} -> l.value <= r.value
    [] l.op = ">=" /\ r.op \in {">", "!="} -> l.value >= r.value
    [] OTHER -> FALSE

\* The overloads for two relations on one field, whichever values they have.
rel_implies(l, r) ==
  CASE l.op = "==" -> RelOp(r.op, l.value, r.value)
    [] l.op = r.op -> l.value = r.value \/ RelOp(l.op, l.value, r.value)
    [] l.op = "<=" /\ r.op \in {"<", "!="} -> l.value < r.value
    [] l.op = ">=" /\ r.op \in {">", "!="} -> l.value > r.value
    [] l.op = "<" /\ r.op = "<=" -> l.value <= Increment(r.value)
    [] l.op = ">" /\ r.op = ">=" -> Increment(l.value) >= r.value
    [] l.op = "<" /\ r.op = "!=" -> l.value <= r.value
    [] l.op = ">" /\ r.op = "!=" -> l.value >= r.value
    [] OTHER -> FALSE
=============================================================================
