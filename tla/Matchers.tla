------------------------------ MODULE Matchers ------------------------------
(***************************************************************************)
(* The match library and the field matchers of msg: a matcher is a type,   *)
(* built while compiling by operators that simplify as they go.  Here it   *)
(* is a record, and `is the same type as' is equality of records.          *)
(***************************************************************************)
EXTENDS FieldRelations, Sequences

always == [kind |-> "always"]
never == [kind |-> "never"]
predicate(name) == [kind |-> "predicate", name |-> name]
rel_matcher(op, field, value) ==
  [kind |-> "rel", op |-> op, field |-> field, value |-> value]
not_t(m) == [kind |-> "not", m |-> m]
and_t(l, r) == [kind |-> "and", lhs |-> l, rhs |-> r]
or_t(l, r) == [kind |-> "or", lhs |-> l, rhs |-> r]

Flip(kind) == IF kind = "and" THEN "or" ELSE "and"
Joined(kind, l, r) == [kind |-> kind, lhs |-> l, rhs |-> r]
IsTerm(m) == m.kind \in {"and", "or"}

RECURSIVE Holds(_, _, _)
\* operator() on a message, when the predicates in on are true.
Holds(m, msg, on) ==
  CASE m.kind = "always" -> TRUE
    [] m.kind = "never" -> FALSE
    [] m.kind = "predicate" -> m.name \in on
    [] m.kind = "rel" -> RelOp(m.op, msg[m.field], m.value)
    [] m.kind = "not" -> ~Holds(m.m, msg, on)
    [] m.kind = "and" -> Holds(m.lhs, msg, on) /\ Holds(m.rhs, msg, on)
    [] m.kind = "or" -> Holds(m.lhs, msg, on) \/ Holds(m.rhs, msg, on)

negate(m) ==
  CASE m.kind = "always" -> never
    [] m.kind = "never" -> always
    [] m.kind = "rel" -> [m EXCEPT !.op = inverse_op(@)]
    [] m.kind = "not" -> m.m
    [] OTHER -> not_t(m)

RECURSIVE cost(_)
cost(m) ==
  CASE IsTerm(m) -> cost(m.lhs) + cost(m.rhs) + 1
    [] m.kind = "not" -> cost(m.m) + 1
    [] OTHER -> 1

----------------------------------------------------------------------------
RECURSIVE implies(_, _)
\* The most specialised overload decides: an or on the right, then an and on
\* the left, then relations on one field; otherwise equality of types.
implies(l, r) ==
  CASE l.kind = "never" \/ r.kind = "always" -> TRUE
    [] r.kind = "or" -> implies(l, r.lhs) \/ implies(l, r.rhs)
    [] l.kind = "and" /\ r.kind # "or" -> implies(l.lhs, r) \/ implies(l.rhs, r)
    [] l.kind = "rel" /\ r.kind = "rel" ->
         l.field = r.field /\ rel_implies(l, r)
    [] OTHER -> l = r

de_morgan(kind, l, r) ==
  LET plain == Joined(kind, l, r)
      dual == negate(Joined(Flip(kind), negate(l), negate(r)))
  IN IF cost(dual) < cost(plain) THEN dual ELSE plain

simplify_and(l, r) ==
  CASE implies(l, r) -> l
    [] implies(r, l) -> r
    [] implies(l, negate(r)) \/ implies(r, negate(l)) -> never
    [] OTHER -> de_morgan("and", l, r)

simplify_or(l, r) ==
  CASE implies(l, r) -> r
    [] implies(r, l) -> l
    [] implies(negate(l), r) \/ implies(negate(r), l) -> always
    [] OTHER -> de_morgan("or", l, r)

RECURSIVE simplify(_)
simplify(m) ==
  CASE m.kind = "and" -> simplify_and(simplify(m.lhs), simplify(m.rhs))
    [] m.kind = "or" -> simplify_or(simplify(m.lhs), simplify(m.rhs))
    [] m.kind = "not" -> negate(simplify(m.m))
    [] OTHER -> m

\* The operators and, or and not of the global namespace.
And(l, r) == simplify(and_t(l, r))
Or(l, r) == simplify(or_t(l, r))
Not(m) == simplify(negate(m))

RECURSIVE sum_of_products(_)
sum_of_products(m) ==
  CASE m.kind = "and" ->
         LET l == sum_of_products(m.lhs)
             r == sum_of_products(m.rhs)
         IN CASE l.kind = "or" -> or_t(sum_of_products(and_t(l.lhs, r)),
                                       sum_of_products(and_t(l.rhs, r)))
              [] r.kind = "or" -> or_t(sum_of_products(and_t(l, r.lhs)),
                                       sum_of_products(and_t(l, r.rhs)))
              [] OTHER -> and_t(l, r)
    [] m.kind = "or" -> or_t(sum_of_products(m.lhs), sum_of_products(m.rhs))
    [] m.kind = "not" /\ m.m.kind = "and" ->
         or_t(sum_of_products(negate(m.m.lhs)), sum_of_products(negate(m.m.rhs)))
    [] m.kind = "not" /\ m.m.kind = "or" ->
         sum_of_products(and_t(sum_of_products(negate(m.m.lhs)),
                               sum_of_products(negate(m.m.rhs))))
    [] OTHER -> m

RECURSIVE Built(_)
\* The matcher an expression makes, one operator after the other.
Built(w) ==
  CASE w.kind = "and" -> And(Built(w.lhs), Built(w.rhs))
    [] w.kind = "or" -> Or(Built(w.lhs), Built(w.rhs))
    [] w.kind = "not" -> Not(Built(w.m))
    [] OTHER -> w
=============================================================================
