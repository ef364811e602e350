----------------------------- MODULE MCMessages -----------------------------
(***************************************************************************)
(* Instances of MessageService for TLC: messages of two fields of three    *)
(* values, both indexed, and callbacks of small matchers.                  *)
(***************************************************************************)
EXTENDS MessageService

CONSTANTS f, g, p

AllMessages == [Fields -> Values]

Written(m, message, conditions) ==
  [matcher |-> m, message |-> message, conditions |-> conditions]

Eq(field, v) == rel_matcher("==", field, v)

Joins(ls, rs) == {Joined(kind, l, r) : kind \in {"and", "or"}, l \in ls, r \in rs}
Negations(ms) == {not_t(m) : m \in ms}

----------------------------------------------------------------------------
\* Two relations on one field, in every combination and at every value.
Relations ==
  {rel_matcher(op, f, v) : op \in {"<", "<=", ">", ">=", "==", "!="}, v \in Values}

\* Expressions of up to three atoms and three operators.
Atoms == {Eq(f, 0), Eq(f, 1), rel_matcher("<", f, 1), Eq(g, 1), predicate(p)}
Simple == Atoms \cup Negations(Atoms)
Expressions == Joins(Simple, Atoms) \cup Negations(Joins(Atoms, Atoms))
Nested ==
  Joins(Joins(Atoms, Atoms), Simple) \cup Joins(Negations(Joins(Atoms, Atoms)), Atoms)

----------------------------------------------------------------------------
\* The values that the negation normal form of m compares a field with.
Excluded(m, field) ==
  {t.value : t \in {u \in Range(index_not_terms(sum_of_products(m))) : u.field = field}}
Required(m, field) ==
  {t.value : t \in {u \in Range(index_terms(sum_of_products(m))) : u.field = field}}

\* Where != is involved the implications hold only for one value.
OneExclusion(m) ==
  \A field \in Fields : Excluded(m, field) # {} =>
    Cardinality(Excluded(m, field) \cup Required(m, field)) = 1

RECURSIVE HasNot(_)
HasNot(m) ==
  CASE IsTerm(m) -> HasNot(m.lhs) \/ HasNot(m.rhs)
    [] m.kind = "not" -> TRUE
    [] OTHER -> FALSE

\* What the indices need, and what remove_terms needs.
WellIndexed(s) ==
  /\ OneLiteral(s)
  /\ NoSharedNegative(s)
  /\ \A idx \in 1 .. s.count : ~HasNot(s.matchers[idx])

Regular(ms) == {m \in ms : OneExclusion(m)}

Made(indexed, css) == {Service(indexed, cs) : cs \in css}

Alone(ms) == {<<Written(m, always, <<>>)>> : m \in ms}

\* Pairs of callbacks, of which one is for a message with a matcher and the
\* other under a runtime condition.
PairMatchers ==
  {always, Eq(f, 0), Eq(f, 1), not_t(Eq(f, 0)), not_t(Eq(f, 2)), Eq(g, 0), not_t(Eq(g, 1)),
   rel_matcher("<", f, 2), or_t(Eq(f, 0), Eq(f, 2)), or_t(Eq(f, 1), Eq(g, 1)),
   and_t(not_t(Eq(f, 1)), Eq(g, 2)), and_t(Eq(f, 2), or_t(predicate(p), Eq(g, 0)))}

Pairs ==
  {<<Written(m, message, <<>>), Written(n, always, cond)>> :
     m \in PairMatchers, n \in PairMatchers,
     message \in {always, Eq(g, 1)}, cond \in {<<>>, <<p>>}}

\* Three callbacks, in every order of one pool.
TripleMatchers == {Eq(f, 0), not_t(Eq(f, 1)), not_t(Eq(f, 2)), or_t(Eq(f, 1), predicate(p))}

Triples ==
  {<<Written(l, always, <<>>), Written(m, always, <<>>), Written(n, always, <<>>)>> :
     l \in TripleMatchers, m \in TripleMatchers, n \in TripleMatchers}

PlainServices ==
  Made(FALSE, Alone(Regular(Joins(Relations, Relations) \cup Expressions \cup Nested)) \cup Pairs)

IndexedServices ==
  {s \in Made(TRUE, Alone(Regular(Expressions \cup Nested)) \cup Pairs \cup Triples) :
     WellIndexed(s)}

AllServices == PlainServices \cup IndexedServices
=============================================================================
