----------------------------- MODULE Callbacks -----------------------------
(***************************************************************************)
(* Callbacks on messages: the matcher a callback ends up with, the terms   *)
(* an indexed service separates it into, and what of a term the indices    *)
(* take over.  A written callback is a record of what the program says:    *)
(*   matcher    the expression given to msg::callback                      *)
(*   message    the matcher of the message definition                      *)
(*   conditions the runtime conditions around its cib::extend, inside out  *)
(***************************************************************************)
EXTENDS Matchers, SequencesExt, FiniteSetsExt

\* What the program says: the conjunction of its parts.
Meant(c, msg, on) ==
  /\ Holds(c.matcher, msg, on)
  /\ Holds(c.message, msg, on)
  /\ Range(c.conditions) \subseteq on

\* callback_construct_t::operator(), then make_runtime_conditional for each.
callback_matcher(c) ==
  FoldLeft(LAMBDA m, cond : sum_of_products(And(m, predicate(cond))),
           sum_of_products(And(Built(c.matcher), c.message)),
           c.conditions)

RECURSIVE terms_of(_)
terms_of(m) ==
  IF m.kind = "or" THEN terms_of(m.lhs) \o terms_of(m.rhs) ELSE <<m>>

separate_sum_terms(m) == terms_of(sum_of_products(simplify(and_t(always, m))))

Literal(m) == [field |-> m.field, value |-> m.value]

RECURSIVE index_terms(_)
index_terms(m) ==
  CASE IsTerm(m) -> index_terms(m.lhs) \o index_terms(m.rhs)
    [] m.kind = "rel" /\ m.op = "==" -> <<Literal(m)>>
    [] OTHER -> <<>>

RECURSIVE index_not_terms(_)
index_not_terms(m) ==
  CASE IsTerm(m) -> index_not_terms(m.lhs) \o index_not_terms(m.rhs)
    [] m.kind = "not" -> index_not_terms(m.m)
    [] m.kind = "rel" /\ m.op = "!=" -> <<Literal(m)>>
    [] OTHER -> <<>>

RECURSIVE remove_terms(_, _)
\* What is left of a matcher when the indices on fields have answered.  A not
\* is dropped, whatever is under it.
remove_terms(m, fields) ==
  CASE m.kind = "or" -> Or(remove_terms(m.lhs, fields), remove_terms(m.rhs, fields))
    [] m.kind = "and" -> And(remove_terms(m.lhs, fields), remove_terms(m.rhs, fields))
    [] m.kind = "not" -> remove_terms(m.m, fields)
    [] m.kind = "rel" /\ m.op \in {"==", "!="} /\ m.field \in fields -> always
    [] OTHER -> m
=============================================================================
