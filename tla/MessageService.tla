--------------------------- MODULE MessageService ---------------------------
(***************************************************************************)
(* A message service with its callbacks: MessageHandler, for what the      *)
(* builder makes of callbacks as they are written.                         *)
(***************************************************************************)
EXTENDS Callbacks, MessageHandler

\* A callback of the builder: a matcher, and the written callback it is from.
Registered(o, m) == [owner |-> o, matcher |-> m]

\* handler_builder::add keeps a callback whole, indexed_builder_base::add
\* registers one for each term of the sum.
add(indexed, o, c) ==
  LET m == callback_matcher(c)
  IN IF indexed
     THEN [k \in DOMAIN separate_sum_terms(m) |-> Registered(o, separate_sum_terms(m)[k])]
     ELSE <<Registered(o, m)>>

\* The literals tagged in each callback, with its number, one callback after
\* the other.
walk_matcher(tagged) ==
  FlattenSeq([i \in DOMAIN tagged |->
    [k \in DOMAIN tagged[i] |-> [idx |-> i] @@ tagged[i][k]]])

\* invoke_callback: the matcher that is asked when the callback is invoked.
invoked_matcher(indexed, m) == IF indexed THEN remove_terms(m, Indexed) ELSE m

Cases == Messages \X SUBSET Predicates

\* The service that the written callbacks of the sequence cs make.
Service(indexed, cs) ==
  LET callbacks == FlattenSeq([o \in DOMAIN cs |-> add(indexed, o, cs[o])])
  IN [indexed |-> indexed,
      count |-> Len(callbacks),
      positive |-> walk_matcher([i \in DOMAIN callbacks |-> index_terms(callbacks[i].matcher)]),
      negative |-> walk_matcher([i \in DOMAIN callbacks |-> index_not_terms(callbacks[i].matcher)]),
      matchers |-> [i \in DOMAIN callbacks |-> callbacks[i].matcher],
      owner |-> [i \in DOMAIN callbacks |-> callbacks[i].owner],
      accepts |-> [i \in DOMAIN callbacks |->
        LET m == invoked_matcher(indexed, callbacks[i].matcher)
        IN {c \in Cases : Holds(m, c[1], c[2])}],
      wanted |-> [o \in DOMAIN cs |-> {c \in Cases : Meant(cs[o], c[1], c[2])}]]

=============================================================================
