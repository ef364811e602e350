--------------------------- MODULE MessageHandler ---------------------------
(***************************************************************************)
(* msg::handler and msg::indexed_handler: messages are handled one by one, *)
(* while the predicates that runtime conditions ask may change at any      *)
(* time.  In addition to what IndexedBuilder says, a service has           *)
(*   owner      of each callback, the written callback it is from          *)
(*   accepts    of each, on which messages and predicates it runs          *)
(*   wanted     of each written callback, on which it is meant to run      *)
(***************************************************************************)
EXTENDS IndexedBuilder

CONSTANTS
  Messages,    \* functions from Fields to Values
  Predicates,
  no_msg       \* no message is being handled

ASSUME MessageTypes ==
  /\ Messages \subseteq [Fields -> Values]
  /\ no_msg \notin Messages
  /\ \A s \in Services : s.owner \in [1 .. s.count -> DOMAIN s.wanted]

VARIABLES
  msg,
  candidates,  \* callback_candidates that have not been invoked
  predicates,  \* those that are true
  served,      \* the written callbacks called, and what was true then
  steady       \* whether the predicates stayed the same during this message

handle_vars == <<msg, candidates, predicates, served, steady>>
vars == <<build_vars, handle_vars>>

Owners == DOMAIN service.wanted

HandlerInit ==
  /\ Init
  /\ msg = no_msg
  /\ candidates = {}
  /\ predicates \in SUBSET Predicates
  /\ served = {}
  /\ steady = TRUE

\* The predicates read state that anything may change.
Change(p) ==
  /\ stage = "built"
  /\ predicates' = IF p \in predicates THEN predicates \ {p} ELSE predicates \cup {p}
  /\ steady' = (msg = no_msg)
  /\ UNCHANGED <<build_vars, msg, candidates, served>>

\* index(msg): the intersection of what the indices yield.
callback_candidates(m) ==
  IF service.indexed
  THEN {idx \in Indices : \A f \in Indexed : idx \in lookup(f, m[f])}
  ELSE Indices

Handle(m) ==
  /\ stage = "built"
  /\ msg = no_msg
  /\ msg' = m
  /\ candidates' = callback_candidates(m)
  /\ steady' = TRUE
  /\ UNCHANGED <<build_vars, predicates, served>>

\* transform_reduce visits the set bits from the lowest; the operands of the
\* plain handler's fold over | are evaluated in any order.
MayBeNext(idx) == service.indexed => \A j \in candidates : idx <= j

\* A mutant: the or stops at the first callback that claims the message.
InvokeUntilClaimed(idx) ==
  /\ idx \in candidates
  /\ MayBeNext(idx)
  /\ IF <<msg, predicates>> \in service.accepts[idx]
     THEN /\ candidates' = {}
          /\ served' = served \cup {[owner |-> service.owner[idx], on |-> predicates]}
     ELSE /\ candidates' = candidates \ {idx}
          /\ UNCHANGED served
  /\ UNCHANGED <<build_vars, msg, predicates, steady>>

Invoke(idx) ==
  /\ idx \in candidates
  /\ MayBeNext(idx)
  /\ candidates' = candidates \ {idx}
  /\ served' = IF <<msg, predicates>> \in service.accepts[idx]
               THEN served \cup {[owner |-> service.owner[idx], on |-> predicates]}
               ELSE served
  /\ UNCHANGED <<build_vars, msg, predicates, steady>>

Return ==
  /\ msg # no_msg
  /\ candidates = {}
  /\ msg' = no_msg
  /\ served' = {}
  /\ steady' = TRUE
  /\ UNCHANGED <<build_vars, candidates, predicates>>

HandlerNext ==
  \/ BuildNext /\ UNCHANGED handle_vars
  \/ \E p \in Predicates : Change(p)
  \/ \E m \in Messages : Handle(m)
  \/ \E idx \in Indices : Invoke(idx)
  \/ Return

HandlerSpec == HandlerInit /\ [][HandlerNext]_vars

----------------------------------------------------------------------------
\* What is left to the indices and what the callbacks still ask, together.
Covers(o, m, on) ==
  \E idx \in Indices :
    /\ service.owner[idx] = o
    /\ <<m, on>> \in service.accepts[idx]
    /\ service.indexed => \A f \in Indexed : Agrees(idx, f, m[f])

(* include/msg/field_matchers.hpp, remove_terms: what is removed from a     *)
(* callback's matcher is accounted for in the indexing: a written callback  *)
(* is meant to run exactly if one of its terms has its literals on indexed  *)
(* fields satisfied and accepts the message with what is left of it.        *)
TermsMeanMatchers ==
  stage = "built" /\ msg = no_msg =>
    \A o \in Owners, m \in Messages, on \in SUBSET Predicates :
      <<m, on>> \in service.wanted[o] <=> Covers(o, m, on)

HandlerTypeOK ==
  /\ BuilderTypeOK
  /\ msg \in Messages \cup {no_msg}
  /\ candidates \subseteq Indices
  /\ predicates \subseteq Predicates
  /\ served \subseteq [owner : Owners, on : SUBSET Predicates]
  /\ steady \in BOOLEAN

\* No callback runs on a message its matcher, as written, does not accept.
OnlyMatchedRun == \A c \in served : <<msg, c.on>> \in service.wanted[c.owner]

\* Every callback whose matcher accepts the message has run when handle
\* returns, if the predicates did not change meanwhile.
AllMatchedRun ==
  msg # no_msg /\ candidates = {} /\ steady =>
    \A o \in Owners : <<msg, predicates>> \in service.wanted[o] =>
      \E c \in served : c.owner = o

(* docs/message.adoc, `Handling messages': a service calls the callbacks    *)
(* whose matchers accept the message, and no others; the indices, the       *)
(* separation into terms and the simplification of matchers do not show.    *)
CalledAsMatched == OnlyMatchedRun /\ AllMatchedRun
=============================================================================
