------------------------------- MODULE MCFlow -------------------------------
(***************************************************************************)
(* Instances of FlowRun for TLC: flows whose steps and sequences have      *)
(* runtime conditions.                                                     *)
(***************************************************************************)
EXTENDS FlowRun, FlowInputs

\* Steps that are added under a condition of their own, with conditional
\* sequences between them or a starred leaf in a conditional sequence.
Conditions == SUBSET {p, q}

ConditionalFlows ==
  {<<Fragment(Starred(a), ca), Fragment(Starred(b), cb), Fragment(Starred(c), {q}),
     Fragment(Sequence(a, b), cab), Fragment(Sequence(b, c), cbc)>> :
     ca \in Conditions, cb \in Conditions, cab \in Conditions, cbc \in Conditions}
  \cup {<<Fragment(Starred(b), {}),
          Fragment(Composite("seq", Composite(op, Starred(a), Starred(c), "REFERENCE"),
                             Ref(b), "REFERENCE"), cond),
          Fragment(Composite("seq", Ref(b), Starred(d), "REFERENCE"), {q})>> :
          op \in {"par", "seq"}, cond \in Conditions}
  \cup {<<Fragment(Composite("seq", Composite("par", Ref(a), Ref(b), "REFERENCE"), Ref(c), "VALUE"), {})>>}

\* A starred composite under a condition.
StarredFlows == {<<Fragment(Composite(op, Ref(a), Ref(b), "VALUE"), {p})>> : op \in {"par", "seq"}}

ConditionalTrees == ClosedUnderParts(TreesOf(ConditionalFlows))
StarredTrees == ClosedUnderParts(TreesOf(StarredFlows))

ASSUME ConditionalFlowsReach == Flows = ConditionalFlows => ConditionsReach
=============================================================================
