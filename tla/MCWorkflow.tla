----------------------------- MODULE MCWorkflow -----------------------------
(* Instances of Workflow for TLC: all graphs and policies on a few steps. *)
EXTENDS Workflow, TLC

CONSTANTS a, b, c, S, name, template

ThreeSteps == {a, b, c}
OneSession == {S}

\* Its name, and an expression that is rendered to it.
TwoTexts == {name, template}

\* Every graph of the three steps, up to their names: a step depends on steps
\* before it in the order a, b, c.
Graphs == {(a :> {} @@ b :> g @@ c :> h) : g \in SUBSET {a}, h \in SUBSET {a, b}}

\* b has a condition, and b and c work on one session.  One worker may retry a;
\* two do not need to.  Nothing depends on c: whether its failure is recorded
\* or hidden makes no difference to the others.
Plain ==
  {[dependsOn   |-> g,
    onError     |-> p,
    retry       |-> [s \in Steps |-> IF s = a THEN 2 - n ELSE 0],
    session     |-> [s \in Steps |-> IF s = a THEN NoText ELSE name],
    names       |-> [y \in Texts |-> S],
    condition   |-> [s \in Steps |-> s = b],
    maxParallel |-> n] :
      g \in Graphs, n \in 1..2, p \in {q \in [Steps -> Policies] : q[c] # "ignore"}}

\* On two workers, b may write the name of the session as a template.
Templated ==
  {[def EXCEPT !.session[b] = template] :
     def \in {e \in Plain : e.maxParallel = 2 /\ e.onError[c] = "fail"}}

AllDefinitions == Plain \cup Templated
=============================================================================
