----------------------------- MODULE MCDiscussion -----------------------------
(***************************************************************************)
(* Discussion for TLC: two challenges, each of a section of its own, and   *)
(* what a provider may answer of them.                                     *)
(***************************************************************************)
EXTENDS Discussion, TLC

CONSTANTS i1, i2, k1, k2

\* Each challenge belongs to a section of its own.
MCOwnKey == (i1 :> k1) @@ (i2 :> k2)

\* An answer with the challenges in either list, and at most one decision:
\* about a ticket this answer made, one an earlier answer made, or a new one.
Lists == {[open |-> {}, deferred |-> {}], [open |-> {i1}, deferred |-> {i2}],
          [open |-> {i2}, deferred |-> {i1}], [open |-> {}, deferred |-> {i1, i2}]}
Decisions ==
  {<< >>} \cup {<<[action |-> a, id |-> Id(k2, i2)]>> : a \in {"close", "defer", "keep-open"}}
    \cup {<<[action |-> "add", key |-> k, text |-> i1, severity |-> "advisory"]>> : k \in Keys}
MCAnswers == {[target |-> k, open |-> l.open, deferred |-> l.deferred, decisions |-> d] :
                k \in Keys, l \in Lists, d \in Decisions}
=============================================================================
