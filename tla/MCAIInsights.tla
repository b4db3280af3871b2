---------------------------- MODULE MCAIInsights ----------------------------
(* Instances of AIInsights for TLC: three requests for one run, whose          *)
(* findings repeat a rule, are more than the model is told, or are none.      *)
EXTENDS AIInsights

F(id, rule, severity) == [id |-> id, rule |-> rule, severity |-> severity]

\* Rule 1 has an observation with a lower id than its critical finding, and
\* rules 2 and 3 compete for the last place.
MCFindingSets ==
    { {},
      {F(1, 1, "observation"), F(2, 1, "critical"), F(3, 2, "warning"),
       F(4, 3, "warning"), F(5, 3, "observation")} }

\* Finding 9 is of another run; two answers cite the same.
MCResponses == {[text |-> "a", finding_ids |-> <<>>], [text |-> "a", finding_ids |-> <<9, 2, 3, 2>>],
                [text |-> "b", finding_ids |-> <<2, 3, 9>>]}
=============================================================================
