----------------------------- MODULE MCGateway -----------------------------
EXTENDS Gateway, TLC

CONSTANTS m1, m2, m3, m4

MCPrompt == (m1 :> [text |-> "orchestrate", marked |-> FALSE]) @@
            (m2 :> [text |-> "orchestrate", marked |-> FALSE]) @@
            (m3 :> [text |-> "route", marked |-> FALSE]) @@
            (m4 :> [text |-> "route", marked |-> TRUE])

MCRules == <<[prefix |-> {"route"}, mode |-> "route"],
             [prefix |-> {"orchestrate", "route"}, mode |-> "orchestrate"]>>

Symmetry == Permutations(Requests) \cup Permutations(Models) \cup Permutations(Agents)
            \cup Permutations({m1, m2})
=============================================================================
