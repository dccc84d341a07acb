--------------------------- MODULE MCAgentSession ---------------------------
(* Two AgentSessions opened on one stored session, one on another, a limiter *)
(* smaller than the number of sessions that can run.                         *)
EXTENDS AgentSession, TLC

CONSTANTS s1, s2, s3, i1, i2, r1, r2, r3, c1, c2

MCSessions == {s1, s2, s3}
MCIds == {i1, i2}
MCIdOf == (s1 :> i1) @@ (s2 :> i1) @@ (s3 :> i2)
MCRuns == {r1, r2, r3}
MCRecoverers == {c1, c2}

\* Runs are interchangeable, and so are recoverers and the two sessions of i1.
MCSymmetry == Permutations(MCRuns) \cup Permutations(MCRecoverers) \cup Permutations({s1, s2})
=============================================================================
