------------------------------ MODULE MCAutodev ------------------------------
EXTENDS Autodev

MCPipeline == <<"materialize-requirements", "implement-tasks">>
MCRemoteSteps == <<"commit-staged", "push", "issue", "pr">>

Entry(src, desc, prio) == [src |-> src, title |-> "T", desc |-> desc, prio |-> prio]

\* Two items that share a title, the second more urgent; then the first edited and the second withdrawn.
MCBacklogs == {<<Entry("a", 1, 1), Entry("b", 1, 0)>>, <<Entry("a", 2, 1)>>}

\* Nothing yet, or an item begun by an earlier version, which knew no backlog IDs.
MCLedgers == {<<>>, <<Migrated("T", 1, 1, "in-progress", "none")>>}
=============================================================================
