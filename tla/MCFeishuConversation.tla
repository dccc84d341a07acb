------------------------ MODULE MCFeishuConversation ------------------------
(* Two clients of the session lifecycle, each explored by itself.              *)
(*                                                                             *)
(* One conversation of three messages and up to three sessions, each on a      *)
(* stored session and a harness of its own: two replacements by /new.  And a *)
(* delegation of a parent run whose tools were narrowed or not.                *)
EXTENDS FeishuConversation, ChildRun

CONSTANTS s1, s2, s3, t1, t2, t3

VARIABLE part

MCSessions == {s1, s2, s3}
MCIdOf == [s \in MCSessions |-> s]
MCRuns == {t1, t2, t3}

MCDelegations == {s1}
MCChildSession == [d \in MCDelegations |-> d]
MCChildCall == [d \in MCDelegations |-> t1]
MCExternal == {"search", "deploy"}
MCReaders == {"search"}
MCSurfaces == {{"bash", "edit_file", "read_file", "write_file", "delegate_task", "search", "deploy"},
               {"read_file", "write_file", "delegate_task"}}

\* The part that is not explored has one initial state.
MCInit ==
    /\ ConvInit /\ ChildInit
    /\ part \in {"conversation", "child"}
    /\ part = "conversation" => coordination = "none"

MCNext ==
    \/ part = "conversation" /\ ConvNext /\ UNCHANGED <<part, childVars>>
    \/ part = "child" /\ ChildNext /\ UNCHANGED <<part, convVars>>

MCSpec == MCInit /\ [][MCNext]_<<part, vars, convVars, childVars>> /\ ConvFairness /\ ChildFairness
=============================================================================
