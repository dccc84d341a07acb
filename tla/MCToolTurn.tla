----------------------------- MODULE MCToolTurn -----------------------------
(* Instances of ToolTurn. *)
EXTENDS ToolTurn

Call(t, a) == [tool |-> t, arg |-> a]

(* One call of every route: the fast path, one reviewable mutation under   *)
(* two tools and another file, a call for the user only, the plan tools.   *)
ReadInside == Call("read_file", "inside")
WriteOutside == Call("write_file", "outside")
EditOutside == Call("edit_file", "outside")
EditElsewhere == Call("edit_file", "elsewhere")
CallServer == Call("mcp_tool", "any")
SubmitPlan == Call("submit_plan", "any")
UpdateTodo == Call("update_todo", "any")

(* A response is one call, or two that meet in the batch. *)
MCBatches ==
    {<<UpdateTodo>>, <<ReadInside, ReadInside>>,
     <<ReadInside, CallServer>>, <<WriteOutside, EditOutside>>,
     <<WriteOutside, EditElsewhere>>, <<SubmitPlan, SubmitPlan>>,
     <<UpdateTodo, WriteOutside>>}

(* Both sides of the risk gate. *)
Verdict(d, r, a) == [decision |-> d, risk |-> r, authorization |-> a]
MCVerdicts ==
    {Verdict("approve", "medium", "unknown"), Verdict("approve", "high", "medium"),
     Verdict("approve", "high", "low"), Verdict("approve", "critical", "high"),
     Verdict("escalate", "low", "high")}

=============================================================================
