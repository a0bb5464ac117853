-------------------------- MODULE MC_Transcripts --------------------------
(***************************************************************************)
(* An instance of Transcripts: a task whose transcript has errors, missing *)
(* explanations, two lines of one instant and uploads that interleave, and *)
(* a task whose agent explains itself, in two uploads of which one is      *)
(* stored up to five times.                                                *)
(***************************************************************************)
EXTENDS Transcripts, TLC

CONSTANTS t1, t2, u1, u2, u3, u4, u5

Line(time, role, long, error) == [time |-> time, role |-> role, long |-> long, error |-> error]
Reasons(time) == Line(time, "assistant", TRUE, FALSE)
Stumbles(time) == Line(time, "assistant", TRUE, TRUE)
Replies(time) == Line(time, "assistant", FALSE, FALSE)
Calls(time) == Line(time, "tool", FALSE, FALSE)
Fails(time) == Line(time, "tool", FALSE, TRUE)
Says(time, role) == Line(time, role, FALSE, FALSE)

TwoTasks == [u \in Uploads |-> IF u \in {u4, u5} THEN t2 ELSE t1]
Sessions ==
     u1 :> <<Reasons(1), Calls(3), Calls(5)>>
  @@ u2 :> <<Stumbles(4)>>
  @@ u3 :> <<Says(3, "system"), Fails(6)>>
  @@ u4 :> <<Says(1, "user"), Reasons(2), Calls(3)>>
  @@ u5 :> <<Reasons(4), Calls(5), Replies(6)>>
Repeats == u1 :> 2 @@ u2 :> 2 @@ u3 :> 2 @@ u4 :> 5 @@ u5 :> 1

============================================================================
