---------------------------- MODULE MCSshConnect ----------------------------
EXTENDS SshConnect

CONSTANTS a1, a2, t1, t2

(* The same pane twice, over a jump host; two panes; a phone; each mode.   *)
Base == [tab |-> [a \in Attempts |-> IF a = a1 THEN t1 ELSE t2], phone |-> {},
         strictness |-> "prompt", jump |-> FALSE, patient |-> TRUE, stored |-> FALSE]
Same == [Base EXCEPT !.tab = [a \in Attempts |-> t1]]
Phone == [Base EXCEPT !.phone = {a2}, !.patient = FALSE, !.jump = TRUE, !.stored = TRUE]

MCScenes ==
  { Base, [Same EXCEPT !.jump = TRUE], [Same EXCEPT !.patient = FALSE],
    [Base EXCEPT !.patient = FALSE], [Base EXCEPT !.strictness = "strict"],
    [Base EXCEPT !.strictness = "auto-accept"], Phone,
    [Phone EXCEPT !.strictness = "auto-accept"], [Phone EXCEPT !.strictness = "strict"] }
=============================================================================
