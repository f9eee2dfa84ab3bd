----------------------------- MODULE MCScheduled -----------------------------
(* Finite instances of ScheduledMessages. *)
EXTENDS ScheduledMessages

CONSTANTS u1, b1, b2, f1, d1, d2

OneAuthor == {u1}
NoFiles == {}
OneFile == {f1}
NoUploader == [f \in {} |-> u1]
OwnUpload == [f \in {f1} |-> u1]
===============================================================================
