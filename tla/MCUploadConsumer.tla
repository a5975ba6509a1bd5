-------------------------- MODULE MCUploadConsumer --------------------------
(* Constants for model-checking UploadConsumer. *)
EXTENDS UploadConsumer

\* Small files, with every third one large enough to fill a session by itself.
MCSize == [f \in 1..N |-> IF f % 3 = 1 THEN 3 ELSE 1]
=============================================================================
