--------------------------- MODULE MCMailDelivery ---------------------------
(* Instances of MailDelivery for TLC. *)
EXTENDS MailDelivery

\* A message can be encoded as a new turn or as input to the current one.
TwoEncodings == {1, 2}
=============================================================================
