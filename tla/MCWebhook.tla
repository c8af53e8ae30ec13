------------------------------ MODULE MCWebhook ------------------------------
(* Instances of WebhookDelivery for TLC.                                   *)
EXTENDS WebhookDelivery, TLC

\* Tokens are interchangeable (safety runs only).
Symmetry == Permutations(Token) \cup Permutations(Delivery)
=============================================================================
