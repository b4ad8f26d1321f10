----------------------------- MODULE MCWebhooks -----------------------------
(* A small instance of Webhooks: one event that two hooks want.               *)
EXTENDS Webhooks, TLC

CONSTANTS e1, h1, h2

Wanted == {<<e1, h1>>, <<e1, h2>>}
=============================================================================
