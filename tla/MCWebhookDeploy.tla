-------------------------- MODULE MCWebhookDeploy ---------------------------
(* Three jobs of one project: one runs, one holds the second slot waiting  *)
(* for the mutex, one waits for a slot.                                    *)
EXTENDS WebhookDeploy
=============================================================================
