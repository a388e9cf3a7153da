----------------------------- MODULE MCWebhookRelay -----------------------------
(* A finite instance of WebhookRelay: a queue of two deliveries of three.  *)
EXTENDS WebhookRelay

\* One delivery of the monitored pull request, one of its repository as a
\* whole (a check), one of another repository.
MCDeliveries ==
    {[id |-> 1, repository |-> "r", number |-> 7],
     [id |-> 2, repository |-> "r", number |-> 0],
     [id |-> 3, repository |-> "s", number |-> 7]}

MCMonitors == {[id |-> 1, repository |-> "r", number |-> 7]}
================================================================================
