------------------------------- MODULE RemoteWrite -------------------------------
(***************************************************************************)
(* What an approval-gated write promises about one idempotency key: an     *)
(* authorized write lands at most once, a write that was reported refused  *)
(* has not landed and never will, and only such a key is opened again.     *)
(* Written from the promise of the deliveries table; Delivery implements   *)
(* it for the actions whose refusals are definite.                         *)
(***************************************************************************)
CONSTANT Keys

VARIABLES phase,   \* "idle", "inflight", "unknown" or "done"
          written  \* has the write reached the remote?

wvars == <<phase, written>>

WTypeOK == /\ phase \in [Keys -> {"idle", "inflight", "unknown", "done"}]
           /\ written \in [Keys -> BOOLEAN]

WInit == /\ phase = [k \in Keys |-> "idle"]
         /\ written = [k \in Keys |-> FALSE]

Authorize(k) == /\ phase[k] = "idle"
                /\ ~written[k]
                /\ phase' = [phase EXCEPT ![k] = "inflight"]
                /\ UNCHANGED written

\* The remote applies the write, while the caller waits or after it gave up.
Apply(k) == /\ phase[k] \in {"inflight", "unknown"}
            /\ ~written[k]
            /\ written' = [written EXCEPT ![k] = TRUE]
            /\ UNCHANGED phase

Confirm(k) == /\ phase[k] = "inflight"
              /\ written[k]
              /\ phase' = [phase EXCEPT ![k] = "done"]
              /\ UNCHANGED written

Reject(k) == /\ phase[k] = "inflight"
             /\ ~written[k]
             /\ phase' = [phase EXCEPT ![k] = "idle"]
             /\ UNCHANGED written

GiveUp(k) == /\ phase[k] = "inflight"
             /\ phase' = [phase EXCEPT ![k] = "unknown"]
             /\ UNCHANGED written

WNext == \E k \in Keys : \/ Authorize(k) \/ Apply(k) \/ Confirm(k)
                         \/ Reject(k) \/ GiveUp(k)

WSpec == WInit /\ [][WNext]_wvars
================================================================================
