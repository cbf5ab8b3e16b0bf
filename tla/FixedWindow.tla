---------------------------- MODULE FixedWindow ----------------------------
(***************************************************************************)
(* What a limiter promises its callers (rate.Limiter, internal/rate):       *)
(* per key a window has a quota of Limit units; a caller is granted only by *)
(* taking a unit that is left, refused only when none is left, and          *)
(* unmetered when the limiter could not answer.  Units may be lost to calls *)
(* whose answer never arrived.  A window may end at any time.               *)
(***************************************************************************)
EXTENDS Integers

CONSTANTS Keys, Callers, Limit

VARIABLES used, verdict

fwVars == <<used, verdict>>

FWInit ==
    /\ used = [k \in Keys |-> 0]
    /\ verdict = [c \in Callers |-> "none"]

\* Mutant: the limit is not looked at.
GrantUnlimited(c, k, u) ==
    /\ used[k] < u
    /\ used' = [used EXCEPT ![k] = u]
    /\ verdict' = [verdict EXCEPT ![c] = "granted"]

Grant(c, k, u) ==
    /\ used[k] < u /\ u <= Limit
    /\ used' = [used EXCEPT ![k] = u]
    /\ verdict' = [verdict EXCEPT ![c] = "granted"]

Refuse(c, k) ==
    /\ used' = [used EXCEPT ![k] = Limit]
    /\ verdict' = [verdict EXCEPT ![c] = "refused"]

Unmetered(c, k, u) ==
    /\ used[k] <= u /\ u <= Limit
    /\ used' = [used EXCEPT ![k] = u]
    /\ verdict' = [verdict EXCEPT ![c] = "unmetered"]

Forget(c) ==
    /\ verdict' = [verdict EXCEPT ![c] = "none"]
    /\ UNCHANGED used

\* The windows of the keys in ended are over.
Renew(ended) ==
    /\ used' = [k \in Keys |-> IF k \in ended THEN 0 ELSE used[k]]
    /\ UNCHANGED verdict

FWNext ==
    \/ \E c \in Callers, k \in Keys :
          \/ Refuse(c, k)
          \/ \E u \in 0 .. Limit : Grant(c, k, u) \/ Unmetered(c, k, u)
    \/ \E c \in Callers : Forget(c)
    \/ \E ended \in SUBSET Keys : Renew(ended)

FWSpec == FWInit /\ [][FWNext]_fwVars

=============================================================================
