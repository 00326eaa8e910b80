----------------------------- MODULE BarkWorker -----------------------------
(***************************************************************************)
(* The worker: registrations and pushes, of any number of isolates, over   *)
(* one `devices` table, while the operator redeploys the configuration.    *)
(***************************************************************************)
EXTENDS Registration, Push

vars == <<devices, registrationVars, pushVars>>

Init == RegistrationInit /\ PushInit

RegistrationNext ==
    /\ \/ \E policy \in Policies : Redeploy(policy)
       \/ \E r \in Registrant : RegistrationArrives(r) \/ RegistrationStep(r)
    /\ UNCHANGED pushVars

PushNext ==
    /\ \E p \in Pusher :
          \/ \E k \in Key \cup {NoKey} : StartPush(p, k)
          \/ PushStep(p)
    /\ UNCHANGED registrationVars

Next == RegistrationNext \/ PushNext

\* D1 answers or throws, and the fetch to APNs has a time-out, so no request
\* under way waits for ever.  Nobody is obliged to send a request.
Fairness ==
    /\ \A r \in Registrant : WF_vars(RegistrationStep(r) /\ UNCHANGED pushVars)
    /\ \A p \in Pusher : WF_vars(PushStep(p) /\ UNCHANGED registrationVars)

SafetySpec == Init /\ [][Next]_vars

Spec == SafetySpec /\ Fairness

-----------------------------------------------------------------------------
(* Properties *)

WorkerTypeOK == RegistrationTypeOK /\ PushTypeOK

\* README "MAX_DEVICES": concurrent registrations served with different
\* configurations never grow the table beyond what some configuration (or the
\* import) allowed, although each of them counts rows that others add.
DeviceLimit == countAll <= ceiling

\* No push ever takes the token of a device that registered anew while the
\* push was waiting for APNs: a row holds what was stored last, or lost
\* exactly that token to an APNs verdict on it.
StoredOrRetired ==
    \A k \in Rows :
        \/ devices[k] = stored[k]
        \/ devices[k] = Cleared /\ stored[k] \in dead

\* README: a key that exists is not subject to the device limit and can go on
\* updating its token, also under "existing-only" and after its token was
\* cleared.  The row is still there when the UPDATE runs.
KnownKeyIsServed ==
    \A r \in Registrant :
        known[r] => rphase[r] \notin {"insert", "count", "enrolled", "disabled",
                                      "limitReached", "exhausted"}

\* "device limit reached" is answered only when it is so, and stays true: rows
\* are never removed, so a refused device cannot have been refused in vain.
RefusalIsJustified ==
    \A r \in Registrant :
        rphase[r] = "limitReached" => countAll >= rpolicy[r].maxDevices

\* The key is the capability: the token of an existing row is replaced only by
\* a request that presented that very key, never by the INSERT of a request
\* whose generated key collides with it, and no row ever disappears.
RowsChangeByTheirKey ==
    [][\A k \in Rows :
          devices'[k] # devices[k] =>
              \/ devices'[k] = Cleared
              \/ \E r \in Registrant :
                     rphase[r] = "update" /\ rkey[r] = k /\ devices'[k] = rtoken[r]
      ]_vars

\* Every request is answered: the generation loop ends although each key it
\* generates may collide, and no push waits for ever.
RequestsSettle ==
    /\ \A r \in Registrant : rphase[r] \in Registering ~> rphase[r] \in Registered
    /\ \A p \in Pusher : pphase[p] \in Pushing ~> pphase[p] \in Pushed

Directory == INSTANCE DeviceDirectory WITH directory <- devices

\* The worker implements the directory.
ImplementsDirectory == Directory!Spec

=============================================================================
