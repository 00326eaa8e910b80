---------------------------- MODULE MCBarkWorker ----------------------------
(* A small instance: the limit is reached with two rows and raised to three. *)
EXTENDS BarkWorker, TLC

MCPolicies == {[mode |-> "open", maxDevices |-> 1],
               [mode |-> "open", maxDevices |-> 2],
               [mode |-> "existing-only", maxDevices |-> 2],
               [mode |-> "closed", maxDevices |-> 2]}

MCSymmetry == Permutations(Key) \cup Permutations(Token)
                \cup Permutations(Registrant) \cup Permutations(Pusher)

=============================================================================
