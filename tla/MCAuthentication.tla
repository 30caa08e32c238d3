-------------------------- MODULE MCAuthentication ---------------------------
(* The instance of Authentication that TLC checks: keys and starts are interchangeable. *)
EXTENDS Authentication, TLC

Symmetry == Permutations(Keys) \cup Permutations(Bootstraps)
            \cup Permutations(AuthRequests)
=============================================================================
