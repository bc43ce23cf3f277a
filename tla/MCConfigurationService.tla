----------------------- MODULE MCConfigurationService -----------------------
(***************************************************************************)
(* Two tasks that change the configuration and two read leases.            *)
(***************************************************************************)
EXTENDS ConfigurationService, TLC

CONSTANTS touch, web, r1, r2

\* The two tasks run the same code, and so do the readers.
Alike == Permutations({touch, web}) \cup Permutations({r1, r2})

=============================================================================
