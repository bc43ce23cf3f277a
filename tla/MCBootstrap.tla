---------------------------- MODULE MCBootstrap ----------------------------
(* A device with up to three epochs, two faults, short lockouts.           *)
EXTENDS Bootstrap

MCAttempts == [k \in Kinds |-> IF k = "web" THEN 2 ELSE 1]
MCLockCap == [k \in Kinds |-> IF k = "web" THEN 2 ELSE 1]
=============================================================================
