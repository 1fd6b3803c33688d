-------------------------------- MODULE MCCli --------------------------------
(* Two processes and two users, whose ids differ in length by more than one.  *)
EXTENDS Cli, TLC

CONSTANTS alice, bob

MCUser  == {alice, bob}
MCWidth == [u \in MCUser |-> IF u = alice THEN 1 ELSE 3]

ProcessSymmetry == Permutations(Process)

=============================================================================
