--------------------------- MODULE MCUnetChannels ---------------------------
(* UnetChannels for the instance with several remotes that call the one    *)
(* listener: they differ in nothing but their name.                        *)
EXTENDS UnetChannels, TLC

ClientSymmetry == Permutations(Clients)
=============================================================================
