---------------------------- MODULE MCA2dpDevice ----------------------------
(* Key lists for the wrapper device, and the symmetry of its streams.        *)
EXTENDS A2dpDevice, TLC

NoKeys == <<>>
TwoKeys == <<"A2dpSuspended", "setMode">>
Symmetry == Permutations(Streams \ Offload)
=============================================================================
