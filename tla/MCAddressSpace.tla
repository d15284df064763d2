----------------------------- MODULE MCAddressSpace -----------------------------
(* Five frames under three levels of two entries: one address space with all  *)
(* its tables and a page beside the root of another, or the roots of several,  *)
(* with an exhausted pool at any depth.                                        *)
EXTENDS AddressSpace, TLC

CONSTANTS f1, f2, f3, f4, f5, device

MCFrames == {f1, f2, f3, f4, f5}
MCDevices == {device}
FrameSymmetry == Permutations(MCFrames)

=============================================================================
