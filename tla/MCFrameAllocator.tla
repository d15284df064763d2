--------------------------- MODULE MCFrameAllocator ---------------------------
(* Two owners, three frames, words that range over every possible link.      *)
EXTENDS FrameAllocator

CONSTANTS c1, c2

MCClients == {c1, c2}
MCWords == 0..MaxFrames

=============================================================================
