----------------------------- MODULE MCSndkit -----------------------------
(* Instances of Sndkit: buffers of 24 bytes hold 8 short or 6 long samples *)
EXTENDS Sndkit

SomeTrailers == {0, 8, -6}
===========================================================================
