--------------------------- MODULE MCFrameIdWrap ---------------------------
(* Model-checking instance of FrameIdWrap.                                 *)
EXTENDS FrameIdWrap

(* The widest window the three-zone machine resolves: a quarter of the     *)
(* 8-bit id space either way (found by checking 65, which fails).          *)
MCWindow == 64

(* A forward gap under half the 8-bit id space, the tolerance spec.md      *)
(* section 4.2 states.                                                     *)
MCHalfWireGap == 100

(* Two full wraps of the 8-bit id and part of a third.                     *)
MCMaxFrameId == 600

(* A stream starts at the startup id -1 or is joined at any 8-bit id.      *)
MCFirstIds == -1 .. 255
MCGapFirstIds == -1 .. (MCHalfWireGap - 1)
=============================================================================
