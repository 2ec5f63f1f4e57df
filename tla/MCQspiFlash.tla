---------------------------- MODULE MCQspiFlash ----------------------------
(***************************************************************************)
(* The flash driver for TLC.                                               *)
(***************************************************************************)
EXTENDS QspiFlash

\* An address and a length: a range that crosses a page and a sector, and the
\* whole flash.
FlashRanges == {<<1, 2>>, <<0, 4>>}
=============================================================================
