---------------------------- MODULE MCCopyBuffers ----------------------------
(* Rows of one and of two cells, in buffers of four: a batch of one row fits,  *)
(* two rows make the buffer grow, in the middle of a batch or at its trailer.  *)
EXTENDS CopyBuffers

\* Two rows fill a batch by their size, unless the third comes in the same chunk.
RowsByBytes == <<1, 2, 1>>
=============================================================================
