----------------------------- MODULE MCSpiFlash -----------------------------
(* A small instance of SpiFlash for TLC. *)
EXTENDS SpiFlash

Request(a, b, c, d) == [dsec |-> a, dpiece |-> b, esec |-> c, epiece |-> d]

\* The boot loader in the first sector, with and without a part of a sector; the
\* image in the others: a part of a sector before, whole ones, a part behind;
\* nothing at all; and too much.
Calls == {Request(0, 0, 0, 1), Request(1, 1, 3, 1), Request(1, 1, 4, 0),
          Request(1, 1, 1, 1), Request(1, 1, 4, 1)}
=============================================================================
