----------------------------- MODULE MCEECache -----------------------------
(* Small instances of EECache.  No symmetry: slots are scanned in order.   *)
EXTENDS EECache

\* 0xFF and two other bytes; 0xFF and one other byte.
ThreeBytes == {0, 1, 255}
TwoBytes == {0, 255}
=============================================================================
