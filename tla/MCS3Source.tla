----------------------------- MODULE MCS3Source -----------------------------
EXTENDS S3Source

(* The reads: the first byte of the first object, and an empty range.      *)
MCRequests ==
  {[seg |-> 1, beg |-> 0, end |-> 1], [seg |-> 1, beg |-> 1, end |-> 1]}
=============================================================================
