----------------------------- MODULE FswBlocks -----------------------------
(* The blocks the file system core and its drivers count a file in. *)
EXTENDS Integers

CONSTANT LogBlock   \* vol->log_blocksize

ASSUME BlockAssumption == LogBlock \in Nat \ {0}

BlockCount(f) == (f.size + LogBlock - 1) \div LogBlock

\* The byte of a hole; any other byte is the place on the disk it comes from.
Zero == <<0, 0>>
=============================================================================
