---------------------------- MODULE MCDirentScan ----------------------------
(* An instance of DirentScan for TLC. *)
EXTENDS DirentScan, TLC

CONSTANTS lister, other, shell

Threads == {lister, other, shell}

(* Names that the maps do not know, of the integrated and of the offload GPU. *)
Plain == {}
Igpu  == {[gpu |-> 0, blocked |-> FALSE]}
Dgpu  == {[gpu |-> 1, blocked |-> TRUE]}

Buffer(entry, len) == [entry |-> entry, off |-> [i \in 1..(Len(entry) + 1) |-> (i - 1) * len]]

(* Every order of up to three hidden and other names and two orders of four;  *)
(* longer records; a buffer that is too large for the hook, whose lengths     *)
(* would overflow.                                                           *)
Buffers ==
  {Buffer(entry, 2) : entry \in UNION {[1..n -> {Plain, Dgpu}] : n \in 0..3}}
    \cup {Buffer(<<Dgpu, Plain, Dgpu, Dgpu>>, 2), Buffer(<<Plain, Dgpu, Dgpu, Plain>>, 2),
          Buffer(<<Igpu, Dgpu, Plain>>, 3), Buffer(<<Plain, Dgpu, Dgpu, Dgpu, Dgpu>>, 2)}

Returned == [t \in Threads |-> IF t = lister THEN Buffers ELSE {Buffer(<<Plain, Dgpu>>, 2)}]
=============================================================================
