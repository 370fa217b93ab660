-------------------------------- MODULE MCPacker --------------------------------
(* Instances of Packer for TLC. *)
EXTENDS Packer, TLC

CONSTANTS d1, d2

Item(sr, size, origin) == [sr |-> sr, size |-> size, origin |-> origin]

\* A request that can be packed alone, one of another origin that is too small for
\* that, and two that are released together: the first one again, and one larger
\* than a sector.
MCMessages ==
    {[op |-> 1, items |-> <<Item("s1", 2, "o1")>>],
     [op |-> 2, items |-> <<Item("s3", 1, "o2")>>],
     [op |-> 3, items |-> <<Item("s1", 2, "o1"), Item("s2", 5, "o1")>>]}
================================================================================
