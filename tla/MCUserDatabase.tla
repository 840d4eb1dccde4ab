---------------------------- MODULE MCUserDatabase ----------------------------
(* Publications that repeat a key, conflict on it, collide on a record, or    *)
(* are empty.                                                                 *)
EXTENDS UserDatabase

CONSTANTS k1, k2, k3, f1, f2, a, b, c

Request(key, fp, ids) == [key |-> key, fp |-> fp, ids |-> ids]

MCRequests ==
    {Request(k1, f1, <<a, b>>), Request(k1, f2, <<a>>),
     Request(k2, f1, <<c, b>>), Request(k3, f1, <<>>)}
=============================================================================
