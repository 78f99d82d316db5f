---------------------------- MODULE MCPgMetadata ----------------------------
(* PgMetadata with a file that is cut in two ways and one that is given    *)
(* two sizes, two repositories of one owner and one of another.            *)
EXTENDS PgMetadata

CONSTANTS f1, f2, x1, x2, ra, rb, rc, o1, o2

Whole == <<<<x1, 2>>>>
Split == <<<<x1, 1>>, <<x2, 1>>>>
Long  == <<<<x2, 2>>>>
Short == <<<<x2, 1>>>>
MCSegs == [f \in Files |-> IF f = f1 THEN {Whole, Split} ELSE {Long, Short}]
MCLockKey == [f \in Files |-> f]
MCOwnerOf == [p \in Repos |-> IF p = rc THEN o2 ELSE o1]
MCSizeOf  == [x \in Xorbs |-> IF x = x1 THEN 3 ELSE 5]

One(l) == [file |-> f1, list |-> l]
Two(l) == [file |-> f2, list |-> l]
Shard(p, s) == [call |-> "register_files", repo |-> p, shard |-> s]

MCCalls ==
    {Shard(ra, <<One(Whole), Two(Long)>>), Shard(rb, <<Two(Short), One(Split)>>),
     Shard(rc, <<One(Split)>>)} \cup
    {[call |-> "register_xorb", xorb |-> x2]} \cup
    {[call |-> "register_xorb_layout", xorb |-> x1, enc |-> e] : e \in Encodings} \cup
    {[call |-> "lookup_file", file |-> f] : f \in Files}
=============================================================================
