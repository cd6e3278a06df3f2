---------------------------- MODULE MCOperations ----------------------------
(* Small instances of Operations for TLC. *)
EXTENDS Operations

Call(name, cluster, hash, path, key, value) ==
    [name |-> name, cluster |-> cluster, hash |-> hash, path |-> path, key |-> key,
     value |-> value]
Single(name, hash, path, key, value) == Call(name, FALSE, hash, path, key, value)
Cluster(name, path, key, value) == Call(name, TRUE, <<>>, path, key, value)

(* Byte 0 is the blank.  The key <<1, 2>> is divided in every way, and the    *)
(* path <<1>> shared by two keys.                                           *)
Calls == {
    Single("set", <<>>, <<1>>, <<2>>, Raw("x")),
    Single("delete", <<>>, <<1, 2>>, <<>>, Absent),
    Single("add", <<1>>, <<1>>, <<2>>, Raw("y")),
    Single("get", <<1>>, <<>>, <<1, 2>>, Absent),
    Single("set", <<>>, <<0>>, <<2>>, Raw("x")),
    Single("set", <<>>, <<1>>, <<2>>, Empty),
    Single("version", <<>>, <<>>, <<>>, Absent),
    Cluster("set", <<1>>, <<1>>, Empty),
    Cluster("get", <<1>>, <<1>>, Absent),
    Cluster("delete", <<1, 2>>, <<1>>, Absent)}

(* Two orders of discovery of two nodes, one of them alone, and none.       *)
NodeLists == {<<>>, <<2>>, <<1, 2>>, <<2, 1>>}

OldData == {Raw("old")}
Path == {<<1>>}
Symmetry == Permutations(Callers)

(* Two goroutines with one path: a good and a bad key.                      *)
SharedPathCalls == {
    Single("set", <<>>, <<1>>, <<2>>, Raw("x")),
    Single("set", <<>>, <<1>>, <<0>>, Raw("x"))}
=============================================================================
