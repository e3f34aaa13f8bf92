------------------------------- MODULE MCRules -------------------------------
(* A small instance of Rules for TLC: files of one function with up to two *)
(* containers, files of two functions, or two overloads, with up to one    *)
(* vector, string or list each, and files of one function with one or two  *)
(* lookups.                                                                *)
EXTENDS Rules

Container(kinds, names, pinned) ==
    [name : names, kind : kinds, grow : {"never", "flat", "counted", "open"},
     reserved : BOOLEAN, pinned : pinned]
Locals == {v \in Container({"vector", "string", "umap", "map", "list"}, {"v"}, BOOLEAN) :
             /\ v.pinned => v.kind = "list"
             /\ v.reserved => v.kind \in {"vector", "string", "umap"}}
Vectors == {v \in Container({"vector", "string", "list"}, {"v", "w"}, {FALSE}) :
              /\ v.reserved => v.kind # "list"
              /\ v.kind = "string" => v.name = "v"}

Function(names, vs, cs, ps, loops) ==
    [func : names, vars : vs, ifs : cs, params : ps, loop : loops]
HasLoop(f) == f.loop \/ \A i \in DOMAIN f.vars : f.vars[i].grow # "counted"

Branches == BoundedSeq([op : {"at", "index", "store", "erase", "assign"}, key : {"k", "j"}], 2)
Test == {<<"", 0>>, <<"<", 1>>} \union ({">", ">=", "!=", "=="} \X (0 .. 2))
If == {[cmp |-> t[1], num |-> t[2], key |-> "k", then |-> b, fused |-> FALSE] :
         t \in Test, b \in Branches}
Short == {c \in If : Len(c.then) = 1 /\ c.num = 0 /\ c.then[1].key = "k"}

OneFunction ==
    {<<f>> : f \in {g \in Function({"f"}, {<<>>} \union {<<v>> : v \in Locals} \union
                     {<<v, [w EXCEPT !.name = "w"]>> : v, w \in Locals},
                     {<<>>}, {<<>>, <<"ref", "value">>}, BOOLEAN) : HasLoop(g)}}
TwoFunctions ==
    LET one(names) == {h \in Function(names, BoundedSeq(Vectors, 1), {<<>>}, {<<>>}, BOOLEAN) :
                         HasLoop(h)}
    IN {<<f, g>> : f \in one({"f"}), g \in one({"f", "g"})}
Lookups ==
    {<<f>> : f \in Function({"f"}, {<<>>}, {<<c>> : c \in If} \union {<<c, d>> : c, d \in Short},
                            {<<>>}, {FALSE})}

MCSources == OneFunction \union TwoFunctions \union Lookups
MCFilters == {Range(ALL)} \union {{"fuse_map_lookup"}, {"list_to_vector", "pass_by_const_ref"}}
=============================================================================
