------------------------------- MODULE MCFat --------------------------------
EXTENDS Fat

\* One file on every chain of up to three clusters.
Chains == {c \in UNION {[1..n -> 2..LastCluster] : n \in 1..3} : \A i, j \in DOMAIN c : c[i] = c[j] => i = j}
FileVolumes == {[chain |-> c, size |-> Len(c) * Sector * PerCluster - d, dirs |-> <<>>] :
                c \in Chains, d \in 0..1}

En(kind, name, cluster) == [kind |-> kind, name |-> name, cluster |-> cluster]
Item(name, long, cluster) ==
    LET kind == IF cluster < 10 THEN "dir" ELSE "file"
    IN  IF long THEN <<En("lfn", name, 0), En(kind, "~1", cluster)>>
        ELSE <<En(kind, name, cluster)>>
Items1 == {Item(n, l, c) : n \in {"a"}, l \in BOOLEAN, c \in {3, 10}}
Items2 == {Item(n, l, c) : n \in {"b"}, l \in BOOLEAN, c \in {4, 11}}
RootDirs == {label \o one \o two : label \in {<<>>, <<En("volume", "a", 0)>>, <<En("deleted", "a", 9)>>},
             one \in Items1 \cup {<<>>}, two \in Items2 \cup {<<>>}}
SubDirs == {<<En("dot", ".", 3), En("dot", "..", 0)>> \o one \o two :
            one \in {Item(n, l, c) : n \in {"a", "b"}, l \in BOOLEAN, c \in {4, 12}} \cup {<<>>},
            two \in {Item("c", l, 13) : l \in BOOLEAN} \cup {<<>>}}
TreeVolumes == {[chain |-> <<>>, size |-> 0,
                 dirs |-> [c \in {2, 3, 4} |-> IF c = 2 THEN r ELSE IF c = 3 THEN s
                              ELSE <<En("dot", ".", 4), En("dot", "..", 3)>>]] :
                r \in RootDirs, s \in SubDirs}
MCVolumes == FileVolumes \cup TreeVolumes
MCFatPaths == {<<"/">>, <<"/", "a">>, <<"/", "b">>, <<"a", "/">>, <<"a", "/", "b">>,
            <<"/", "a", "/", "c">>, <<"a", "/", "b", "/", "c">>}
=============================================================================
