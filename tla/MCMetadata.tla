----------------------------- MODULE MCMetadata -----------------------------
\* Two processes over two profiles of one provider, two contexts and two
\* nested directories; a store of the first schema, or none.
EXTENDS Metadata, TLC

MCPaths == {<<1>>, <<1, 2>>}

\* Both profiles exist, each in a directory of its own.
OldProfiles == [id \in Ids |-> IF id[2] = "a" THEN [dir |-> 1, uid |-> <<>>, meta |-> "m1"]
                               ELSE [dir |-> 2, uid |-> <<>>, meta |-> "m1"]]
OldStore == [NewConfig(NoInstallation) EXCEPT
                !.version = 1, !.profiles = OldProfiles,
                !.contexts = [n \in Names |-> [v \in Providers |->
                                  <<v, IF n = 1 THEN "a" ELSE "b">>]],
                !.default = 1, !.bindings[<<1>>] = 2]
MCStores == {OldStore}
Perms == Permutations(Procs) \union Permutations(Installations)
=============================================================================
