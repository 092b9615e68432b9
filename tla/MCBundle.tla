-------------------------------- MODULE MCBundle --------------------------------
(* An artifact with a directory, a file in it, a file beside it and a      *)
(* link; two foreign writes; bundles rewritten to streams a careless       *)
(* parser would follow; filesystems that keep names, fold two of them or   *)
(* spell one of them differently.                                          *)
EXTENDS Bundle

Dir(p) == [path |-> p, kind |-> "directory", data |-> "rwx", target |-> <<>>]
File(p, d) == [path |-> p, kind |-> "file", data |-> d, target |-> <<>>]
Link(p, t) == [path |-> p, kind |-> "symlink", data |-> "link", target |-> t]

MCHomes == {{Dir(<<1>>), File(<<1, 2>>, "old"), Link(<<2>>, <<1>>)},
            {File(<<1>>, "old"), File(<<3>>, "old")}}

MCEdits == {File(<<1, 2>>, "new"), File(<<1, 1>>, "new"), File(<<3>>, "new")}

MCForeign == <<File(<<1>>, "old"), File(<<2>>, "other")>>

MCRewrites == {<<File(<<1>>, "old"), File(<<1>>, "new")>>,
               <<Link(<<1>>, <<0, 2>>)>>,
               <<Link(<<1>>, <<2>>), File(<<1, 2>>, "new")>>,
               <<Dir(<<1>>), Dir(<<2>>), File(<<1, 2>>, "new")>>,
               <<Dir(<<1>>), File(<<1, 2>>, "new"), Link(<<2>>, <<1>>)>>,
               <<Dir(<<1>>), File(<<1, 2>>, "unreadable")>>,
               <<Dir(<<1>>), Dir(<<1, 1>>), Dir(<<1, 1, 1>>)>>}

MCRepresentations == {[n \in 1 .. 3 |-> n],
                      [n \in 1 .. 3 |-> IF n = 2 THEN 1 ELSE n],
                      [n \in 1 .. 3 |-> IF n = 3 THEN 4 ELSE n]}
===============================================================================
