------------------------------ MODULE MCTreeCopy ------------------------------
(* Homes of up to seven entries, among them cache roots, links into them,  *)
(* links Quarters manages, links that escape, files of another user, hard  *)
(* links, directories without owner access and trees at each limit; two    *)
(* writes or exchanges by another process at any moment.                   *)
EXTENDS TreeCopy

Node(kind, mine, entries, data, target, mode) ==
    [kind |-> kind, mine |-> mine, entries |-> entries, data |-> data,
     target |-> target, mode |-> mode, stamp |-> 0]
NoTarget == [absolute |-> FALSE, components |-> <<>>]
Dir(entries, mode) == Node("directory", TRUE, entries, <<>>, NoTarget, mode)
File(data) == Node("file", TRUE, <<>>, data, NoTarget, {"r", "w"})
Theirs(data) == Node("file", FALSE, <<>>, data, NoTarget, {"r", "w"})
Link(absolute, components) ==
    Node("symlink", TRUE, <<>>, <<>>, [absolute |-> absolute, components |-> components], {})
Special(kind) == Node(kind, TRUE, <<>>, <<>>, NoTarget, {})
RWX == {"r", "w", "x"}

(* Inodes another process may link: a file of another user, a larger file, *)
(* a link out of the home.                                                 *)
Others == [s1 |-> Theirs(<<"f">>), s2 |-> File(<<"c", "d">>), s3 |-> Link(FALSE, <<0, 0, 2>>)]

MCHomes ==
    {Others @@ h : h \in
      {[r |-> Dir((1 :> "a") @@ (2 :> "b") @@ (3 :> "c"), RWX),
        a |-> Dir((1 :> "d") @@ (2 :> "h"), RWX), d |-> File(<<"a">>), h |-> File(<<"b">>),
        b |-> Dir((1 :> "e") @@ (2 :> "g"), {"r", "x"}), e |-> File(<<"a", "b">>),
        g |-> Link(FALSE, <<0, 1>>), c |-> Link(FALSE, <<1, 1>>)],
       [r |-> Dir((1 :> "a") @@ (2 :> "b") @@ (3 :> "c"), RWX),
        a |-> Special("socket"), b |-> Dir((1 :> "d") @@ (2 :> "e") @@ (3 :> "g"), RWX),
        d |-> Link(TRUE, <<3, 1>>), e |-> Link(FALSE, <<1>>), g |-> Link(FALSE, <<>>),
        c |-> Theirs(<<"f">>)],
       [r |-> Dir((2 :> "a"), RWX), a |-> Link(FALSE, <<0>>)],
       [r |-> Dir((2 :> "a") @@ (3 :> "b"), RWX), a |-> Link(FALSE, <<3, 1>>), b |-> Dir(<<>>, RWX)],
       [r |-> Dir((1 :> "b") @@ (2 :> "b") @@ (3 :> "c"), RWX),
        b |-> File(<<"a">>), c |-> Dir((1 :> "d") @@ (2 :> "e"), RWX),
        d |-> Dir(<<>>, {"r"}), e |-> Dir((3 :> "g"), {"r"}), g |-> File(<<>>)],
       [r |-> Dir((2 :> "a") @@ (3 :> "b"), {"r", "x"}), a |-> Special("fifo"),
        b |-> Dir((2 :> "c"), RWX), c |-> Dir((3 :> "d"), {"r", "x"}), d |-> Dir(<<>>, RWX)],
       [r |-> Dir((2 :> "a") @@ (3 :> "b"), {"r", "x"}), a |-> File(<<"a", "b">>),
        b |-> Dir((2 :> "c") @@ (3 :> "d"), RWX), c |-> Dir((3 :> "e"), {"r", "x"}),
        d |-> File(<<"a", "b", "a">>), e |-> File(<<"a">>)]}}

MCNewData == {<<>>, <<"c", "d", "c">>}
MCCacheRoots == {<<1>>, <<3, 1>>}
MCCommandLink == <<2, 1>>
MCShimLinks == {<<2, 2>>}
===============================================================================
