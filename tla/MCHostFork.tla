------------------------------- MODULE MCHostFork -------------------------------
(* A home with a startup file, a link among the presets and a file in a    *)
(* directory; requests for that file, for a path the space itself makes,   *)
(* for a sensitive one and from inside a space.  Two of the four tools,    *)
(* and an older executable beside the running one.                         *)
EXTENDS CreateFromHost

Node(kind, safe, entries, data) ==
    [kind |-> kind, safe |-> safe, entries |-> entries, data |-> data, stamp |-> 0]
Dir(entries) == Node("directory", TRUE, entries, <<>>)
File(data) == Node("file", TRUE, <<>>, data)

Rc == <<1>>
Profile == <<2>>
Made == <<3>>
Theme == <<4, 1>>
Secret == <<5>>

MCRank == (Rc :> 1) @@ (Profile :> 2) @@ (Made :> 3) @@ (Theme :> 4) @@ (Secret :> 5)

Others == [s1 |-> File(<<"z">>), s2 |-> Node("directory", TRUE, (1 :> "s4"), <<>>),
           s3 |-> Node("symlink", TRUE, <<>>, <<>>), s4 |-> File(<<"w">>)]

MCHosts ==
    {Others @@ h : h \in
      {[h |-> Dir((1 :> "a") @@ (2 :> "b") @@ (3 :> "c") @@ (4 :> "d")),
        a |-> File(<<"a", "b">>), b |-> Node("symlink", TRUE, <<>>, <<>>), c |-> File(<<>>),
        d |-> Dir((1 :> "e")), e |-> File(<<"c">>)],
       [h |-> Dir((2 :> "b") @@ (4 :> "d")),
        b |-> File(<<"a", "b", "c">>), d |-> Dir((1 :> "e")), e |-> Node("file", FALSE, <<>>, <<"c">>)]}}

Ask(explicit, replace) == [explicit |-> explicit, replace |-> replace, nested |-> FALSE]
MCRequests == {Ask({}, TRUE), Ask({Theme}, TRUE), Ask({Theme}, FALSE), Ask({Rc, Made}, TRUE),
               Ask({Secret}, TRUE), [Ask({}, TRUE) EXCEPT !.nested = TRUE]}
MCNewData == {<<"x", "y">>, <<"x", "y", "z">>}
MCPresets == {Rc, Profile}
MCSensitive == {Secret}
MCGenerated == {Rc, Made}
MCReplaceable == {Rc}
MCTailed == {Rc}
MCTools == <<"ssh", "scp">>
===============================================================================
