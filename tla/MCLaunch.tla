------------------------------ MODULE MCLaunch ------------------------------
(***************************************************************************)
(* A small host.  / and /home are on one filesystem, /mnt is on another:   *)
(*                                                                         *)
(*   /usr/tool /usr/q /etc/resolv -> /run/dns /run/rt                      *)
(*   /home/.ssh /home/proj /home/store/s/{proj,app} /home/store/o          *)
(*   /data/work /data/doc /data/lnk -> /home/.ssh /mnt/x                   *)
(***************************************************************************)
EXTENDS ProfileLaunch

MCNodes == {"r", "usr", "tool", "q", "etc", "resolv", "run", "dns", "rt", "home", "ssh",
            "proj", "store", "s", "sproj", "app", "o", "data", "work", "doc", "lnk", "mnt",
            "b", "x"}
MCDirs == MCNodes \ {"tool", "q", "resolv", "dns", "app", "doc", "lnk"}
MCKind == [n \in MCNodes |-> CASE n \in {"resolv", "lnk"} -> "link"
                               [] n \in MCDirs -> "dir"
                               [] OTHER -> "file"]
MCDevice == [n \in MCNodes |-> IF n \in {"b", "x"} THEN "B" ELSE "A"]
MCTarget == [n \in {"resolv", "lnk"} |->
                IF n = "lnk" THEN <<"home", ".ssh">> ELSE <<"run", "dns">>]
MCRunnable == {"tool", "q", "app"}

In(d, n) == [dir |-> d, name |-> n]
MCLayout == [n \in MCNodes |->
    CASE n \in {"r", "b"} -> In(None, "/")
      [] n \in {"usr", "etc", "run", "home", "data", "mnt"} -> In("r", n)
      [] n \in {"tool", "q"} -> In("usr", n)
      [] n = "resolv" -> In("etc", n)
      [] n \in {"dns", "rt"} -> In("run", n)
      [] n = "ssh" -> In("home", ".ssh")
      [] n \in {"proj", "store"} -> In("home", n)
      [] n \in {"s", "o"} -> In("store", n)
      [] n = "sproj" -> In("s", "proj")
      [] n = "app" -> In("s", n)
      [] n \in {"work", "doc", "lnk"} -> In("data", n)
      [] n = "x" -> In("b", n)]

MCSpaceHome == <<"home", "store", "s">>
MCHostHome == <<"home">>
MCRuntime == <<"run", "rt">>
MCStoreRoot == <<"home", "store">>
MCQuarters == {<<"usr", "q">>}
MCEtc == <<"etc">>
MCResolver == <<"etc", "resolv">>
MCSearch == <<MCRuntime, MCSpaceHome, MCHostHome, <<"usr">> >>
MCBuiltIn ==
    {[path |-> MCSpaceHome, access |-> "read-write", source |-> "quarter-home", required |-> TRUE],
     [path |-> MCRuntime, access |-> "read-write", source |-> "quarter-runtime", required |-> TRUE],
     [path |-> <<"usr">>, access |-> "read-execute", source |-> "system-executable-root",
      required |-> FALSE],
     [path |-> <<"opt">>, access |-> "read-execute", source |-> "system-executable-root",
      required |-> FALSE],
     [path |-> MCEtc, access |-> "read", source |-> "system-configuration", required |-> TRUE]}

MCExchanges ==
    {{"s", "o"}, {"data", "proj"}, {"work", "ssh"}, {"sproj", "work"}, {"app", "doc"},
     {"home", "data"}, {"usr", "proj"}}

(* Mounts: / and /mnt, and up to two others                                *)
Plain == {[id |-> "1", parent |-> None, at |-> None, root |-> "r"],
          [id |-> "2", parent |-> "1", at |-> "mnt", root |-> "b"]}
Bind(id, at, root) ==
    [id |-> id, parent |-> IF at = "x" THEN "2" ELSE "1", at |-> at, root |-> root]
Points == {"work", "data", "store", "x"}
Roots == {"ssh", "o", "home", "r", "x", "usr", "proj"}
Aliases ==
    {Plain \cup {Bind("3", a, n)} : a \in Points, n \in Roots \ {"r"}}
    \cup {Plain \cup {Bind("3", a, "r")} : a \in Points}
    \cup {Plain \cup {Bind("3", "data", n), Bind("4", a, k)} :
             a \in {"work", "x"}, n \in Roots, k \in {"ssh", "o", "x"}}
    \cup {Plain \cup {Bind("3", "data", "home"),
                      [id |-> "4", parent |-> "3", at |-> "proj", root |-> k]} : k \in {"o", "x"}}

ReadOnly(p) == [path |-> p, write |-> FALSE]
ReadWrite(p) == [path |-> p, write |-> TRUE]
GrantLists ==
    {<<>>, <<ReadWrite(<<"data">>)>>, <<ReadOnly(<<"data", "doc">>), ReadWrite(<<"home", "proj">>)>>,
     <<ReadOnly(<<"data", "work">>)>>}
Refusable ==
    {<<ReadOnly(p)>> : p \in {<<"data", "lnk">>, <<"home">>, <<"mnt", "x">>, <<"home", "store", "o">>,
                              <<"usr">>, <<"gone">>, <<"home", "proj">>}}
    \cup {<<ReadOnly(<<"data">>), ReadWrite(p)>> : p \in {<<"data">>, <<"data", "work">>, <<"mnt">>}}
AliasGrants ==
    {<<ReadWrite(p)>> : p \in {<<"data">>, <<"data", "work">>, <<"mnt">>, <<"mnt", "x">>,
                               <<"home", "proj">>}}

Bare(n) == [bare |-> TRUE, path |-> <<n>>]
Abs(p) == [bare |-> FALSE, path |-> p]
Request(mode, grants, workdir, program) ==
    [mode |-> mode, grants |-> grants, workdir |-> workdir, program |-> program]
Launch(m, r, w) == [mounts |-> m, request |-> r, writes |-> w]

Workdirs == {None, <<"home", "store", "s", "proj">>, <<"home", "proj">>, <<"data", "work">>}
ConfinementLaunches ==
    {Launch(Plain, Request(mode, g, w, Bare("app")), 2) :
        mode \in {"confined", "both"}, g \in GrantLists, w \in Workdirs}
    \cup {Launch(Plain, Request(mode, <<>>, w, Abs(<<"home", "store", "s", "app">>)), 1) :
        mode \in {"plain", "view", "confined", "both"}, w \in Workdirs}
    \cup {Launch(Plain, Request(mode, g, None, p), 0) :
        mode \in {"confined", "both"}, g \in Refusable,
        p \in {Bare("tool"), Bare("none"), Abs(<<"data", "doc">>)}}
    \cup {Launch(m, Request("confined", g, None, Bare("tool")), 1) : m \in Aliases, g \in AliasGrants}

(* Login shells: XDG_RUNTIME_DIR outside of the homes, in the account's    *)
(* home, in a HOME that is not the account's, or unset                     *)
Unset == [v \in Variables |-> None]
Shell(home, tmp, xdg) ==
    [Unset EXCEPT !.HOME = home, !.PATH = <<<<"usr">>>>, !.TMPDIR = tmp, !.XDG_RUNTIME_DIR = xdg,
                  !.CARGO_HOME = <<"cargo">>, !.SSH_AUTH_SOCK = <<"sock">>,
                  !.TERM = <<"xterm">>, !.TOKEN = <<"secret">>]
Account == Shell(<<"home">>, <<"tmp">>, <<"run">>)
Logins ==
    {Account, Shell(<<"home">>, None, <<"home", "run">>), Shell(<<"data">>, None, <<"data", "run">>),
     Shell(<<"home">>, None, None)}

MCTmp == <<"tmp">>
MCSpaces == {"s", "o"}
MCHomeOf == [s \in MCSpaces |-> <<"home", "store", s>>]
MCRuntimeName ==
    [s \in MCSpaces |-> IF s = "s" THEN [id |-> "rt", legacy |-> "rt2", preAlpha4 |-> "rt1", published |-> "rt0"]
                        ELSE [id |-> "ot", legacy |-> "ot2", preAlpha4 |-> "ot1", published |-> "ot0"]]

Simple(mode) == Launch(Plain, Request(mode, <<>>, None, Bare("app")), 0)
MCLaunches == ConfinementLaunches \cup {Simple("both")}
MCScenarios ==
    {[launch |-> l, login |-> Account, runtimes |-> {MCRuntime}, identity |-> [s |-> "id", o |-> "id"],
      nesting |-> 0] : l \in ConfinementLaunches}
    \cup {[launch |-> Simple("both"), login |-> l, runtimes |-> {}, nesting |-> IF l = Account THEN 3 ELSE 2,
           identity |-> [s |-> "id", o |-> "id"]] : l \in Logins}
    \cup {[launch |-> Simple("both"), login |-> Account, runtimes |-> {Append(<<"run">>, n) : n \in old},
           nesting |-> 2, identity |-> [s |-> "id", o |-> "legacy"]] :
             old \in {{"ot2"}, {"ot1"}, {"ot0", "ot1"}, {"ot0", "ot2"}, {"rt0"}}}
=============================================================================
