------------------------------ MODULE MCAgents ------------------------------
(* Small targets for the agents of module Agents.                            *)
EXTENDS Agents

(***************************************************************************)
(* Directories of three files                                              *)
(***************************************************************************)

ThreeFiles == {"f1", "f2", "f3"}

OfEach(a, b, c) == [f1 |-> a, f2 |-> b, f3 |-> c]
NoMarks == OfEach({}, {}, {})
NoLines == OfEach(<<>>, <<>>, <<>>)

Line(failed, probe, marks, from) ==
    [failed |-> failed, probe |-> probe, marks |-> marks, source |-> from]
Failed(from) == Line(TRUE, FALSE, {}, from)
Probed(from) == Line(FALSE, TRUE, {}, from)
Attack(from) == Line(FALSE, FALSE, {"attack"}, from)
Other        == Line(FALSE, FALSE, {}, "x")

Tree(kind, marks, lines, unreadable, isDir) ==
    [kind |-> kind, key |-> OfEach("f1", "f2", "f3"), marks |-> marks, lines |-> lines,
     readable |-> ThreeFiles \ unreadable, isDir |-> isDir]

Python == OfEach("py", "py", "py")

SmallTrees ==
    { Tree(Python, OfEach({"eval", "exec"}, {"credential", "sql", "bare_except"},
                          {"logging", "sensitive"}), NoLines, {}, TRUE),
      Tree(Python, OfEach({"logging"}, {"validation"}, {"internal_host", "privilege"}),
           NoLines, {"f1"}, TRUE),
      [Tree(Python, OfEach({"credential"}, {"sql"}, {"eval", "privilege"}), NoLines, {}, TRUE)
          EXCEPT !.key = OfEach("f", "f", "")],
      Tree(OfEach("tf", "docker", "yaml"), OfEach({"public_database"}, {"latest"}, {"public_bucket"}),
           NoLines, {}, TRUE),
      Tree(OfEach("requirements", "setup", "yaml"), OfEach({"i1", "i2"}, {"i3"}, {}),
           NoLines, {}, TRUE),
      Tree(OfEach("access_log", "jsonl", "old_log"), NoMarks,
           OfEach(<<Failed("x"), Failed("x"), Probed("y")>>, <<Probed("y"), Failed("x"), Attack("x")>>,
                  <<Failed("unknown"), Failed("unknown"), Probed("unknown")>>), {}, TRUE),
      Tree(OfEach("log", "access_log", "log"), NoMarks,
           OfEach(<<Failed("x"), Probed("unknown"), Other, Failed("x")>>,
                  <<Probed("unknown"), Probed("unknown"), Failed("x")>>, <<Other>>), {"f3"}, TRUE),
      Tree(OfEach("log", "none", "none"), NoMarks,
           OfEach(<<Failed("x"), Failed("x")>>, <<>>, <<>>), {}, FALSE) }

(***************************************************************************)
(* Sites of four pages, the last two links away                            *)
(***************************************************************************)

Pages == {"home", "a", "b", "c"}
Web   == Pages \cup {"elsewhere"}

Links(home, a) ==
    [home |-> home, a |-> a, b |-> <<"c", "a">>, c |-> <<"home">>, elsewhere |-> <<"b">>]

Site(links, html, ports) ==
    [public |-> TRUE, isUrl |-> TRUE, ports |-> ports, placeholder |-> FALSE, links |-> links,
     html |-> html, host |-> Pages, query |-> {"home", "b"}, bare |-> {"home"},
     flaws |-> [u \in Web |-> CASE u = "home" -> {"reflects"} [] u = "b" -> {"form", "sql_error"}
                                [] u = "c" -> {"form"} [] OTHER -> {}]]

WholeSite == Site(Links(<<"a", "b", "elsewhere", "a">>, <<"c", "home">>), Pages, {"web", "22"})

SmallSites ==
    { WholeSite,
      Site(Links(<<"a", "b">>, <<"c", "malformed">>), Pages, {"web"}),
      Site(Links(<<"a">>, <<"b">>), {"home"}, {}),
      [WholeSite EXCEPT !.public = FALSE],
      [WholeSite EXCEPT !.isUrl = FALSE],
      [WholeSite EXCEPT !.placeholder = TRUE, !.ports = {"web"}, !.html = {}] }

(***************************************************************************)
(* APIs with two candidates for a hidden endpoint                          *)
(***************************************************************************)

TwoCandidates == <<"/admin", "/api/admin">>
TwoTokens     == <<"admin", "expired">>

Url(usual, limit, specs) ==
    [isUrl |-> TRUE, parses |-> TRUE, named |-> TRUE, usual |-> usual, bare |-> TRUE, anyOrigin |-> TRUE,
     token |-> "none", limited |-> limit > 0, limit |-> limit, specs |-> specs,
     listed |-> {"/admin"}, documents |-> {"/admin"},
     live |-> ("/admin" :> "ok" @@ "/api/admin" :> "denied"),
     accepts |-> {"admin"}, file |-> "absent", paths |-> <<>>, serves |-> "none"]

Limited(usual, limit) ==
    [Url(usual, limit, <<"spec">>) EXCEPT !.named = FALSE, !.bare = FALSE, !.anyOrigin = FALSE]

File(file, paths, serves) ==
    [Url("ok", 0, <<>>) EXCEPT !.isUrl = FALSE, !.file = file, !.paths = paths, !.serves = serves]

SmallApis ==
    { Url("denied", 0, <<"other", "spec">>),
      [Url("ok", 0, <<"spec">>) EXCEPT !.accepts = {}, !.token = "no_expiry",
                                       !.live["/admin"] = "redirect", !.live["/api/admin"] = "missing"],
      [Limited("ok", 2) EXCEPT !.accepts = {}],
      Limited("denied", 3),
      [Url("ok", 0, <<"no_object">>) EXCEPT !.token = "unsigned"],
      [Url("ok", 0, <<"none">>) EXCEPT !.token = "no_object"],
      [Url("missing", 0, <<"spec">>) EXCEPT !.documents = {"/api/admin"}],
      [Url("ok", 0, <<"spec">>) EXCEPT !.parses = FALSE],
      File("absent", <<>>, "none"),
      File("garbage", <<>>, "none"),
      File("spec", <<"open", "secured", "open">>, "url"),
      File("spec", <<"open", "no_object", "open">>, "url"),
      [File("spec", <<"secured">>, "malformed") EXCEPT !.bare = FALSE],
      File("spec", <<>>, "none"),
      File("spec", <<"secured">>, "no_object") }
=============================================================================
