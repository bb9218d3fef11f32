----------------------------- MODULE MCCommand -----------------------------
(***************************************************************************)
(* Instances of Command for TLC: of each kind of command one request in    *)
(* which every file has a path of its own, and those that differ from it   *)
(* in one path, which is any of the paths of the others, or names one of   *)
(* them by way of a link or with capital letters.                          *)
(***************************************************************************)
EXTENDS Command

MCLinks == [ln |-> <<"in">>]
MCLower == [X |-> "x", L |-> "l"]

X == Path(<<"in">>, <<"x">>, "qvd")
Y == Path(<<"in", "a">>, <<"y">>, "qvd")
Z == Path(<<"in", "a">>, <<"qvd2parquet-schema">>, "qvd")
XLinked == Path(<<"ln">>, <<"x">>, "qvd")
XUpper == Path(<<"in">>, <<"X">>, "qvd")
Gone == Path(<<"in">>, <<"gone">>, "qvd")
Pins == Path(<<"in">>, <<"pins">>, "json")
OX == Path(<<"out">>, <<"x">>, "parquet")
OXUpper == Path(<<"out">>, <<"X">>, "parquet")
OY == Path(<<"out", "a">>, <<"y">>, "parquet")
LogFile == Path(<<"out">>, <<"l">>, "jsonl")
LogUpper == Path(<<"out">>, <<"L">>, "jsonl")
CatalogFile == Path(<<"side">>, <<"c">>, "parquet")
ConsoleFile == Path(<<"side">>, <<"k">>, "txt")
ConsoleBeside == Path(<<"out">>, <<"k">>, "txt")
SReport == Path(<<"out">>, <<"s">>, "json")
QReport == Path(<<"out">>, <<"q">>, "json")

MCDisks == {{X, Y, Pins, OX, OY}, {X, Y, Pins, CatalogFile}}

Every == [recursive |-> TRUE, include |-> {}, exclude |-> {}]

Single ==
  [shape |-> "single", args |-> <<FileArg(X)>>, sel |-> Every, output |-> OX,
   outDir |-> <<>>, keepTree |-> FALSE, schema |-> Pins, sreport |-> SReport, qreport |-> QReport,
   log |-> LogFile, catalog |-> CatalogFile, console |-> NoPath, skip |-> FALSE, force |-> FALSE]
Inspecting == [Single EXCEPT !.shape = "inspect", !.output = NoPath, !.qreport = NoPath, !.log = NoPath]
ScanAll ==
  [Single EXCEPT !.shape = "scan", !.args = <<FolderArg(<<"out">>)>>, !.output = NoPath,
                 !.schema = NoPath, !.sreport = NoPath, !.qreport = NoPath, !.log = NoPath]
Folder ==
  [Single EXCEPT !.shape = "batch", !.args = <<FolderArg(<<"in">>)>>, !.output = NoPath,
                 !.outDir = <<"out">>, !.keepTree = TRUE, !.skip = TRUE,
                 !.sreport = Path(<<>>, <<"s">>, "json"), !.qreport = NoPath]

AnyPath ==
  {X, Y, XLinked, XUpper, Pins, OX, OXUpper, OY, LogFile, LogUpper, CatalogFile, ConsoleFile, ConsoleBeside,
   SReport, QReport, FolderSchemaPath(X), FolderSchemaPath(XLinked), ManifestPath(<<"out">>),
   Path(<<"out">>, <<"x", "s">>, "json")}

Aimed(r, roles) == {[r EXCEPT ![role] = p] : role \in roles, p \in AnyPath}
Forced(rs) == rs \cup {[r EXCEPT !.force = TRUE] : r \in rs}

OneFile == [Folder EXCEPT !.args = <<FileArg(X)>>, !.sreport = NoPath, !.log = NoPath]

MCRequests ==
  Forced(Aimed(Single, {"output", "sreport", "qreport", "log", "catalog"}))
    \cup Aimed(Single, {"console"})
    \cup Forced(Aimed(Inspecting, {"sreport", "catalog"})) \cup Aimed(Inspecting, {"console"})
    \cup Forced(Aimed(ScanAll, {"catalog"})) \cup Aimed(ScanAll, {"console"})
    \cup Forced(Aimed(Folder, {"log", "catalog"})) \cup Aimed(OneFile, {"console"})
    \cup {[Folder EXCEPT !.keepTree = k, !.args = a, !.sreport = s, !.catalog = NoPath] :
            k \in BOOLEAN,
            a \in {<<FileArg(X), FileArg(XLinked)>>,
                   <<FolderArg(<<"in">>), PatternArg(<<"in">>, "qvd")>>,
                   <<FileArg(Z)>>, <<FileArg(XUpper), FolderArg(<<"ln">>)>>},
            s \in {NoPath, Path(<<"in", "a">>, <<>>, "json")}}
    \cup {[Inspecting EXCEPT !.sreport = NoPath],
          [ScanAll EXCEPT !.args = <<FolderArg(<<"out">>), FolderArg(<<"gone">>)>>],
          [ScanAll EXCEPT !.args = <<FolderArg(<<"in">>)>>],
          [Folder EXCEPT !.args = <<FolderArg(<<"in">>), FileArg(Gone)>>, !.sel.exclude = {<<"y">>}],
          [Folder EXCEPT !.args = <<FileArg(Gone)>>, !.log = Gone]}
=============================================================================
