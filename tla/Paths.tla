------------------------------- MODULE Paths -------------------------------
(***************************************************************************)
(* The paths of a command: which inputs it finds (FindInputs, internal/    *)
(* convert/many.go, and FindParquet, internal/catalog/scan.go), where it   *)
(* writes what it makes of them (Tree), and when two paths are taken for   *)
(* one (samePath, cmd/qvd2parquet/main.go).                                *)
(*                                                                         *)
(* A path is the names of its folders, the parts of its file name between  *)
(* the dots, and its extension. A folder can be a symbolic link, and the   *)
(* disk may or may not tell names apart that differ in case.               *)
(***************************************************************************)
EXTENDS Integers, Sequences, SequencesExt, FiniteSets, TLC

CONSTANTS
  Links,       \* the folders that are symbolic links, and where they lead
  Lower,       \* the names with capital letters, and the same without
  FoldingDisk  \* the disk takes these for one name

ASSUME PathsAssumption ==
  /\ \A l \in DOMAIN Links : Links[l] \in Seq(STRING)
  /\ \A n \in DOMAIN Lower : Lower[n] \in STRING
  /\ FoldingDisk \in BOOLEAN

Path(dir, stem, ext) == [dir |-> dir, stem |-> stem, ext |-> ext]

\* A path that was not given has an extension of its own.
NoPath == Path(<<>>, <<>>, "none")
Given(p) == p.ext # "none"

\* canonicalPath, as far as the names of folders can be links.
RealDir(dir) == IF dir # <<>> /\ dir[1] \in DOMAIN Links THEN Links[dir[1]] \o Tail(dir) ELSE dir
Canonical(p) == [p EXCEPT !.dir = RealDir(@)]

LowerCase(name) == IF name \in DOMAIN Lower THEN Lower[name] ELSE name
Folded(p) == [p EXCEPT !.stem = [i \in DOMAIN @ |-> LowerCase(@[i])]]

\* What the disk makes of a path: two paths are one file when this is the same.
FileOf(p) == IF FoldingDisk THEN Folded(Canonical(p)) ELSE Canonical(p)

\* Mutant: paths are compared as the disk at hand compares them, links unresolved.
SamePathAsTyped(p, q) == p = q

\* samePath folds the case of what links lead to, whatever the disk does. What
\* os.SameFile adds to that, hard links, is left out.
SamePath(p, q) == Folded(Canonical(p)) = Folded(Canonical(q))
-----------------------------------------------------------------------------
(* What the arguments of a command name, of the files there are.           *)

\* An argument is a file, a folder, or a pattern for the names in a folder.
FileArg(p) == [kind |-> "file", path |-> p]
FolderArg(dir) == [kind |-> "folder", path |-> Path(dir, <<>>, "")]
PatternArg(dir, ext) == [kind |-> "pattern", path |-> Path(dir, <<"*">>, ext)]

\* The files of an extension in a folder, as they are called by way of it.
Listed(dir, ext, recursive, there) ==
  LET real == RealDir(dir)
      inside == {p \in there : p.ext = ext /\ IsPrefix(real, p.dir) /\ (recursive \/ p.dir = real)}
  IN  {[p EXCEPT !.dir = dir \o SubSeq(@, Len(real) + 1, Len(@))] : p \in inside}

\* nameFilter.keep: what is excluded stays out, whatever includes it.
Keep(p, sel) == p.stem \notin sel.exclude /\ (sel.include = {} \/ p.stem \in sel.include)

\* The folders a pattern for anything matches.
Subfolders(dir, there) ==
  LET real == RealDir(dir)
      inside == {p \in there : IsPrefix(real, p.dir) /\ Len(p.dir) > Len(real)}
  IN  {dir \o <<p.dir[Len(real) + 1]>> : p \in inside}

\* take: each file an argument offers, and the folder its own is measured from. Only
\* what a folder holds is filtered. A folder a pattern matched is measured from where
\* the pattern stands.
Offered(arg, sel, there) ==
  LET dir == arg.path.dir
      From(folder, root) ==
        {[path |-> p, root |-> root] :
           p \in {q \in Listed(folder, "qvd", sel.recursive, there) : Keep(q, sel)}}
      Named(files) == {[path |-> p, root |-> p.dir] : p \in files}
  IN CASE arg.kind = "file" ->
            Named({p \in {arg.path} : FileOf(p) \in {FileOf(q) : q \in there}})
       [] arg.kind = "folder" -> From(dir, dir)
       [] arg.kind = "pattern" ->
            Named(Listed(dir, "qvd", FALSE, there))
              \cup UNION {From(folder, dir) : folder \in Subfolders(dir, there)}

\* An argument that is not there, and a pattern that matches nothing, is a problem of
\* its own and no reason to stop.
IsProblem(arg, there) ==
  CASE arg.kind = "file" -> FileOf(arg.path) \notin {FileOf(q) : q \in there}
    [] arg.kind = "folder" -> ~\E p \in there : IsPrefix(RealDir(arg.path.dir), p.dir)
    [] arg.kind = "pattern" -> Listed(arg.path.dir, "qvd", FALSE, there) = {}
                                 /\ Subfolders(arg.path.dir, there) = {}

Problems(args, there) == {args[n].path : n \in {m \in DOMAIN args : IsProblem(args[m], there)}}

\* FindInputs: the first argument that offers a file says where it is measured from.
FindInputs(args, sel, there) ==
  LET Take(tree, arg) ==
        LET offers == Offered(arg, sel, there)
            RootOf(p) == (CHOOSE f \in offers : f.path = p).root
        IN  tree @@ [p \in {f.path : f \in offers} |-> SubSeq(p.dir, Len(RootOf(p)) + 1, Len(p.dir))]
  IN  FoldLeft(Take, <<>>, args)

\* FindParquet; an argument that is not there ends the scan.
FindParquet(args, recursive, there) ==
  UNION {IF args[n].kind = "folder" THEN Listed(args[n].path.dir, "parquet", recursive, there)
         ELSE {args[n].path} : n \in DOMAIN args}
-----------------------------------------------------------------------------
(* Where things go. A tree gives each input its folder under --out-dir.    *)

FolderSchemaPath(in) == Path(in.dir, <<"qvd2parquet-schema">>, "json")
ManifestPath(outDir) == Path(outDir, <<".qvd2parquet-manifest">>, "json")

\* Tree.Output.
Output(in, tree, outDir) == Path(outDir \o tree[in], in.stem, "parquet")

\* Tree.Report: a bare name goes in --out-dir.
Report(path, in, tree, outDir) ==
  IF ~Given(path) THEN NoPath
  ELSE Path((IF path.dir = <<>> THEN outDir ELSE path.dir) \o tree[in], in.stem \o path.stem, path.ext)
=============================================================================
