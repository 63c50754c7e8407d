-------------------------- MODULE MCPackageManager --------------------------
(***************************************************************************)
(* Constants of PackageManager for TLC.  Packages "a", "b" and "c"; b uses *)
(* what a registers and c what b does.  Versions name the package.         *)
(***************************************************************************)
EXTENDS PackageManager

ABC == {"a", "b", "c"}

Body(deps, res, uses) ==
  [hasdeps |-> TRUE, deps |-> deps, hasclass |-> TRUE, res |-> res, uses |-> uses,
   broken |-> FALSE, raises |-> FALSE]

Bodies ==
  {"a1", "a2", "aOnB", "aQuiet", "b1", "bFaulty", "bAlone", "c1", "cBroken", "cEmpty"}

Modules ==
  [v \in Bodies |->
     CASE v \in {"a1", "a2"} -> Body({}, {"ra"}, {})
       [] v = "aQuiet" -> Body({}, {}, {})
       [] v = "aOnB" -> Body({"b"}, {"ra"}, {})
       [] v = "b1" -> Body({"a"}, {"rb"}, {"ra"})
       [] v = "bFaulty" -> [Body({"a"}, {"rb", "rc"}, {"ra"}) EXCEPT !.raises = TRUE]
       [] v = "bAlone" -> Body({}, {}, {})
       [] v = "c1" -> Body({"a", "b"}, {"rc"}, {"rb"})
       [] v = "cBroken" -> [Body({}, {}, {}) EXCEPT !.broken = TRUE]
       [] v = "cEmpty" -> [Body({}, {}, {}) EXCEPT !.hasclass = FALSE, !.hasdeps = FALSE]]

Ids == {"ra", "rb", "rc", "package_conf"}

Msg(command, list, auto) == [command |-> command, args |-> list, auto |-> auto]
Arg(p, s) == [pkg |-> p, sum |-> s]

File(p, e, v) == [pkg |-> p, ext |-> e, ver |-> v]

(* A directory with the given files of one extension.                      *)
Directory(ext, f) ==
  [p \in Packages |-> [e \in Ext |-> IF e = ext /\ p \in DOMAIN f THEN f[p] ELSE "none"]]

ASSUME DependenciesAreListed == UsesDeclared

ABCFirst == [a |-> "a1", b |-> "b1", c |-> "c1"]
NoLines == << >>

(* Faults, loops and stale dependents while files change; b is there as a  *)
(* compiled file only, until a source appears beside it.                   *)
GraphFiles == Directory("py", ABCFirst)
GraphUploads ==
  {File("a", "py", v) : v \in {"a1", "aOnB"}} \cup {File("b", "py", v) : v \in {"bAlone", "bFaulty"}}
    \cup {File("c", "py", v) : v \in {"c1", "cBroken"}}
GraphCommands ==
  {Msg("load", <<Arg("a", "a1")>>, FALSE), Msg("load", <<Arg("c", "c1")>>, FALSE),
   Msg("update", <<Arg("a", "aOnB")>>, FALSE),
   Msg("unload", <<Arg("a", "none")>>, FALSE), Msg("unload", <<Arg("b", "none")>>, FALSE),
   Msg("unload_all", << >>, FALSE), Msg("reload", <<Arg("a", "aOnB")>>, FALSE)}
MixedFiles == [GraphFiles EXCEPT !["b"] = [py |-> "none", pyc |-> "b1", pyo |-> "none"]]

(* Names of different length.                                              *)
Lengths == [p \in ABC |-> IF p = "b" THEN 4 ELSE 1]

(* The start-up list over restarts; "x" is a line with no package.         *)
StartupLines == <<Line("b", "b1"), [pkg |-> "x", sum |-> "a1", size |-> 50]>>
StartupUploads ==
  {File("a", "py", "none"), File("a", "py", "a2"), File("a", "py", "aQuiet"),
   File("b", "py", "cEmpty")}
StartupCommands ==
  {Msg("load", <<Arg("a", "a1")>>, TRUE), Msg("reload", <<Arg("a", "a1")>>, TRUE),
   Msg("load", <<Arg("a", "a2"), Arg("b", "b1")>>, TRUE),
   Msg("update", <<Arg("a", "a2"), Arg("b", "b1")>>, TRUE), Msg("update", <<Arg("b", "b1")>>, TRUE),
   Msg("unload", <<Arg("b", "none"), Arg("a", "none")>>, FALSE),
   Msg("delete", <<Arg("a", "none"), Arg("b", "none")>>, FALSE),
   Msg("load_auto", << >>, FALSE), Msg("update_all", << >>, FALSE),
   Msg("terminate", << >>, FALSE)}
=============================================================================
