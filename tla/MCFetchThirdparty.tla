--------------------------- MODULE MCFetchThirdparty ---------------------------
(***************************************************************************)
(* FetchThirdparty for TLC: two repositories, two environments, a package  *)
(* with two versions and a package whose name has two spellings.           *)
(***************************************************************************)
EXTENDS FetchThirdparty, TLC

CONSTANTS linux, mac, pypi, selfhosted

File_(name, version, dist) == [name |-> name, version |-> version, dist |-> dist]
Pinned(name, version) == [name |-> name, operator |-> "==", version |-> version]
Unpinned(name) == [name |-> name, operator |-> "", version |-> 0]
AtLeast(name, version) == [name |-> name, operator |-> ">=", version |-> version]

\* A command line with no options but those that differ from it.
Plain == [specifiers |-> {}, lines |-> {}, wheels |-> TRUE, sdists |-> FALSE,
          latest_version |-> FALSE, use_cached_index |-> FALSE,
          sdist_only |-> {}, wheel_only |-> {}, no_dist |-> {}]

MCSpelling == {"foo", "a.b", "a-b"}
MCNormalize == [s \in MCSpelling |-> IF s = "a.b" THEN "a-b" ELSE s]
MCRepos == <<pypi, selfhosted>>

MCReleased ==
  pypi :> {File_("foo", 1, linux), File_("foo", 1, Sdist), File_("a-b", 1, Sdist)} @@
  selfhosted :> {File_("foo", 1, mac), File_("foo", 1, Sdist), File_("foo", 2, mac)}
MCReleasable ==
  pypi :> {File_("foo", 2, Sdist)} @@ selfhosted :> {}

MCCommands ==
  {[Plain EXCEPT !.specifiers = {Pinned("foo", 1)}, !.sdists = TRUE],
   [Plain EXCEPT !.lines = {Unpinned("foo")}, !.latest_version = TRUE,
                 !.sdists = TRUE],
   [Plain EXCEPT !.lines = {Pinned("foo", 2), AtLeast("foo", 1)},
                 !.sdist_only = {"foo"}, !.wheel_only = {"foo"}],
   [Plain EXCEPT !.specifiers = {Pinned("a.b", 1)}, !.lines = {Pinned("a-b", 1)},
                 !.wheels = FALSE, !.sdists = TRUE],
   [Plain EXCEPT !.specifiers = {AtLeast("foo", 1)}],
   [Plain EXCEPT !.lines = {Unpinned("foo")}, !.latest_version = TRUE,
                 !.use_cached_index = TRUE],
   [Plain EXCEPT !.lines = {Pinned("foo", 2)}, !.sdists = TRUE, !.no_dist = {"foo"}]}

\* a.b comes as an sdist only.
MCSdistReleased == pypi :> {File_("a-b", 1, Sdist)} @@ selfhosted :> {}
MCNothing == pypi :> {} @@ selfhosted :> {}
MCSdistCommands ==
  {[Plain EXCEPT !.specifiers = {Pinned("a.b", 1)}, !.sdist_only = {"a.b"}]}

\* pypi has foo; no version is given.
MCUnpinnedCommands == {[Plain EXCEPT !.specifiers = {Unpinned("foo")}]}
================================================================================
