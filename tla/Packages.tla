------------------------------- MODULE Packages -------------------------------
(***************************************************************************)
(* Distributions from filenames and packages from distributions:           *)
(* NameVer, Sdist, Wheel, PypiPackage and the lookups of                   *)
(* PypiSimpleRepository in etc/scripts/utils_thirdparty.py.                *)
(*                                                                         *)
(* A filename is its parts between dashes and its extension.  Functions of *)
(* a part say what the code finds in its text.  A list of links, or of the *)
(* files in a directory, is a set with a rank that says in which order the *)
(* code meets its members; the order of the results is what the sorts make *)
(* of it, and decides which version text a package gets and which sdist.   *)
(***************************************************************************)
EXTENDS Tags, SequencesExt

CONSTANTS
  FileName,
  Words,       \* of a part: its words in lower case, between "-", "_" and "."
  Pieces,      \* of a part: what split(".") makes of it, each as in Tags
  Dashed,      \* of a part: the part with "-" for "_"
  Ordinal,     \* of a part: packaging_version.parse, equal for equal versions
  Numbered,    \* the parts that begin with a digit
  Refused      \* the pairs of a version and the part before it that
               \* get_sdist_name_ver_ext refuses, such as "x86_64" after any

Part == DOMAIN Words

ASSUME FileNamesAssumption ==
  /\ FileName \subseteq [parts : Seq(Part) \ {<<>>}, extension : STRING, hidden : BOOLEAN]
  /\ Words \in [Part -> Seq(STRING)]
  /\ Dashed \in [Part -> Part]
  /\ Ordinal \in [Part -> Nat]
  /\ Numbered \subseteq Part
  /\ Refused \subseteq Part \X Part

--------------------------------------------------------------------------------
\* normalize_name, of a name in parts.
normalize_name(parts) == FlattenSeq([i \in DOMAIN parts |-> Words[parts[i]]])

IsWheel(f) == f.extension = ".whl"

\* A wheel has a name, a version and three kinds of tags, with the build tag of
\* the sixth part between them.
IsWheelName(f) == IsWheel(f) /\ Len(f.parts) >= 5

\* get_sdist_name_ver_ext: a name, a dash and a version; the tests of weird
\* versions are Refused.
IsSdistName(f) ==
  /\ f.extension \in {".zip", ".tar.gz", ".tar.xz"}
  /\ Len(f.parts) >= 2
  /\ <<Last(f.parts), f.parts[Len(f.parts) - 1]>> \notin Refused

\* The files of which dists_from_paths_or_urls makes a distribution; get_dist_class
\* refuses the .tar.xz that EXTENSIONS_INSTALLABLE accepts, and what is refused
\* is skipped.
IsDist(f) == IsWheelName(f) \/ (IsSdistName(f) /\ f.extension # ".tar.xz")

NameOf(f) == normalize_name(IF IsWheel(f) THEN <<f.parts[1]>> ELSE Front(f.parts))
VersionOf(f) == IF IsWheel(f) THEN Dashed[f.parts[2]] ELSE Last(f.parts)

\* The tags of a wheel: a build tag begins with a digit.  What comes after the
\* last part that is used would be the end of a platform that nothing runs on.
WheelTags(f) ==
  LET first == IF Len(f.parts) >= 6 /\ f.parts[3] \in Numbered THEN 4 ELSE 3
  IN  IF Len(f.parts) > first + 2 THEN {}
      ELSE Pieces[f.parts[first]] \X Pieces[f.parts[first + 1]]
             \X Pieces[f.parts[first + 2]]

\* The platforms that the names of wheels have.
WheelPlatforms ==
  UNION {{tag[3] : tag \in WheelTags(f)} : f \in {g \in FileName : IsWheelName(g)}}

\* What a skipped platform alone would bring is no wheel's: packvers.mac_platforms
\* loses universal2 before macOS 10.4, which x86_64 does not bring.
ASSUME SkippingAssumption ==
  \A os \in OperatingSystem, platform \in WheelPlatforms :
    LosesNothing(platform, PlatformsByOs[os])

\* Mutant: the versions are compared as texts.
SortByText(f) == <<NameOf(f), VersionOf(f)>>

\* NameVer.sortable_name_version.
SortKey(f) == <<NameOf(f), Ordinal[VersionOf(f)]>>

--------------------------------------------------------------------------------
First(files, rank) == CHOOSE f \in files : \A g \in files : rank[f] <= rank[g]
Latest(files, rank) == {f \in files : \A g \in files : rank[g] <= rank[f]}

\* PypiPackage.package_from_dists, for files with one sort key: the first one
\* gives the text of the version, the last sdist stays; no sdist is {}.
PackageFromDists(dists, rank) ==
  [name |-> NameOf(First(dists, rank)),
   version |-> VersionOf(First(dists, rank)),
   sdist |-> Latest({f \in dists : ~ IsWheel(f)}, rank),
   wheels |-> {f \in dists : IsWheel(f)}]

\* packages_from_many_paths_or_urls: a stable sort and groupby.
PackagesFrom(files, rank) ==
  LET dists == {f \in files : IsDist(f)}
  IN  {PackageFromDists({g \in dists : SortKey(g) = SortKey(f)}, rank) : f \in dists}

\* get_package_version with a version: an exact match of the text.  In the list of a
\* page with several names the last name would win; PagesAreOwn says there is none.
PackageVersion(packages, version) == {p \in packages : p.version = version}

\* get_package_version without: the last of the sorted mapping.
LatestVersion(packages) ==
  {p \in packages : \A q \in packages : Ordinal[q.version] <= Ordinal[p.version]}

is_supported_by_tags(wheel, tags) == WheelTags(wheel) \cap tags # {}

\* get_supported_wheels of a package.
SupportedWheels(package, environment) ==
  {w \in package.wheels : is_supported_by_tags(w, EnvironmentTags[environment])}
================================================================================
