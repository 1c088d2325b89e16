--------------------------------- MODULE Tags ---------------------------------
(***************************************************************************)
(* The compatibility tags of an Environment: etc/scripts/utils_thirdparty  *)
(* and etc/scripts/utils_pip_compatibility_tags.py.                        *)
(*                                                                         *)
(* A tag is a triple of an interpreter, an ABI and a platform, each of     *)
(* them a tuple of what its text says: <<"cp", 3, 10>>, <<"abi3">>,        *)
(* <<"manylinux1", "x86_64">>.  The order of tags is dropped: they become  *)
(* a set.                                                                  *)
(***************************************************************************)
EXTENDS Integers, Sequences

CONSTANTS
  PlatformsByOs,   \* PLATFORMS_BY_OS: of each operating system, a sequence
  MacPlatforms,    \* packvers.tags.mac_platforms: of a macOS platform, those it runs
  PythonMinors     \* PYTHON_VERSIONS: the n of each Python 3.n

OperatingSystem == DOMAIN PlatformsByOs

ASSUME PlatformsAssumption ==
  /\ \A os \in OperatingSystem : PlatformsByOs[os] \in Seq(Seq(STRING))
  /\ PythonMinors \subseteq Nat

AnyPlatform == <<"any">>
NoAbi == <<"none">>
StableAbi == <<"abi3">>

\* Environment.from_pyver_and_os, with ABIS_BY_PYTHON_VERSION.
from_pyver_and_os(minor, os) ==
  [minor |-> minor, platforms |-> PlatformsByOs[os],
   abis |-> {<<"cp", 3, minor>>, <<"cp", 3, minor, "m">>, StableAbi}]

Environment == {from_pyver_and_os(n, os) : n \in PythonMinors, os \in OperatingSystem}

--------------------------------------------------------------------------------
\* _custom_manylinux_platforms.
CustomManylinuxPlatforms(platform) ==
  {platform} \cup
  CASE platform[1] = "manylinux2014" /\ platform[2] \in {"i686", "x86_64"} ->
         {<<"manylinux2010", platform[2]>>, <<"manylinux1", platform[2]>>}
    [] platform[1] = "manylinux2010" -> {<<"manylinux1", platform[2]>>}
    [] OTHER -> {}

\* _mac_platforms; what is no platform of macOS with a version stays as it is.
MacPlatformsOf(platform) ==
  IF platform \in DOMAIN MacPlatforms THEN MacPlatforms[platform] ELSE {platform}

\* _get_custom_platforms.
GetCustomPlatforms(platform) ==
  IF platform[1] \in {"manylinux2014", "manylinux2010"}
  THEN CustomManylinuxPlatforms(platform)
  ELSE MacPlatformsOf(platform)

\* Mutant: the platforms as they are listed.
ListedPlatforms(platforms) == {platforms[i] : i \in DOMAIN platforms}

\* _expand_allowed_platforms: a platform that another one brought in is skipped
\* with all that it would bring.
ExpandAllowedPlatforms(platforms) ==
  LET seen[i \in 0..Len(platforms)] ==
        IF i = 0 THEN {}
        ELSE seen[i - 1] \cup (IF platforms[i] \in seen[i - 1] THEN {}
                               ELSE GetCustomPlatforms(platforms[i]))
  IN  seen[Len(platforms)]

\* packvers.tags.cpython_tags: with abi3 also of the older versions, down to 3.2.
CpythonTags(minor, abis, platforms) ==
  ({<<"cp", 3, minor>>} \X (abis \cup {StableAbi, NoAbi}) \X platforms) \cup
  ({<<"cp", 3, n>> : n \in 2..minor} \X {StableAbi} \X platforms)

\* packvers.tags.compatible_tags: py310, py3, py39, ..., py30, and cp310.
CompatibleTags(minor, platforms) ==
  LET versions == {<<"py", 3>>} \cup {<<"py", 3, n>> : n \in 0..minor}
  IN  (versions \X {NoAbi} \X (platforms \cup {AnyPlatform})) \cup
      {<<<<"cp", 3, minor>>, NoAbi, AnyPlatform>>}

\* Environment.tags and get_supported, for the implementation "cp".
TagsOf(environment) ==
  LET platforms == ExpandAllowedPlatforms(environment.platforms)
  IN  CpythonTags(environment.minor, environment.abis, platforms) \cup
      CompatibleTags(environment.minor, platforms)
EnvironmentTags == [e \in Environment |-> TagsOf(e)]

--------------------------------------------------------------------------------
\* A reference for TagsOf, without an order and without skipping: what a tag has
\* to say for an interpreter of the environment to load a wheel that has it.
RunsOn(platform, environment) ==
  \E i \in DOMAIN environment.platforms :
    platform \in GetCustomPlatforms(environment.platforms[i])

\* Skipping does not lose a platform that one of those brings which no earlier
\* one brings.
LosesNothing(platform, platforms) ==
  LET brings(i) == GetCustomPlatforms(platforms[i])
  IN  (\E i \in DOMAIN platforms : platform \in brings(i)) =>
        \E i \in DOMAIN platforms :
          platform \in brings(i) /\ \A j \in 1..(i - 1) : platforms[i] \notin brings(j)

Fits(tag, environment) ==
  LET cp == <<"cp", 3, environment.minor>>
      older == {<<"cp", 3, n>> : n \in 2..environment.minor}
      generic == {<<"py", 3>>} \cup {<<"py", 3, n>> : n \in 0..environment.minor}
  IN  \/ RunsOn(tag[3], environment)
         /\ \/ tag[1] = cp /\ tag[2] \in environment.abis \cup {NoAbi}
            \/ tag[1] \in older /\ tag[2] = StableAbi
            \/ tag[1] \in generic /\ tag[2] = NoAbi
      \/ tag[3] = AnyPlatform /\ tag[2] = NoAbi /\ tag[1] \in generic \cup {cp}
================================================================================
