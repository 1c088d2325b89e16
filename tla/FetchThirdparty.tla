---------------------------- MODULE FetchThirdparty ----------------------------
(***************************************************************************)
(* etc/scripts/fetch_thirdparty.py up to its report of missing files, with *)
(* what it calls in utils_requirements.py and utils_thirdparty.py:         *)
(* get_required_name_version, PypiSimpleRepository, download_wheel and     *)
(* download_sdist.  Runs of the script follow each other on one            *)
(* destination directory; the indexes get new releases, and fail, at any   *)
(* time.  The pages that were read stay in the cache directory, for runs   *)
(* with --use-cached-index.                                                *)
(*                                                                         *)
(* A file has a normalized name, a version and a dist: the environment     *)
(* that a wheel supports, or Sdist.  A wheel that supports several is a    *)
(* file of each.  Version 0 is no version: "" or None.                     *)
(* FileCache models the fetching of one index page or of one file.         *)
(***************************************************************************)
EXTENDS Integers, Sequences, FiniteSets

CONSTANTS
  Spelling,        \* the package names as they are spelled in requirements
  Normalize,       \* NameVer.normalize_name: of each spelling its normal form
  Environment,     \* the environments of --python-version and --operating-system
  Sdist,
  Repos,           \* the repositories of --index-url, in order of preference
  Released,        \* of each repository, the files it holds at first
  Releasable,      \* of each repository, the files that may come later
  MaxVersion,
  Commands,        \* the command lines in use
  MaxRuns          \* bound: how often the script is run

Name == {Normalize[s] : s \in Spelling}
Repo == {Repos[i] : i \in DOMAIN Repos}
Dist == Environment \cup {Sdist}
File == [name : Name, version : 1..MaxVersion, dist : Dist]

\* A requirement, split into its name, its operator and its version.
Requirement == [name : Spelling, operator : {"", "==", ">="}, version : 0..MaxVersion]

\* What the script is asked for: the --spec options, the lines of the --requirements
\* files, and the other options.
Command ==
  [specifiers : SUBSET Requirement, lines : SUBSET Requirement,
   wheels : BOOLEAN, sdists : BOOLEAN, latest_version : BOOLEAN,
   use_cached_index : BOOLEAN,
   sdist_only : SUBSET Spelling, wheel_only : SUBSET Spelling,
   no_dist : SUBSET Spelling]

ASSUME NamesAssumption ==
  /\ Normalize \in [Spelling -> Spelling]
  /\ \A n \in Name : Normalize[n] = n
  /\ Sdist \notin Environment

ASSUME ReposAssumption ==
  /\ Repos \in Seq(Repo)
  /\ \A i, j \in DOMAIN Repos : Repos[i] = Repos[j] => i = j
  /\ Released \in [Repo -> SUBSET File] /\ Releasable \in [Repo -> SUBSET File]
  /\ MaxVersion \in Nat /\ MaxRuns \in Nat

ASSUME CommandsAssumption == Commands \subseteq Command

VARIABLES
  index,       \* of each repository: the files its pages list
  dest,        \* the files in the destination directory
  run,         \* the number of the current run
  pc,          \* where it is
  command,     \* its command line
  required,    \* required_name_versions: pairs of a spelling and a version
  wheelsToGet, \* the pairs <<nv, environment>> not yet processed
  sdistsToGet, \* the nv whose sdist is not yet processed
  fetched,     \* of each repository: fetched_package_normalized_names
  packages,    \* of each repository: the files of its packages, once fetched
  cached,      \* of each repository: the names whose page is in the cache
  cachedFiles, \* of each repository: the files that those pages list
  before,      \* index when the run began
  obtained,    \* records of what was fetched: for what, from where
  missing      \* wheels_or_sdist_not_found, as pairs <<nv, dist>>

workVars == <<required, wheelsToGet, sdistsToGet>>
cacheVars == <<cached, cachedFiles>>
repoVars == <<fetched, packages, cacheVars>>
vars == <<index, dest, run, pc, command, workVars, repoVars, before, obtained, missing>>

Init ==
  /\ index = Released
  /\ dest = {}
  /\ run = 0
  /\ pc = "ended"
  /\ command \in Commands
  /\ required = {} /\ wheelsToGet = {} /\ sdistsToGet = {}
  /\ fetched = [r \in Repo |-> {}]
  /\ packages = [r \in Repo |-> {}]
  /\ cached = [r \in Repo |-> {}] /\ cachedFiles = [r \in Repo |-> {}]
  /\ before = index
  /\ obtained = {} /\ missing = {}

--------------------------------------------------------------------------------
\* get_required_name_version: a ValueError for an operator other than "==".
IsRefused(spec, with_unpinned) ==
  ~ with_unpinned /\ spec.operator # "==" /\ spec.version # 0

get_required_name_version(spec, with_unpinned) ==
  <<spec.name, IF with_unpinned THEN 0 ELSE spec.version>>

\* get_required_name_versions: a line without "==" is ignored.
AcceptedLines(lines, with_unpinned) ==
  {line \in lines : with_unpinned \/ line.operator = "=="}

\* get_local_packages: the names and versions in the names of the files.
LocalPackages == {<<f.name, f.version>> : f \in dest}

\* The packages found in the destination, those of the lines and the specifiers.
Required(c) ==
  LET requirements == c.specifiers \cup AcceptedLines(c.lines, c.latest_version)
      all == LocalPackages \cup
             {get_required_name_version(q, c.latest_version) : q \in requirements}
  IN  IF c.latest_version THEN {<<nv[1], 0>> : nv \in all} ELSE all

\* Mutant: what the last run missed is remembered.
NewProcessButMissing ==
  /\ fetched' = [r \in Repo |-> {}]
  /\ packages' = [r \in Repo |-> {}]
  /\ obtained' = {} /\ UNCHANGED missing

\* A new process: what the last one knew of the indexes is gone, but for the cache.
NewProcess ==
  /\ fetched' = [r \in Repo |-> {}]
  /\ packages' = [r \in Repo |-> {}]
  /\ obtained' = {} /\ missing' = {}

Start(c) ==
  /\ pc \in {"done", "missing", "ended"}
  /\ run < MaxRuns
  /\ run' = run + 1
  /\ command' = c
  /\ NewProcess
  /\ IF \/ ~ (c.wheels \/ c.sdists)
        \/ \E s \in c.specifiers : IsRefused(s, c.latest_version)
        \/ Required(c) = {}
     THEN /\ pc' = "ended"
          /\ required' = {} /\ wheelsToGet' = {} /\ sdistsToGet' = {}
     ELSE /\ pc' = "fetching"
          /\ required' = Required(c)
          /\ wheelsToGet' = IF c.wheels THEN Required(c) \X Environment ELSE {}
          /\ sdistsToGet' = Required(c)
  /\ before' = index
  /\ UNCHANGED <<index, dest, cacheVars>>

--------------------------------------------------------------------------------
\* fetch_links, and the packages made from them.
Page(r, n) == {f \in index[r] : f.name = n}
CachedPage(r, n) == {f \in cachedFiles[r] : f.name = n}

\* Mutant: a page in the cache is used without the option, too.
IsCachedAnyway(r, n) == n \in cached[r]

\* The page comes from the cache: Cache.get without force.
IsCached(r, n) == command.use_cached_index /\ n \in cached[r]

\* The repositories that a request for the page of a name goes to.
Asked(n) == {r \in Repo : n \notin fetched[r] /\ ~ IsCached(r, n)}

\* Mutant: the page is read again each time.
KnownNow(r, n, failing) == IF r \in failing THEN {} ELSE Page(r, n)

\* What get_package_versions knows of a name after it asked for its page, when
\* the pages of the repositories in failing cannot be fetched.
Known(r, n, failing) ==
  CASE n \in fetched[r] -> {f \in packages[r] : f.name = n}
    [] n \notin fetched[r] /\ IsCached(r, n) -> CachedPage(r, n)
    [] OTHER -> IF r \in failing THEN {} ELSE Page(r, n)

\* get_package_version: the exact version, or the latest when there is none.
PackageVersion(files, version) ==
  {f \in files : IF version # 0 THEN f.version = version
                 ELSE \A g \in files : g.version <= f.version}

\* The files of a repository that download_wheel or download_sdist would take.
Suitable(r, nv, dist, failing) ==
  {f \in PackageVersion(Known(r, Normalize[nv[1]], failing), nv[2]) : f.dist = dist}

\* Mutant: the loop goes on after the first repository with a suitable file.
ConsultedAll(nv, dist, failing) == Repo

\* The repositories up to the first with a suitable file.
Consulted(nv, dist, failing) ==
  {Repos[i] : i \in {i \in DOMAIN Repos :
                       \A j \in 1..(i - 1) : Suitable(Repos[j], nv, dist, failing) = {}}}

\* The pages of a name that these repositories return go into the cache, some
\* links of each.
CachePages(n, repos, links) ==
  /\ cached' = [r \in Repo |-> cached[r] \cup (IF r \in repos THEN {n} ELSE {})]
  /\ cachedFiles' = [r \in Repo |->
                       IF r \in repos THEN {f \in cachedFiles[r] : f.name # n} \cup links[r]
                       ELSE cachedFiles[r]]
WholePages(n) == [r \in Repo |-> Page(r, n)]

\* _get_package_versions_map: a name counts as fetched before it is fetched.
RecordVersions(n, consulted, failing) ==
  LET new == {r \in consulted : n \notin fetched[r]}
  IN  /\ fetched' = [r \in Repo |-> fetched[r] \cup (IF r \in new THEN {n} ELSE {})]
      /\ packages' = [r \in Repo |-> packages[r] \cup
                        (IF r \in new THEN Known(r, n, failing) ELSE {})]
      /\ CachePages(n, new \cap (Asked(n) \ failing), WholePages(n))

\* The packages are processed in the order of their names and versions, the
\* environments in that of the options; nothing depends on it, and any order is
\* allowed here.

\* The loop of download_wheel and of download_sdist over the repositories.
Download(nv, dist, failing) ==
  LET consulted == Consulted(nv, dist, failing)
      found == {r \in consulted : Suitable(r, nv, dist, failing) # {}}
  IN  /\ RecordVersions(Normalize[nv[1]], consulted, failing)
      /\ obtained' = obtained \cup
           UNION {{[nv |-> nv, repo |-> r, file |-> f] : f \in Suitable(r, nv, dist, failing)} :
                  r \in found}
      /\ dest' = dest \cup UNION {Suitable(r, nv, dist, failing) : r \in found}
      /\ missing' = missing \cup (IF found = {} THEN {<<nv, dist>>} ELSE {})

DownloadWheel(nv, environment) ==
  /\ pc = "fetching"
  /\ <<nv, environment>> \in wheelsToGet
  /\ \E failing \in SUBSET Asked(Normalize[nv[1]]) : Download(nv, environment, failing)
  /\ wheelsToGet' = wheelsToGet \ {<<nv, environment>>}
  /\ UNCHANGED <<index, run, pc, command, before, required, sdistsToGet>>

\* Sdists are wanted in general, or for a name that has no wheel.
WantsSdist(nv) ==
  \/ command.sdists
  \/ nv[1] \in command.sdist_only /\ \E e \in Environment : <<nv, e>> \in missing

\* Mutant: an sdist that nobody wants is never done with.
DownloadWantedSdist(nv) ==
  /\ pc = "fetching"
  /\ nv \in sdistsToGet
  /\ \A e \in Environment : <<nv, e>> \notin wheelsToGet
  /\ WantsSdist(nv)
  /\ \E failing \in SUBSET Asked(Normalize[nv[1]]) : Download(nv, Sdist, failing)
  /\ sdistsToGet' = sdistsToGet \ {nv}
  /\ UNCHANGED <<index, run, pc, command, before, required, wheelsToGet>>

\* The sdist of a package comes after its wheels.
DownloadSdist(nv) ==
  /\ pc = "fetching"
  /\ nv \in sdistsToGet
  /\ \A e \in Environment : <<nv, e>> \notin wheelsToGet
  /\ IF WantsSdist(nv)
     THEN \E failing \in SUBSET Asked(Normalize[nv[1]]) : Download(nv, Sdist, failing)
     ELSE UNCHANGED <<repoVars, obtained, dest, missing>>
  /\ sdistsToGet' = sdistsToGet \ {nv}
  /\ UNCHANGED <<index, run, pc, command, before, required, wheelsToGet>>

\* What may be downloaded next.
Pending ==
  wheelsToGet \cup
  ({nv \in sdistsToGet : WantsSdist(nv) /\ \A e \in Environment : <<nv, e>> \notin wheelsToGet}
     \X {Sdist})

\* The script stops in the loop of download_wheel or download_sdist, at a repository:
\* the pages it has read are in the cache, the last one perhaps in part, or the
\* file that it takes is in the destination, perhaps in part.
StopIn(nv, dist) ==
  \E failing \in SUBSET Asked(Normalize[nv[1]]), i \in DOMAIN Repos :
    LET n == Normalize[nv[1]]
        read == {Repos[j] : j \in 1..i} \cap (Asked(n) \ failing)
    IN  /\ Repos[i] \in Consulted(nv, dist, failing)
        /\ \/ /\ \E links \in SUBSET Page(Repos[i], n) :
                   CachePages(n, read, [WholePages(n) EXCEPT ![Repos[i]] = links])
              /\ UNCHANGED dest
           \/ /\ CachePages(n, read, WholePages(n))
              /\ \E f \in Suitable(Repos[i], nv, dist, failing) : dest' = dest \cup {f}

\* An index or a file cannot be fetched at all, or the script is killed: the run
\* ends there.
Abort ==
  /\ pc = "fetching"
  /\ pc' = "ended"
  /\ \/ UNCHANGED <<dest, cacheVars>>
     \/ \E w \in Pending : StopIn(w[1], w[2])
  /\ NewProcess
  /\ required' = {} /\ wheelsToGet' = {} /\ sdistsToGet' = {}
  /\ UNCHANGED <<index, run, command, before>>

\* The entries of wheels_or_sdist_not_found that the command line does not excuse.
SdistMissing(nv) ==
  command.sdists /\ <<nv, Sdist>> \in missing /\ nv[1] \notin command.wheel_only

\* Mutant: wheels are missing when there is none at all.
AllWheelsMissing(nv) ==
  /\ command.wheels
  /\ \A e \in Environment : <<nv, e>> \in missing
  /\ nv[1] \notin command.sdist_only

WheelsMissing(nv) ==
  /\ command.wheels
  /\ \E e \in Environment : <<nv, e>> \in missing
  /\ nv[1] \notin command.sdist_only
MissingInAction ==
  {nv \in required : nv[1] \notin command.no_dist
                     /\ (SdistMissing(nv) \/ WheelsMissing(nv))}

Report ==
  /\ pc = "fetching"
  /\ wheelsToGet = {} /\ sdistsToGet = {}
  /\ pc' = IF MissingInAction = {} THEN "done" ELSE "missing"
  /\ UNCHANGED <<index, dest, run, command, workVars, repoVars, before, obtained, missing>>

\* A new file appears in an index.
Release(r, file) ==
  /\ file \in Releasable[r] \ index[r]
  /\ index' = [index EXCEPT ![r] = @ \cup {file}]
  /\ UNCHANGED <<dest, run, pc, command, workVars, repoVars, before, obtained, missing>>

--------------------------------------------------------------------------------
Step ==
  \/ \E nv \in required : \/ \E e \in Environment : DownloadWheel(nv, e)
                          \/ DownloadSdist(nv)
  \/ Report

Next ==
  \/ \E c \in Commands : Start(c)
  \/ Step
  \/ Abort
  \/ \E r \in Repo : \E file \in Releasable[r] : Release(r, file)

Spec == Init /\ [][Next]_vars

\* A run that has started goes on.
FairSpec == Spec /\ WF_vars(Step)

--------------------------------------------------------------------------------
TypeOK ==
  /\ index \in [Repo -> SUBSET File]
  /\ dest \in SUBSET File
  /\ run \in 0..MaxRuns
  /\ pc \in {"fetching", "done", "missing", "ended"}
  /\ command \in Commands
  /\ required \in SUBSET (Spelling \X (0..MaxVersion))
  /\ wheelsToGet \in SUBSET (required \X Environment)
  /\ sdistsToGet \in SUBSET required
  /\ fetched \in [Repo -> SUBSET Name]
  /\ packages \in [Repo -> SUBSET File]
  /\ cached \in [Repo -> SUBSET Name]
  /\ cachedFiles \in [Repo -> SUBSET File]
  /\ before \in [Repo -> SUBSET File]
  /\ obtained \in SUBSET [nv : required, repo : Repo, file : File]
  /\ missing \in SUBSET (required \X Dist)

\* A run that reports no missing file has put into the destination, for each
\* package it required and the options do not excuse, a wheel for every
\* environment and an sdist, as they were asked for.
DoneIsComplete ==
  pc = "done" =>
    \A nv \in required :
      LET Got(dist) ==
            \E o \in obtained : o.nv = nv /\ o.file.dist = dist /\ o.file \in dest
      IN  /\ command.wheels /\ nv[1] \notin command.no_dist \cup command.sdist_only
               => \A e \in Environment : Got(e)
          /\ command.sdists /\ nv[1] \notin command.no_dist \cup command.wheel_only
               => Got(Sdist)

\* "Use the first PyPI simple repository from a list of repos that contains this
\* wheel" (utils_thirdparty.py:236): of the pages as this run saw them, no
\* earlier one lists what was taken from a later one.
FirstRepository ==
  \A o \in obtained, i, j \in DOMAIN Repos :
    i < j /\ Repos[j] = o.repo =>
      Normalize[o.nv[1]] \in fetched[Repos[i]]
        /\ Suitable(Repos[i], o.nv, o.file.dist, {}) = {}

\* "If True, use any existing on-disk cached PyPI index files. Otherwise, fetch and
\* cache" (utils_thirdparty.py:1632): without --use-cached-index, what a run knows of
\* a page has all that the index had when the run began, or nothing when the page
\* could not be fetched, whatever earlier runs left in the cache.
PagesAreFresh ==
  ~ command.use_cached_index =>
    \A r \in Repo : \A n \in fetched[r] :
      LET known == {f \in packages[r] : f.name = n}
      IN  known = {} \/ {f \in before[r] : f.name = n} \subseteq known

\* What a run takes from one repository for one requirement is of one version,
\* though new versions come out while it runs.
OneVersion ==
  \A o, p \in obtained :
    o.nv = p.nv /\ o.repo = p.repo => o.file.version = p.file.version

\* Every run ends.
RunsEnd == (pc = "fetching") ~> (pc # "fetching")

\* "Requirement version must be pinned" unless with_unpinned
\* (utils_requirements.py:51): a run without --latest-version fetches nothing
\* but exact versions.
PinnedOnly == ~ command.latest_version => \A nv \in required : nv[2] # 0

\* "The command will not fail and exit if no wheel exists for these names"
\* (fetch_thirdparty.py:122): when only wheels are asked for and every package
\* is named in --sdist-only, in whatever spelling, the run does not fail.
SdistOnlyNeverFails ==
  pc = "missing" /\ ~ command.sdists =>
    \E nv \in required :
      Normalize[nv[1]] \notin {Normalize[s] : s \in command.sdist_only}

================================================================================
