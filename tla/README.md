# purl-validator in TLA+

Specifications of the `purl_validator` library and of the maintenance scripts of
this repository, with TLC configurations that check them on small instances and
proofs that TLAPS checks for every instance. Paths below are relative to the
repository's root; `PROJECT.json` maps every definition to the lines it models.

    tlc -workers 2 -config PurlValidator.cfg MCPurlValidator     # one run
    tlapm PurlValidatorProofs.tla                                # one proof module

## 1. The system

The repository has one library and a set of scripts around it.

| Component | State it keeps | Operations | What is hard |
|---|---|---|---|
| **Library** `src/purl_validator/__init__.py` | map files, each in its own temporary directory; the map shipped with the package; memory mappings of validators | `create_purl_map`, `create_purl_map_entry`, `PurlValidator()`, `validate_purl`, the caller's deletion of a map | several calls at once, failures in the middle of a build, deletion under a reader, distinct packages with one entry |
| **File cache and fetching** `etc/scripts/utils_thirdparty.py` (`Cache`, `get_remote_file_content`, `fetch_and_save`) | a cache directory that outlives the scripts, files in the destination | get with and without force, retry when throttled, save | a kill between opening and writing, several scripts on one directory, throttling, content that changes |
| **Downloads** `etc/scripts/fetch_thirdparty.py`, `PypiSimpleRepository`, `download_wheel`, `download_sdist`, `utils_requirements.py` | the packages of each repository as read so far; the destination directory; the list of missing files | collect requirements, download wheels and sdists from the first repository, report | lazy reading of pages that fail or change, pages that earlier runs cached, options by name, a second run on what the first one left |
| **Metadata** `Distribution.load_about_data` ... `fetch_abouts_and_licenses`, `clean_about_files`, `find_problems` | `.ABOUT`, `.NOTICE`, `.LICENSE` files; the objects of distributions during a run | a cascade of local and remote sources, saves, cleaning, report | kills between two files that belong together, failing requests, stale and conflicting data, archives that are replaced |
| **Links page** `LinksRepository` | one list of links for all instances | `find_links`, `from_url` | a shared mutable default |
| **Filenames and packages** `NameVer`, `Sdist`, `Wheel`, `PypiPackage` | none | parse, group, sort, look up | names and versions that are equal but written differently, files that one script takes and another refuses |
| **Environments and tags** `Environment`, `utils_pip_compatibility_tags.py`, `utils_pypi_supported_tags.py` | none | tags of an environment | platforms that bring in others, boundary cases |
| **Requirements locks** `lock_requirements`, `lock_dev_requirements`, `gen_requirements*.py` | `requirements.txt`, `requirements-dev.txt` | freeze, subtract, write | a file that is emptied before its content is known, packages that change between two steps, two commands at once |
| **Simple index** `gen_pypi_simple.py` | the `simple/` tree | delete and rebuild | a failure half-way, a deletion that leaves something, files that come and go, readers meanwhile |
| **DejaCode client** `utils_dejacode.py` | packages in a remote service | query, create | none: every function fails before its first request (section 5) |
| **Reports, pip wrapper, skeleton update, benchmarks, configure, CI, docs** | none of their own | sequences of external commands, timings, prints | what they call |

How they interact: `fetch_thirdparty` asks each `PypiSimpleRepository` for
packages; a repository reads its page through the `Cache` (forced unless
`--use-cached-index`), and a distribution is downloaded by `fetch_and_save`,
which goes through the `Cache` too, never forced. After the report the metadata
functions run over the destination, using the links page and the self-hosted
repository. `gen_pypi_simple` produces indexes of the kind that repositories
read: `PypiPackage` turns the links of a page into packages, and the tags of an
`Environment` select wheels from them. `gen_requirements*` write the files that
`fetch_thirdparty` reads. The
library shares nothing with the scripts.

## 2. The modules

| Module | Models |
|---|---|
| `PurlEntry` | `create_purl_map_entry`: from an argument to a key |
| `PurlValidator` | `create_purl_map`, deletion of maps, `PurlValidator` |
| `PurlCatalog` | the abstract promise of the library |
| `MCPurlValidator` | values for TLC |
| `PurlValidatorProofs` | theorems about `PurlValidator` |
| `FileCache` | `Cache.get`, retries, `fetch_and_save` |
| `FileCacheProofs` | theorems about `FileCache` |
| `Tags` | the tags of an `Environment` |
| `Packages` | filenames, distributions, packages and their lookup |
| `PackagesProofs` | theorems about the operators of `Tags` and `Packages` |
| `SimpleIndex` | `build_pypi_index`, and what a reader makes of the index with `Packages` and `Tags` |
| `MCSimpleIndex` | values for TLC |
| `SimpleIndexProofs` | theorems about `SimpleIndex` |
| `FetchThirdparty` | `fetch_thirdparty` up to its report, repositories, downloads |
| `MCFetchThirdparty` | values for TLC |
| `FetchThirdpartyProofs` | theorems about `FetchThirdparty` |
| `AboutFiles` | the ABOUT, NOTICE and LICENSE files that `fetch_thirdparty` ends with |
| `MCAboutFiles` | values for TLC |
| `AboutFilesProofs` | theorems about `AboutFiles`: what holds at every moment |
| `AboutFilesRunProofs` | theorems about what its runs leave when they end |
| `RequirementsFiles` | `gen_requirements` and `gen_requirements_dev` |
| `MCRequirementsFiles` | values for TLC |
| `RequirementsFilesProofs` | theorems about `RequirementsFiles` |

Definitions that begin with the comment "Mutant" are plausible faults of the
definition that follows them. No specification uses them: each shows that some
property would notice the fault.

### PurlEntry, PurlValidator, PurlCatalog

A `PackageURL` is a record whose namespace and name are sequences of segments;
joining strings with `/` is concatenation. `packageurl` keeps a `/` that was
written `%2F` in a name, so a name can have several segments. Arguments are
`PackageURL` objects, strings (`from_string` says what each one parses to, or
that it does not) and other objects, which are refused.

A call of `create_purl_map` goes through `PrepareEntries` (every argument is
converted before anything is touched; a `ValueError` ends the call),
`MakeTempDir`, one `WritePair` for each pair that `ducer.Map.build` consumes, and
`ReturnMap`; `BuildFails` is an error of the file system or the end of the
process at any point after the entries are made. `ducer` is external: it is
modelled by what the code relies on, that it writes sorted pairs and refuses a
key that does not follow the previous one (`Follows`). `DeleteMap` is what the
tests do with a map. A validator opens a location that was returned to somebody
(`Load`), answers (`validate_purl`) and goes away (`Release`). A deleted map stays
readable through a mapping, so `content` outlives `linked`.

`PurlCatalog` has neither files nor maps: a call publishes the base PURLs (type,
namespace, name) of its arguments or nothing, and an open validator answers by
membership in one publication. `PurlValidator!Catalog` is the refinement mapping:
a call has published when it has returned, and the catalog of a validator is what
the map it reads was made from.

### FileCache

One action for each step that another process can see: the decision between hit
and miss (`Get`), a read (`ReadCached`), a request with each of its outcomes
(`Fetched`, `Throttled`, `NotFetched`), the opening of a file, which empties it,
and the writing (`OpenCached`, `WriteCached`, `OpenSaved`, `WriteSaved`). `Killed`
is the end of the process, or a failing write, at any of these. Content is a
version number; a file is absent, empty, one version, or broken (a part or a
mix). Two URLs with one cache key stand for one URL.

### Tags, Packages, SimpleIndex

`Tags` and `Packages` are operators without state. A tag is a triple of what its
parts say, and `TagsOf` is the set of tags that `Environment.tags` lists, built as
the code builds it: the platforms of an operating system one after the other,
each expanded unless an earlier one brought it in. A filename is its parts between
dashes and its extension; constants say what the code finds in a part (`Words`,
`Pieces`, `Ordinal`, `Refused`), so that a text is never taken apart character by
character. `PackagesFrom` is `packages_from_many_paths_or_urls` with its sort and its
grouping: the first file of a group gives the text of the version.
`packvers.tags` is external and modelled by what `utils_pip_compatibility_tags.py`
takes from it. A listed platform that an earlier one brought in is skipped together
with what it alone would bring; `SkippingAssumption` says that no wheel needs that. The
`mac_platforms` of `packvers` loses macOS 10.0 to 10.3 for universal2 in this way, and
the instance has one such platform.

`SimpleIndex` has one action for each statement of `build_pypi_index` that another
process can tell from the next: `RemoveTree` (which may leave anything, since
`rmtree` ignores errors), `Make`, for each file of the listing `SkipFile`, or `LinkFile`
and then `ReadFile`, and the writing of the main page, the page of each package and
`links.html` in two steps each. `Abort` is an exception or a kill at any of them.
`Put` and `Delete` change the directory meanwhile. Page entries carry the checksum,
which is the number of the content. Readers have no action: `Read` is what a reader
may get of a page at the moment, whole or cut off, and `Offers` is what
`PypiPackage` makes of it, so the properties hold for a reader at any moment.

### RequirementsFiles

One action for each step of the two commands: `OpenMain` (which empties the file),
`FreezeMain`, `WriteMain`, and `ReadMain`, `FreezeDev`, `OpenDev`, `WriteDev`, in any
interleaving, with packages that are installed and uninstalled between any two. A
line is pinned, ignored or refused; the commands fail (`FailDev`, `EndMain`) or are
killed (`KillDev`, `EndMain`) at any step. A run of `pip freeze` is one step, and so
is a write.

### FetchThirdparty

`Start` is a run of the script up to its loop: what is found in the destination,
the lines of the requirements files and the `--spec` options become required
names and versions, or the run ends with an error. `DownloadWheel` and
`DownloadSdist` are one pass of the loop each, with the loop over the
repositories inside; a page is read once in a run and kept, and one that cannot
be fetched counts as read (`RecordVersions`). Pages that were fetched stay in the
cache (`CachePages`) and a later run with `--use-cached-index` reads them there
(`IsCached`). `Report` is the decision at the end. `Abort` is every other exception
and a kill, at any point of the loop over the repositories (`StopIn`): it may leave
a page in the cache or a file in the destination that is only partly written.
`Release` is a new file in an index. Packages are taken in any order, which allows
more than the sorted order of the code.

Abstracted: versions are numbers; the tags that say which environment a wheel
supports are the field `dist` of a file (`Tags` has them, and `Packages` the versions
that are equal but written differently); the downloads themselves are FileCache's.
Not in the model: files that disappear from an index.

### AboutFiles

What `fetch_thirdparty` does after its report, over the distributions of the
directory: `Start` begins a run, `fetch_abouts_and_licenses` takes one distribution
after the other (`local_dist`) through its sources, `clean_about_files` goes over
them again, `Report` is `find_problems`. The sources are actions of the cascade:
`LoadAbout` (its own ABOUT file), `AskOtherDist` (each other distribution of its
package), `AskOtherVersion` (those of the latest other local version), `AskServer`,
`AskHostedVersion` and `ReadPkginfo` (the archive). After each the code asks
`has_key_metadata`. Then `SaveAbout` and `WriteAbout`, `SaveNotice` and
`WriteNotice` save in two steps each, because `save_if_modified` empties the file
when it opens it, and `ReadLinks`, `OpenLicense`, `WriteLicense` and `LicenseFails`
are `fetch_license_files` with the page of `LinksRepository`. `Kill` is an exception
or the end of the process at any statement; `ExitProcess` clears the memory.
`Replace` puts another archive in the place of one between two runs.

Four variables are history and decide nothing: `before` and `settled` (the ABOUT files
when the run started, and whether a completed run left them), `found` (those when the
first run started) and `torn`: the distributions whose ABOUT file, and the license
files, that a kill left open and empty. The promises of the component are stated with
that one exception, because the code has it: `CuratedDataIsKept` compares with `found`,
over all runs, and leaves out only what is in `torn`; `LicensesAccounted` lets an empty
license file be one of `torn` and nothing else; `CompleteStaysAsItIs` says nothing of a
file that is empty.

An object has the fields that some decision or another file depends on: license
expression, copyright, notice text, the list of licenses, part of `extra_data`, and
the checksum, which is the number of the archive it is of. `update` and
`update_from_other_dist` are operators on such records, with the difference that
the code makes: the first merges unknown fields into `extra_data`, the second
takes `extra_data` over as a whole. Names have a spelling (`RawName`) and a normal
form, because `packages_by_name` is filled with one and read with the other.
Requests get their content or do not; `FileCache` says how.

## 3. What the runs check

| Run | Instance | Shows |
|---|---|---|
| `validator` | 2 calls, 1 validator, 2 directories, 5 requests | answers are exact and stable, only complete maps are read, entries reach `ducer` in order, directories have one owner; `PurlCatalog` is implemented; calls end |
| `slash_in_name` | the same with a name that holds a `/` | **violation**: a false positive |
| `cache_alone` | 1 process, 2 URLs, 2 versions, no kill | whole content is returned, cached and saved; calls end |
| `cache_shared` | 2 processes, 1 URL, 2 versions, kills | forced calls are fresh, retries follow the schedule |
| `cache_killed` | 1 process, 1 URL, kills | **violation**: a killed write becomes a hit |
| `fetch` | 2 repositories, 2 environments, 3 spellings of 2 names, 2 versions, 7 command lines, 2 runs | what is reported complete is complete, first repository, one version of a requirement from each repository, no page of an earlier run unless that is asked for, runs end |
| `fetch_unpinned` | one command with an unpinned `--spec` | **violation**: the latest version is fetched |
| `fetch_sdist_only` | one command with `--sdist-only a.b`, 2 runs | **violation**: the second run fails |
| `about_files` | 3 local distributions of 2 versions, 1 on the server, 4 sets of ABOUT files to begin with, 1 replaced archive, 2 runs, kills, failing requests | completed runs repair what killed ones left; ABOUT files keep over both runs what they said at first, but for one that a kill leaves empty; packages do not mix |
| `about_other_dist` | the same distributions, an ABOUT file of the wheel only, 1 run | **violation**: an sdist gets nothing from its wheel's ABOUT file |
| `simple_index` | 14 filenames, 6 directories to begin with, 2 files that change, 2 builds, 2 Python versions and 2 operating systems with short lists of platforms | an index never mixes two builds, whole pages are complete and stay, `links.html` comes last, and readers find the wheels and the latest versions of the directory in it |
| `requirements` | 5 lines that may be installed, 3 main and 2 development files to begin with | no name, as spelled in lower case, is pinned in both files; both together pin the pinned lines of what is installed and lose the ignored ones only; a failure before the development file is opened does not change it |

Why the bounds are enough. `validator`: the interesting cases are two builds side
by side, a build under a reader, a deletion under a reader and a second map for
the same validator. Two calls have all of them with one validator, since a
validator changes nothing that a call or another validator reads. The instance has
no symmetry, which is not sound for the liveness property it checks. The requests
are the empty one, one with four arguments and two entries (an object and the
string for it, two versions of one package), one that needs sorting, one with a
string that does not parse after a valid argument, and one of another type. There
is one directory for each call, as `mkdtemp` makes them. `cache_*`: a URL's
content changes at most once or twice (`MaxVersion`), enough for stale, mixed and
new content; `LastDelay` is the code's 20, so all seven requests are made, and the counts of
requests and seconds stay at 8 and 64 (`MaxRequests`, `MaxSlept`), which is beyond
what `BacksOff` allows; a
second process is needed for interference on one file, a second URL for files
that must not interfere. `fetch`: with two repositories there is a first and a
later one, with two environments some wheels can be missing; one of the packages
has an sdist of the same version in both repositories, wheels for one environment
in each, and an sdist that is released during the run; the other comes as an sdist
only and has two spellings; `MaxRuns` = 2 lets a run
find what another left in the destination and in the cache. Its runs end after the last one, which is why that
configuration does not check for deadlock. `about_*`: an sdist and a wheel of one
version and a wheel of another give each local source something to offer, and the
server has a version that is not local; one of the ABOUT files is about another
package; `MaxArchive` = 2 is one replacement, and `Rebuilt` names the archive. Two
runs (`MaxRuns`) let the second find whatever the first left when it was killed at
any statement, or completed; these runs end as well, and are not checked for
deadlock. `simple_index`: the filenames have a name in two spellings, a version in
two texts, two files of equal version and different kinds, wheels with and without a
build tag, for one and for all systems, and each kind of file that the generator or
the readers refuse; the directories put together those that meet on one page. Two
builds (`MaxBuilds`) let the second start from whatever the first, or its own
deletion, left; a file changes while both go on, at most once (`MaxContent`). After
the last build it ends too, and is not checked for deadlock. `requirements`: one
package changes version and spelling, one has a version that is refused, one comes
from a file; there is no bound but these. All other configurations are checked for
deadlock.

### Fairness

`PurlValidator!FairSpec` has weak fairness of `Build(c)` for each call: the code
between the making of the entries and the return waits for nobody, so a call runs
on as long as its process does (`BuildFails` covers the process that does not).
`FileCache!FairSpec` has weak fairness of `Run(p)`: a call that has begun is a
sequence of statements, each of which returns, given that requests have some
answer in the end. (`requests.get` is called without a timeout at
`utils_thirdparty.py:1917`: a server that accepts a connection and never answers
would hang the script. The model assumes there is none, and `CallsEnd` says that
the retries end.) `FetchThirdparty!FairSpec` has weak fairness of the loop's
steps, on the same grounds. Starting calls or runs, releases and kills are never
fair.

### Findings

1. `create_purl_map_entry` joins type, namespace and name with `/`, so a name with
   a slash and no namespace has the entry of another package: `validate_purl`
   answers True for `pkg:npm/%40angular%2Fcore` when only `pkg:npm/%40angular/core`
   is in the map. `README.md` and `docs/source/data-structure-rationale.rst`
   promise exact answers without false positives.
2. `Cache.get` takes any existing file for a hit, and opens the file before it
   writes it: after a kill in between, later calls return empty or partial
   content. Two scripts at the same time meet the same state without any kill.
3. `get_required_name_version` accepts a name without a version where its
   docstring and doctest ask for an exception.
4. The options `--sdist-only`, `--wheel-only` and `--no-dist` are compared with
   names as they are spelled, and packages found in the destination have
   normalized names: a command that succeeded fails when it is repeated.
5. `fetch_abouts_and_licenses` asks the other distributions of a package for what
   they have in memory, before their ABOUT files were loaded
   (`utils_thirdparty.py:2027`): the first one, the sdist, gets nothing from its
   wheel's ABOUT file.

Seen while modelling, and part of the models without a run of their own:

- packages are filed by the spelling of their first filename and looked up by their
  normal form (`utils_thirdparty.py:2013`, `:2041`; `VersionsByName`);
- a download URL that cannot be derived is dropped (`to_about`);
- `save_if_modified` opens the ABOUT file, which empties it, before it writes it
  (`utils_thirdparty.py:686`; `SaveAbout`, `Kill`): a kill in between loses the license
  and the copyright that were curated in it, and the next run writes those of the
  other sources in their place. In the instance, a run that cannot read the index pages
  rewrites the ABOUT file of the sdist without its download URL and is killed, and the
  next one fills it from the server. A license file that is emptied in the same way
  stays empty (`:833`; `SkipLicense`);
- full URLs on the links page get a second prefix (`:1770`; `LinkUrl`), and entries of
  a `links.html` that `gen_pypi_simple` wrote end in `#sha256=...`, which the suffix
  test of `find_links` skips;
- `fetch_license_files` looks for the `licenses` of an ABOUT file in `extra_data`
  (`:827`), where they never are, since `licenses` is a field; `to_about` then drops
  them from the file (`LicenseNames`);
- `get_package_version` looks a version up by its text (`:1671`), while files are
  grouped by what the text means: 1.0 is not found when the first file of its group
  says 1.0.0 (`PackageVersion`; `WheelsAreServed` has the hypothesis `OneText`);
- a platform that is skipped would have brought others (`utils_pip_compatibility_tags.py:111`):
  universal2 of macOS 10.0 to 10.3 is lost so. A wheel for one of them would not be
  found; none can be built, since universal2 is younger (`SkippingAssumption`);
- `.tar.xz` is accepted as installable and then refused by `get_dist_class`, and
  `.tar.bz2` is put on index pages that no reader takes it from (`IsDist`);
- of the platforms of Linux only the `manylinux2014` and `manylinux2010` names are
  expanded (`CustomManylinuxPlatforms`);
- `gen_requirements_dev` compares names in lower case, not in normal form, and leaves
  out only those of pinned lines (`DevOnly`): `Zope_I==1` in the main file and
  `zope-i==2` in the development file can both be there (`DevExcludesMain` speaks of
  names in lower case, and `FilesPinTheSite` of unchanged packages, for this reason);
- a package that was installed from a file is a line without `==` (`name @ file:///...`),
  which `gen_requirements_dev` ignores (`utils_requirements.py:40`): it never gets into the
  development file, and so into neither file when it is not in the main one,
  although `gen_requirements_dev.py:24` says "all Python packages found installed".
  `FilesPinTheSite` says that these lines are lost and no others (`Lost`);
- `gen_requirements` empties its file before it runs `pip freeze`
  (`utils_requirements.py:86`; `OpenMain`): a failure loses the old content, and the
  next development file then lists every package.

## 4. What is proved

For every value of the constants that satisfies the modules' named assumptions.

**PurlValidatorProofs.** The invariant `IInv` says, besides the types, how far
each call's map is (what is written and what is pending together are the entries
of the request, and every written entry is before every pending one), to which
call each directory belongs, and that a complete map holds the entries of its
request. The safety properties alone are not inductive: that a read map is
complete says nothing about who may write to it next. From `Inductive` follow
`TypeCorrect`, `OrderKept`, `CompleteMapsRead` and `DirectoriesHaveOwners`.
`AnswersAreExact` and `Refinement` have the hypothesis `PlainNames`, that no name
holds a slash (finding 1 shows it is needed), and rest on `EntryInjective`: under
it, different base PURLs have different entries. `StableAnswers` needs no such
hypothesis: a complete map never changes, and neither its deletion nor another
call's build touches it. `AnswersAreByEntry` says without the hypothesis what the
answers are: those by entry, so that shared entries (finding 1) are the only false
positives and there are no false negatives. Assumptions: requests are finite sets, `Rank` is an
injective order of the entries, the names of directories, calls and the packaged
map are different.

**FileCacheProofs.** `TypeCorrect`. `BackOff`: with `LastDelay` = 20 a call is
always at one of the seven points of `Schedule` (delay, requests, seconds slept)
while it asks; from the last one it gives up. `ForcedCallsAreFresh`: servers never
go back, and a forced call never reads the cache, so what it holds is not older
than the call, for any number of processes. `WholeCacheWhileApart` and
`WholeContentWhileApart` say what the cache needs, for any number of processes: that
no two calls for one URL are under way at once (`Apart`), and that no process is
killed while it writes to the cache (`WritesEnd`); finding 2 shows that it needs
that. They are temporal hypotheses about the schedule. The invariant adds that the
file being written is empty, so that the write leaves exactly the content, and that a
process past its request holds a version its server had; `StepOfOne` says that a step
of one process leaves what the others rely on. `WholeCache` and `WholeContent` are
their corollaries for one process that is not killed (`Alone`), which the run
`cache_alone` checks. `SavedContent` says for such a process that what
`fetch_and_save` returns is what it saved; its invariant `SaveInv` follows a call from
the answer to the file.

**FetchThirdpartyProofs.** `TypeCorrect`. `NothingStale` from `Fresh` and
`IndexGrows`: what a run without `--use-cached-index` knows of a page is nothing or
has all that the index had when the run began, whatever the cache holds. `FromFirst` and
`NoMixedVersions` from `Traced`: each file taken is on a page that was read, in
the version asked for, and no earlier repository's page has one that matches.
This is stable because a page, once read, is kept as it was (`Recorded`).
`DoneComplete` from `Accounted`: each requirement is still to do, obtained or
missing. `MissingIsMissing` is its counterpart: what is reported missing is on no page
of any repository, as the run read them, because a search that finds nothing consults
all (`AllConsulted`). Two theorems say when findings 3 and 4 do not occur:
`PinnedCommands`, when all specifiers and lines have exact versions
(`ExactSpecifiers`), and `SdistOnlyInEverySpelling`, when `--sdist-only` has each name
in every spelling (`EverySpelling`). Assumptions: normal forms are their own normal form, the repositories of
the list are distinct.

**AboutFilesProofs.** `TypeCorrect`, with `Working`: while a distribution is at work
there is one, and those it asks have its name. `CopyrightIsOwn` says that copyright
statements stay with their name, for any distributions, files and servers. It is
inductive with `Working`, because it speaks of the objects in memory too: they feed
each other and the files. It assumes of the world outside (`HolderAssumption`) that
archives, and ABOUT files with the distribution's own package URL, are about their
own name. `CuratedKept` says that the license expression and copyright that the first
run found in a distribution's own ABOUT file are never replaced by any run, but for one
that is killed while that very file is open. Two invariants lead there. Over one run,
`CuratedInv` has to account for the moment when the file is empty: from the loading of the file to its
writing, the object of `local_dist` has all that the file had; and an object that
was loaded earlier, as another version of some package, has nothing that contradicts
its own file, since `update` keeps what is there. Over all runs, `FoundInv` says that what the current
run found has all that the first one found, and that the file is whole at every moment
but its own writing (`Writing`), so that every other kill finds it there; with the
transitivity of `Keeps`, a new run starts from there. `FirstIsIn` (every set of
distributions has a first one) rests on the well-foundedness of `<` on the naturals.

**AboutFilesRunProofs.** What a run leaves when it ends, whatever killed runs left
before. `RunInv` follows a distribution through both phases: the object that its files
are written from has the checksum of the archive since it was loaded (`ObjectInv`, no
other source can give another one); one that is through has a whole ABOUT file of its
own, the notice that it names, and its license files accounted for (`FilesInv`), until
the second phase rewrites them from a new object that says the same (`CleanInv`). From
it follow `OnlyMetadataReported`, `NoticesExist` and, with an invariant that an empty
license file is being written or was left so by a kill (`EmptyIsTorn`),
`LicensesThereOrReported`.
`CompleteStays` compares two runs. Its invariant says that what is in memory of a
distribution with key metadata is what its ABOUT file says (`Stays`); it starts from
what `RunInv` gives at the end of the completed run, such as that the notice is there
to be read again, and rests on `LoadSame`: loading the same file twice adds nothing.
`EarlierDistsAreAsked` says what is left of the promise that finding 5 breaks: a
distribution without an ABOUT file gets the license of the other one of its package,
if that one comes first in the loop.

**PackagesProofs.** The operators of `Tags` and `Packages`, for any values. Their
recursion is over data, and the induction theorems of the library are out of reach, so
these proofs take a least counterexample instead (`LeastOfNaturals`, from the
well-foundedness of `<`): so the recursive function of `ExpandAllowedPlatforms` has a
solution (`SeenExists`), and a finite set of files has a first and a last one.
`TagsAreExact`: the tags that are listed are those that fit the environment, by a
definition that has no order and no recursion. `OnePackagePerVersion` and
`NoDistributionIsDropped`: grouping by name and meaning of the version is a partition,
although each group is known by the text of its first file. Assumption:
`SkippingAssumption` (section 2).

**SimpleIndexProofs.** The invariant has seven parts: what is linked has a name
(`OnlyNamed`), the tree belongs to the build at work (`Owner`, `OneBuild`), what was read
so far is what the directory held (`GatheredAgrees`), pages have the files of their
package (`PagesAgree`), the pages are written in order (`InOrder`), and what was read is finite
(`FiniteEntries`). The properties
alone are not inductive: that a page is complete depends on what was gathered long
before it was written, and on the files that changed since (`touched`), for which
nothing is claimed. `PagesHaveTheirOwn` rests on the agreement of the two functions
that take a name from a filename, the generator's `PackageName` and the readers'
`NameOf`. `KeptWheelsAreServed` and `LatestVersionIsServed` join the invariant with the
theorems of `PackagesProofs`: from the directory by a whole page to the wheels that an
environment gets. `FinishedIndexIsWhole` says what a build that ends leaves, with two
invariants of its own: what was read is linked (`ReadIsLinked`), and at the end all of
it is listed (`Finished`). Assumption: filenames have an order, and are sequences of
parts.

**RequirementsFilesProofs.** The invariant says that one version of a package is
installed, as `pip` sees names (`OneVersionOf`), and follows the development command:
the names it holds are those of the main file unless that changed since
(`NamesAreOfMain`), its text is made from them and from what `pip freeze` printed
(`TextIsOfFreeze`), in which no line is refused (`NothingRefused`), and the file is the
old one until it is opened, then empty, then has that text (`FileFollows`). Then
`MainIsExcluded`, `SiteIsPinned` and `FailureKeepsDev` are facts about sets.
`SiteIsPinned` has two halves: the pinned lines are all there (`RestOfLines`), and what
is lost are exactly the ignored ones that are not in the main file (`OthersAreIgnored`).
`FailureKeepsDev` is about failures before the file is opened; a write that fails
leaves it empty (`KillDev`).
Assumption: names that agree in lower case are one name to `pip`.

**Only model-checked**: the liveness properties `BuildsEnd`, `CallsEnd` and `RunsEnd`,
since TLAPS has no support for fairness and `ENABLED`. Every invariant and every action
property of a passing run is stated by a theorem, two of them under a hypothesis on
names (`ExactAnswers`, `ImplementsCatalog`), those of `FileCache` about whole content
under one on the schedule (`SavedIsReturned`: `Alone`), and `BacksOff` for the `LastDelay`
of the code.

## 5. What is not modelled, and the plan

Not modelled for good: the benchmarks (their results are durations), `configure`,
`Makefile`, CI and docs (sequences of external commands), `update_skeleton` and
`download_wheels_with_pip` (wrappers of git and pip), `check_thirdparty` (reads and
prints). `PROJECT.json` gives the reason for each.

The DejaCode client is left out because it has no behaviour: every path to a
request calls `identifiers()` or `purl_identifiers()` of a distribution, which no class
defines, and ends with an `AttributeError`; no script imports the module.
`utils_pypi_supported_tags.py` is used by its own tests only. Of the links page,
`LinksRepository`, the model has what one run reads; the list that is shared between
instances (`utils_thirdparty.py:1738`) never matters there, since the scripts read
one page. What the archives hold, and what scancode says of licenses, are inputs.

What is left to do:

1. `FetchThirdparty` over `SimpleIndex`, with an index that is rebuilt while it is read;
2. `FetchThirdparty` over `FileCache`, with downloaded files that are never fetched
   again.
