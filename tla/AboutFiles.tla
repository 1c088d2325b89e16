------------------------------- MODULE AboutFiles -------------------------------
(***************************************************************************)
(* The end of fetch_thirdparty: fetch_abouts_and_licenses,                 *)
(* clean_about_files and find_problems of                                  *)
(* etc/scripts/utils_thirdparty.py over the distributions of a directory,  *)
(* with the ABOUT, NOTICE and LICENSE files they read and write.           *)
(*                                                                         *)
(* A distribution without its key metadata gets them, in this order, from  *)
(* its own ABOUT file, the other distributions of its package, the latest  *)
(* other version in the directory, its ABOUT file on the server, the       *)
(* latest other version on the server, and its archive.                    *)
(*                                                                         *)
(* A file is Absent, Empty (opened for writing, and the script was killed  *)
(* before the text was flushed), or has its content.  "" is a field        *)
(* without a value.  FileCache models the requests: here each one gets     *)
(* its content or does not.                                                *)
(***************************************************************************)
EXTENDS Integers, Sequences, FiniteSets

CONSTANTS
  Local,           \* the distributions in the directory
  Hosted,          \* those of the self-hosted repository
  Rank,            \* their order: by name and version, and in a package the sdist
                   \* before the wheels
  RawName,         \* of each distribution: the name in its filename
  Version,         \* of each distribution: its version
  Normalize,       \* NameVer.normalize_name
  License,         \* the license expressions
  LicenseKeys,     \* get_license_keys: the keys of each license expression
  LicenseFile,     \* the names of license files, key.LICENSE for each key
  Copyright,       \* the copyright statements
  Holder,          \* of each statement: the normalized name it is about
  NoticeText,
  InitialAbouts,   \* the ABOUT files that may be found at first
  InitialNotice,   \* the NOTICE files found at first
  RemoteAbout,     \* the ABOUT files on the server
  RemoteNotice,    \* the NOTICE files on the server, or ""
  PkgInfo,         \* what the archives say of themselves
  Page,            \* the links of the page at ABOUT_BASE_URL
  Absent, Empty,
  Rebuilt,         \* bound: the archives that may be replaced
  MaxArchive,      \* bound: how often one is
  MaxRuns          \* bound: how often the script is run

Dist == Local \cup Hosted
Name == {Normalize[RawName[d]] : d \in Dist}

Extra == [license_file : LicenseFile \cup {""}, classifiers : BOOLEAN,
          declared_license : BOOLEAN]

\* The fields of a Distribution that the cascade fills.
Data == [license_expression : License \cup {""}, copyright : Copyright \cup {""},
         notice_text : NoticeText \cup {""}, licenses : SUBSET LicenseFile,
         extra_data : Extra, md5 : 0..MaxArchive]

\* An ABOUT file: package_url is TRUE when it is the one of the distribution that the
\* file is named after.
About == [package_url : BOOLEAN, license_expression : License \cup {""},
          copyright : Copyright \cup {""}, notice_file : BOOLEAN,
          licenses : SUBSET LicenseFile, extra_data : Extra, md5 : 0..MaxArchive,
          download_url : BOOLEAN]

ArchiveInfo == [license_expression : License \cup {""}, copyright : Copyright,
                classifiers : BOOLEAN]

\* A link of the page: with a scheme, or an absolute or a relative path.
Link == [scheme : BOOLEAN, rooted : BOOLEAN, file : LicenseFile]
Url == [prefix : {"", "base_url", "links_url"}, link : Link]

ASSUME FilesAssumption ==
  /\ Local # {} /\ Local \cap Hosted = {} /\ Local \cap LicenseFile = {}
  /\ Rank \in [Dist -> Nat] /\ \A d, e \in Dist : Rank[d] = Rank[e] => d = e
  /\ Absent \notin About /\ Empty \notin About /\ Absent # Empty
  /\ Absent \notin NoticeText /\ Empty \notin NoticeText /\ "" \notin NoticeText
  /\ Absent \notin ArchiveInfo /\ Absent \notin Seq(Url)
  /\ {Absent, Empty} \cap {"links", "licensedb"} = {}

ASSUME DataAssumption ==
  /\ Version \in [Dist -> Nat]
  /\ LicenseKeys \in [License \cup {""} -> SUBSET LicenseFile]
  /\ Page \in Seq(Link) /\ \A k \in DOMAIN Page : Page[k].scheme => Page[k].rooted
  /\ Rebuilt \subseteq Local /\ MaxArchive \in Nat \ {0} /\ MaxRuns \in Nat
  /\ InitialAbouts \subseteq [Local -> About \cup {Absent}]
  /\ InitialNotice \in [Local -> NoticeText \cup {Absent}]
  /\ RemoteAbout \in [Dist -> About \cup {Absent}]
  /\ RemoteNotice \in [Dist -> NoticeText \cup {""}]
  /\ PkgInfo \in [Local -> ArchiveInfo \cup {Absent}]

\* ABOUT files and archives that are the distribution's own are about its own name.
IsOwn(d, statement) == statement # "" => Holder[statement] = Normalize[RawName[d]]
ASSUME HolderAssumption ==
  /\ \A a \in InitialAbouts, d \in Local :
       a[d] # Absent /\ a[d].package_url => IsOwn(d, a[d].copyright)
  /\ \A d \in Dist :
       RemoteAbout[d] # Absent /\ RemoteAbout[d].package_url => IsOwn(d, RemoteAbout[d].copyright)
  /\ \A d \in Local : PkgInfo[d] # Absent => IsOwn(d, PkgInfo[d].copyright)

VARIABLES
  archive,   \* of each distribution: the content of its archive
  about,     \* of each distribution: its ABOUT file
  notice,    \* of each distribution: its NOTICE file
  license,   \* of each license file: where its content is from
  pc,        \* the statement the script is at
  run,       \* the number of the current run
  phase,     \* "fetch" in fetch_abouts_and_licenses, "clean" in clean_about_files
  todo,      \* the distributions that the phase has not finished, local_dist first
  obj,       \* of each distribution: the fields of its object in memory
  others,    \* the distributions that local_dist has yet to ask
  readable,  \* the names whose index pages the current run can read
  links,     \* LinksRepository.links, Absent until they are read
  names,     \* the license files that fetch_license_files has yet to look for
  file,      \* the license file it writes, and from where
  errors,    \* the license files without a text
  problems,  \* what find_problems prints
  before,    \* history: the ABOUT files when the run started
  settled,   \* history: they are those that a completed run left
  found,     \* history: the ABOUT files when the first run started
  torn       \* history: the distributions whose ABOUT file, and the license files,
             \* that a kill left empty

disk == <<archive, about, notice, license>>
memory == <<obj, others, readable, links, names, file, errors>>
history == <<before, settled, found, torn>>
vars == <<disk, pc, run, phase, todo, memory, problems, history>>

NoExtra == [license_file |-> "", classifiers |-> FALSE, declared_license |-> FALSE]
NoData == [license_expression |-> "", copyright |-> "", notice_text |-> "",
           licenses |-> {}, extra_data |-> NoExtra, md5 |-> 0]
NoFile == [name |-> "", source |-> "links"]

Init ==
  /\ archive = [d \in Local |-> 1]
  /\ about \in InitialAbouts
  /\ notice = InitialNotice
  /\ license = [f \in LicenseFile |-> Absent]
  /\ pc = "ended" /\ run = 0 /\ phase = "fetch" /\ todo = {}
  /\ obj = [d \in Dist |-> NoData] /\ others = {}
  /\ readable = {} /\ links = Absent /\ names = {} /\ file = NoFile
  /\ errors = {} /\ problems = {}
  /\ before = about /\ settled = FALSE /\ found = about /\ torn = {}

--------------------------------------------------------------------------------
(* Distribution: what it knows, and what it takes over.                          *)

\* The first one in the order of the loops.
First(S) == CHOOSE d \in S : \A e \in S : Rank[d] <= Rank[e]

local_dist == First(todo)
NameOf(d) == Normalize[RawName[d]]

has_key_metadata(o) ==
  \/ o.license_expression = "public-domain"
  \/ o.license_expression # "" /\ o.copyright # ""

\* Mutant: what is already known is overwritten.
LastOf(value, v) == IF v = "" THEN value ELSE v

\* update: a field that has a value keeps it.
ValueOr(value, v) == IF value = "" THEN v ELSE value

\* update: unknown fields are always overwritten.
MergeExtra(extra, more) ==
  [license_file |-> ValueOr(more.license_file, extra.license_file),
   classifiers |-> extra.classifiers \/ more.classifiers,
   declared_license |-> extra.declared_license \/ more.declared_license]

\* update, from an ABOUT mapping or a PKG-INFO.  licenses is a field.
update(o, data) ==
  [license_expression |-> ValueOr(o.license_expression, data.license_expression),
   copyright |-> ValueOr(o.copyright, data.copyright),
   notice_text |-> ValueOr(o.notice_text, data.notice_text),
   licenses |-> IF o.licenses = {} THEN data.licenses ELSE o.licenses,
   extra_data |-> MergeExtra(o.extra_data, data.extra_data),
   md5 |-> IF o.md5 = 0 THEN data.md5 ELSE o.md5]

\* update_from_other_dist: the updatable_fields; extra_data is one of them.
update_from_other_dist(o, other) ==
  [o EXCEPT
     !.license_expression = ValueOr(@, other.license_expression),
     !.copyright = ValueOr(@, other.copyright),
     !.notice_text = ValueOr(@, other.notice_text),
     !.extra_data = IF @ = NoExtra THEN other.extra_data ELSE @]

\* The fields of ABOUT file a, whose notice has this text.
Fields(a, text) ==
  [license_expression |-> a.license_expression, copyright |-> a.copyright,
   notice_text |-> text, licenses |-> a.licenses, extra_data |-> a.extra_data,
   md5 |-> a.md5]

\* Mutant: the package_url is not compared.
AboutOfAnyone(o, a, text) == IF a \in {Absent, Empty} THEN o ELSE update(o, Fields(a, text))

\* load_about_data of a mapping, and update's test of its package_url.
WithAbout(o, a, text) ==
  IF a \in {Absent, Empty} \/ ~ a.package_url THEN o ELSE update(o, Fields(a, text))

\* Mutant: the notice_file is not looked for.
NoNotice(d) == ""

\* load_about_data: the text of the notice_file of an ABOUT file.
NoticeTextOf(d) ==
  IF about[d] \in {Absent, Empty} \/ notice[d] \in {Absent, Empty} THEN ""
  ELSE IF about[d].notice_file THEN notice[d] ELSE ""

load_about_data(o, d) == WithAbout(o, about[d], NoticeTextOf(d))

\* load_remote_about_data, when these files can be fetched.
load_remote_about_data(o, d, aboutFetched, noticeFetched) ==
  IF ~ aboutFetched \/ RemoteAbout[d] = Absent THEN o
  ELSE WithAbout(o, RemoteAbout[d],
                 IF noticeFetched /\ RemoteAbout[d].notice_file THEN RemoteNotice[d] ELSE "")

\* load_pkginfo_data, when there is one in the archive.
load_pkginfo_data(o, d) ==
  IF PkgInfo[d] = Absent THEN o
  ELSE update(o, [license_expression |-> PkgInfo[d].license_expression,
                  copyright |-> PkgInfo[d].copyright, notice_text |-> "",
                  licenses |-> {}, md5 |-> 0,
                  extra_data |-> [license_file |-> "", declared_license |-> TRUE,
                                  classifiers |-> PkgInfo[d].classifiers]])

\* Mutant: update is called without overwrite.
ChecksumIfNone(o, d) == [o EXCEPT !.md5 = IF @ = 0 THEN archive[d] ELSE @]

set_checksums(o, d) == [o EXCEPT !.md5 = archive[d]]

\* Mutant: a notice_file without a notice_text.
AboutWithNotice(o, d) ==
  [package_url |-> TRUE, license_expression |-> o.license_expression,
   copyright |-> o.copyright, notice_file |-> TRUE, licenses |-> {},
   extra_data |-> o.extra_data, md5 |-> o.md5, download_url |-> NameOf(d) \in readable]

\* to_about: licenses is not one of the fields it takes; the download_url is the one of
\* an index page, or None (get_best_download_url).
to_about(o, d) ==
  [package_url |-> TRUE, license_expression |-> o.license_expression,
   copyright |-> o.copyright, notice_file |-> o.notice_text # "", licenses |-> {},
   extra_data |-> o.extra_data, md5 |-> o.md5, download_url |-> NameOf(d) \in readable]

--------------------------------------------------------------------------------
(* Packages.                                                                     *)

DistsOf(S, n, v) == {d \in S : NameOf(d) = n /\ Version[d] = v}

\* get_other_dists
OtherDists(d) == DistsOf(Local, NameOf(d), Version[d]) \ {d}

\* packages_by_name[n]: filed under the name of the first distribution of each package.
VersionsByName(n) ==
  {Version[d] : d \in {e \in Local :
     RawName[First(DistsOf(Local, NameOf(e), Version[e]))] = n}}

HostedVersions(n) == {Version[d] : d \in {e \in Hosted : NameOf(e) = n}}

\* The distributions in S of the latest of these versions that is not d's.
LatestOther(S, versions, d) ==
  {e \in S : /\ NameOf(e) = NameOf(d) /\ Version[e] \in versions \ {Version[d]}
             /\ \A v \in versions \ {Version[d]} : v <= Version[e]}

--------------------------------------------------------------------------------
(* The cascade of fetch_abouts_and_licenses.                                     *)

\* The end of the process, whose memory is gone; what it printed is not.
ExitProcess ==
  /\ phase' = "fetch" /\ todo' = {} /\ readable' = {}
  /\ obj' = [d \in Dist |-> NoData] /\ others' = {}
  /\ links' = Absent /\ names' = {} /\ file' = NoFile
  /\ UNCHANGED errors

Start ==
  /\ pc \in {"ended", "done"} /\ run < MaxRuns
  /\ readable' \in SUBSET Name
  /\ pc' = "load" /\ run' = run + 1 /\ phase' = "fetch" /\ todo' = Local
  /\ obj' = [d \in Dist |-> NoData] /\ others' = {}
  /\ links' = Absent /\ names' = {} /\ file' = NoFile
  /\ errors' = {} /\ problems' = {}
  /\ before' = about /\ settled' = (pc = "done")
  /\ UNCHANGED <<disk, found, torn>>

\* The object of distribution d becomes o.
Becomes(d, o) == obj' = [obj EXCEPT ![d] = o]

cascadeVars ==
  <<disk, run, phase, todo, readable, links, names, file, errors, problems, history>>

\* The local ABOUT file and the checksums of the archive.
LoadAbout ==
  /\ pc = "load" /\ phase = "fetch"
  /\ LET o == set_checksums(load_about_data(obj[local_dist], local_dist), local_dist)
     IN  /\ Becomes(local_dist, o)
         /\ IF has_key_metadata(o)
            THEN pc' = "save" /\ others' = {}
            ELSE pc' = "sibling" /\ others' = OtherDists(local_dist)
  /\ UNCHANGED cascadeVars

\* After local_dist became o in a loop over others: save it, or ask the next one.
SaveOrAskNext(o) ==
  IF has_key_metadata(o) THEN pc' = "save" /\ others' = {}
  ELSE others' = others \ {First(others)} /\ UNCHANGED pc

\* Another distribution of the package gives what it has in memory.
AskOtherDist ==
  /\ pc = "sibling" /\ others # {}
  /\ LET o == update_from_other_dist(obj[local_dist], obj[First(others)])
     IN  Becomes(local_dist, o) /\ SaveOrAskNext(o)
  /\ UNCHANGED cascadeVars

NoOtherDist ==
  /\ pc = "sibling" /\ others = {}
  /\ pc' = "version"
  /\ others' = LatestOther(Local, VersionsByName(NameOf(local_dist)), local_dist)
  /\ UNCHANGED <<obj, cascadeVars>>

\* x, a distribution of another version, has become y: it gives if it has key metadata.
TakeFrom(x, y) ==
  LET o == IF has_key_metadata(y) THEN update_from_other_dist(obj[local_dist], y)
           ELSE obj[local_dist]
  IN  /\ obj' = [obj EXCEPT ![x] = y, ![local_dist] = o]
      /\ SaveOrAskNext(o)

AskOtherVersion ==
  /\ pc = "version" /\ others # {}
  /\ TakeFrom(First(others), load_about_data(obj[First(others)], First(others)))
  /\ UNCHANGED cascadeVars

NoOtherVersion ==
  /\ pc = "version" /\ others = {}
  /\ pc' = "remote"
  /\ UNCHANGED <<obj, others, cascadeVars>>

\* The ABOUT and NOTICE files of local_dist on the server.
AskServer ==
  /\ pc = "remote"
  /\ \E aboutFetched, noticeFetched \in BOOLEAN :
       LET o == load_remote_about_data(obj[local_dist], local_dist,
                                       aboutFetched, noticeFetched)
       IN  /\ Becomes(local_dist, o)
           /\ IF has_key_metadata(o)
              THEN pc' = "save" /\ others' = {}
              ELSE /\ pc' = "hosted"
                   /\ others' = IF NameOf(local_dist) \notin readable THEN {}
                                ELSE LatestOther(Hosted, HostedVersions(NameOf(local_dist)),
                                                 local_dist)
  /\ UNCHANGED cascadeVars

AskHostedVersion ==
  /\ pc = "hosted" /\ others # {}
  /\ \E aboutFetched, noticeFetched \in BOOLEAN :
       TakeFrom(First(others), load_remote_about_data(obj[First(others)], First(others),
                                                     aboutFetched, noticeFetched))
  /\ UNCHANGED cascadeVars

\* The last resort, saved with or without key metadata.
ReadPkginfo ==
  /\ pc = "hosted" /\ others = {}
  /\ Becomes(local_dist, load_pkginfo_data(obj[local_dist], local_dist))
  /\ pc' = "save"
  /\ UNCHANGED <<others, cascadeVars>>

--------------------------------------------------------------------------------
(* save_about_and_notice_files, of both phases.                                  *)

\* local_dist is finished: the next one, the next phase, or the report.
NextDist ==
  LET rest == todo \ {local_dist}
  IN  \/ /\ rest # {}
         /\ todo' = rest /\ pc' = "load" /\ UNCHANGED <<phase, obj>>
      \/ /\ rest = {} /\ phase = "fetch"
         /\ phase' = "clean" /\ todo' = Local /\ pc' = "load"
         /\ obj' = [d \in Dist |-> NoData]
      \/ /\ rest = {} /\ phase = "clean"
         /\ todo' = {} /\ pc' = "report" /\ UNCHANGED <<phase, obj>>

AfterSave ==
  IF phase = "fetch" THEN pc' = "links" /\ UNCHANGED <<todo, phase, obj>> ELSE NextDist

saveVars == <<archive, license, run, others, readable, links, names, file, errors,
              problems, history>>

\* save_if_modified opens the file, which empties it, when its text differs.
SaveAbout ==
  /\ pc = "save"
  /\ IF about[local_dist] = to_about(obj[local_dist], local_dist)
     THEN pc' = "notice" /\ UNCHANGED about
     ELSE pc' = "write_about" /\ about' = [about EXCEPT ![local_dist] = Empty]
  /\ UNCHANGED <<notice, todo, phase, obj, saveVars>>

WriteAbout ==
  /\ pc = "write_about"
  /\ about' = [about EXCEPT ![local_dist] = to_about(obj[local_dist], local_dist)]
  /\ pc' = "notice"
  /\ UNCHANGED <<notice, todo, phase, obj, saveVars>>

SaveNotice ==
  /\ pc = "notice"
  /\ IF obj[local_dist].notice_text \in {"", notice[local_dist]}
     THEN AfterSave /\ UNCHANGED notice
     ELSE /\ pc' = "write_notice" /\ notice' = [notice EXCEPT ![local_dist] = Empty]
          /\ UNCHANGED <<todo, phase, obj>>
  /\ UNCHANGED <<about, saveVars>>

WriteNotice ==
  /\ pc = "write_notice"
  /\ notice' = [notice EXCEPT ![local_dist] = obj[local_dist].notice_text]
  /\ AfterSave
  /\ UNCHANGED <<about, saveVars>>

--------------------------------------------------------------------------------
(* fetch_license_files and LinksRepository.                                      *)

\* find_links: a link with a scheme has an absolute path too, which is tested next.
LinkUrl(l) ==
  [prefix |-> IF l.rooted THEN "base_url" ELSE "links_url", link |-> l]

find_links == [k \in DOMAIN Page |-> LinkUrl(Page[k])]

\* What is at a URL that find_links made: with a scheme, only the link itself is one.
IsAddress(url) == (url.prefix = "") <=> url.link.scheme

\* get_license_link_for_filename: exactly one link to the file.
LinksTo(f) == {k \in DOMAIN links : links[k].link.file = f}

\* The license files that o asks for: its license keys', and the license_file.
LicenseNames(o) ==
  LicenseKeys[o.license_expression] \cup ({o.extra_data.license_file} \ {""})

licenseVars == <<archive, about, notice, run, others, readable, problems, history>>

\* LinksRepository.from_url: the page is read once in a run.
ReadLinks ==
  /\ pc = "links"
  /\ links' = IF links = Absent THEN find_links ELSE links
  /\ names' = LicenseNames(obj[local_dist])
  /\ pc' = "license"
  /\ UNCHANGED <<license, todo, phase, obj, file, errors, licenseVars>>

\* The page cannot be fetched: nothing catches the exception.
LinksFail ==
  /\ pc = "links" /\ links = Absent
  /\ pc' = "ended" /\ ExitProcess
  /\ UNCHANGED <<disk, run, problems, history>>

SkipLicense(f) ==
  /\ pc = "license" /\ f \in names /\ license[f] # Absent
  /\ names' = names \ {f}
  /\ UNCHANGED <<license, pc, todo, phase, obj, links, file, errors, licenseVars>>

\* fetch_and_save has the content and opens the file.
OpenLicense(f, source) ==
  /\ pc = "license" /\ f \in names /\ license[f] = Absent
  /\ source = "links" => \E k \in LinksTo(f) : LinksTo(f) = {k} /\ IsAddress(links[k])
  /\ license' = [license EXCEPT ![f] = Empty]
  /\ names' = names \ {f} /\ file' = [name |-> f, source |-> source]
  /\ pc' = "write_license"
  /\ UNCHANGED <<todo, phase, obj, links, errors, licenseVars>>

WriteLicense ==
  /\ pc = "write_license"
  /\ license' = [license EXCEPT ![file.name] = file.source]
  /\ pc' = "license"
  /\ UNCHANGED <<todo, phase, obj, links, names, file, errors, licenseVars>>

\* Mutant: the error is not kept.
LicenseForgotten(f) ==
  /\ pc = "license" /\ f \in names /\ license[f] = Absent
  /\ names' = names \ {f} /\ UNCHANGED errors
  /\ UNCHANGED <<license, pc, todo, phase, obj, links, file, licenseVars>>

\* Neither the links page nor licensedb has it.
LicenseFails(f) ==
  /\ pc = "license" /\ f \in names /\ license[f] = Absent
  /\ names' = names \ {f} /\ errors' = errors \cup {f}
  /\ UNCHANGED <<license, pc, todo, phase, obj, links, file, licenseVars>>

LicensesFetched ==
  /\ pc = "license" /\ names = {}
  /\ NextDist
  /\ UNCHANGED <<license, links, names, file, errors, licenseVars>>

--------------------------------------------------------------------------------
(* clean_about_files, find_problems, and what happens besides.                   *)

\* Only an ABOUT file with classifiers is saved again.
CleanAbout ==
  /\ pc = "load" /\ phase = "clean"
  /\ LET o == set_checksums(load_about_data(obj[local_dist], local_dist), local_dist)
     IN  IF o.extra_data.classifiers
         THEN /\ Becomes(local_dist, [o EXCEPT !.extra_data.classifiers = FALSE])
              /\ pc' = "save" /\ UNCHANGED <<todo, phase>>
         ELSE NextDist
  /\ UNCHANGED <<disk, run, others, readable, links, names, file, errors, problems,
                 history>>

\* Every distribution is loaded anew from its ABOUT file.
find_problems ==
  LET Loaded(d) == load_about_data(NoData, d)
  IN  {<<d, "key metadata">> : d \in {e \in Local : ~ has_key_metadata(Loaded(e))}} \cup
      {<<d, "classifiers">> : d \in {e \in Local : Loaded(e).extra_data.classifiers}} \cup
      {<<d, "checksums">> : d \in {e \in Local : Loaded(e).md5 \notin {0, archive[e]}}}

Report ==
  /\ pc = "report"
  /\ pc' = "done" /\ problems' = find_problems /\ ExitProcess
  /\ UNCHANGED <<disk, run, history>>

\* The ABOUT or license file that is open, and empty, at this moment.
OpenFile ==
  (IF pc = "write_about" THEN {local_dist} ELSE {}) \cup
  (IF pc = "write_license" THEN {file.name} ELSE {})

\* The script is killed, or an exception ends it: an archive that cannot be unpacked,
\* a server that cannot be connected to, a file that cannot be opened or written.
Kill ==
  /\ pc \notin {"ended", "done"}
  /\ pc' = "ended" /\ ExitProcess
  /\ torn' = torn \cup OpenFile
  /\ UNCHANGED <<disk, run, problems, before, settled, found>>

\* Mutant: one replacement too many.
ReplaceMore(d) ==
  /\ pc \in {"ended", "done"} /\ archive[d] <= MaxArchive
  /\ archive' = [archive EXCEPT ![d] = @ + 1]
  /\ UNCHANGED <<about, notice, license, pc, run, phase, todo, memory, problems, history>>

\* Between two runs an archive is replaced: it is downloaded again, or rebuilt.
Replace(d) ==
  /\ pc \in {"ended", "done"} /\ archive[d] < MaxArchive
  /\ archive' = [archive EXCEPT ![d] = @ + 1]
  /\ UNCHANGED <<about, notice, license, pc, run, phase, todo, memory, problems, history>>

Cascade ==
  \/ LoadAbout \/ AskOtherDist \/ NoOtherDist \/ AskOtherVersion \/ NoOtherVersion
  \/ AskServer \/ AskHostedVersion \/ ReadPkginfo

Save == SaveAbout \/ WriteAbout \/ SaveNotice \/ WriteNotice

FetchLicenses ==
  \/ ReadLinks \/ LinksFail \/ WriteLicense \/ LicensesFetched
  \/ \E f \in LicenseFile :
       SkipLicense(f) \/ LicenseFails(f) \/ \E s \in {"links", "licensedb"} : OpenLicense(f, s)

Next ==
  \/ Start \/ Cascade \/ Save \/ FetchLicenses \/ CleanAbout \/ Report \/ Kill
  \/ \E d \in Rebuilt : Replace(d)

Spec == Init /\ [][Next]_vars

--------------------------------------------------------------------------------
(* Properties.                                                                   *)

\* Every variable has its type: a typing of the files and of the script's memory.
TypeOK ==
  /\ archive \in [Local -> 1..MaxArchive]
  /\ about \in [Local -> About \cup {Absent, Empty}]
  /\ notice \in [Local -> NoticeText \cup {Absent, Empty}]
  /\ license \in [LicenseFile -> {Absent, Empty, "links", "licensedb"}]
  /\ pc \in {"ended", "load", "sibling", "version", "remote", "hosted", "save",
             "write_about", "notice", "write_notice", "links", "license",
             "write_license", "report", "done"}
  /\ run \in 0..MaxRuns /\ phase \in {"fetch", "clean"} /\ todo \subseteq Local
  /\ obj \in [Dist -> Data]
  /\ others \subseteq Dist
  /\ readable \subseteq Name
  /\ links = Absent \/ links = find_links
  /\ names \subseteq LicenseFile /\ errors \subseteq LicenseFile
  /\ file \in [name : LicenseFile \cup {""}, source : {"links", "licensedb"}]
  /\ problems \subseteq Local \X {"key metadata", "classifiers", "checksums"}
  /\ before \in [Local -> About \cup {Absent, Empty}] /\ settled \in BOOLEAN
  /\ found \in [Local -> About \cup {Absent}] /\ torn \subseteq Local \cup LicenseFile

IsWhole(d) == about[d] \notin {Absent, Empty}
WasWhole(d) == before[d] \notin {Absent, Empty}

\* What a run that ends reports is at most that key metadata are missing: whatever
\* earlier runs left when they were killed, and whichever archives were replaced, the
\* checksums are those of the archives and no classifiers are left.
OnlyKeyMetadataMissing ==
  pc = "done" => \A p \in problems : p[2] = "key metadata"

\* The license expression and the copyright statement that the first run found in an
\* ABOUT file of the distribution are never replaced by this run or a later one, whatever
\* the other distributions, the server and the archive say, except in one case: a kill
\* between the opening and the writing of that very file, which leaves it empty.  The
\* next run then fills it from the other sources.  No other kill loses anything.
CuratedDataIsKept ==
  \A d \in Local \ torn :
    found[d] # Absent /\ found[d].package_url /\ d \notin OpenFile =>
      /\ IsWhole(d)
      /\ found[d].license_expression \in {"", about[d].license_expression}
      /\ found[d].copyright \in {"", about[d].copyright}

\* An ABOUT file with key metadata that a completed run left is rewritten by the next
\* run at most with another checksum or download URL, unless that run is killed while
\* the file is open: nothing is said of one that is empty.
CompleteStaysAsItIs ==
  settled => \A d \in Local :
    IsWhole(d) /\ has_key_metadata(before[d]) =>
      about[d] = [before[d] EXCEPT !.md5 = about[d].md5,
                                   !.download_url = about[d].download_url]

\* After a run that ends, the NOTICE file that an ABOUT file names is there and whole,
\* although the ABOUT file is written first and the script may have been killed between
\* the two, or in the middle of one, before.
NoticeFileExists ==
  pc = "done" => \A d \in Local :
    about[d].notice_file => notice[d] \notin {Absent, Empty}

\* After a run that ends, each license file that an ABOUT file asks for by its license
\* expression or license_file is there with its text, or its absence was reported, or a
\* kill left it empty while it was written: runs take an empty file for present and
\* repair it no more.
LicensesAccounted ==
  pc = "done" => \A d \in Local : \A f \in LicenseNames(about[d]) :
    license[f] \notin {Absent, Empty} \/ f \in errors \/ f \in torn

\* The copyright statement of a package, in its ABOUT files and in memory, is never one
\* of a package of another name, though ABOUT files of others lie under its filenames.
OwnCopyright ==
  /\ \A d \in Local : IsWhole(d) /\ about[d].package_url => IsOwn(d, about[d].copyright)
  /\ \A d \in Dist : IsOwn(d, obj[d].copyright)

\* "lets try to get from another dist of the same local package": a distribution that
\* had no ABOUT file has the license of the one of its package that had key metadata.
OtherDistIsAsked ==
  pc = "done" => \A d, e \in Local :
    (/\ before[d] = Absent /\ OtherDists(d) = {e}
     /\ WasWhole(e) /\ before[e].package_url /\ has_key_metadata(before[e])) =>
      about[d].license_expression = before[e].license_expression
================================================================================
