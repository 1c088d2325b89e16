--------------------------- MODULE AboutFilesRunProofs ---------------------------
(***************************************************************************)
(* What a run of AboutFiles leaves when it ends, whatever earlier runs left *)
(* when they were killed and whichever archives were replaced, for any     *)
(* distributions, ABOUT files, archives and servers.                       *)
(***************************************************************************)
EXTENDS AboutFilesProofs

USE DEF history

--------------------------------------------------------------------------------
(***************************************************************************)
(* What holds in the middle of a run                                       *)
(***************************************************************************)

\* Which statements belong to which phase.
Phases ==
  /\ pc \in {"ended", "done"} => phase = "fetch" /\ todo = {}
  /\ pc = "report" => phase = "clean" /\ todo = {}
  /\ pc \in {"sibling", "version", "remote", "hosted", "links", "license",
             "write_license"} => phase = "fetch"

\* The license files that o asks for are there, or were reported.
Accounted(o) == \A f \in LicenseNames(o) : license[f] # Absent \/ f \in errors

\* The files of a distribution that is through with fetch_abouts_and_licenses.
Fetched(d) ==
  /\ IsWhole(d) /\ about[d].package_url /\ about[d].licenses = {}
  /\ about[d].notice_file => notice[d] \notin {Absent, Empty}
  /\ Accounted(about[d])

\* It is, and clean_about_files is not rewriting its files.
Through(d) ==
  /\ pc # "ended"
  /\ phase = "fetch" => d \notin todo
  /\ phase = "clean" /\ pc \in {"write_about", "notice", "write_notice"} => d # local_dist

FilesInv ==
  \A d \in Local : Through(d) =>
    /\ Fetched(d)
    /\ pc # "done" => about[d].md5 = archive[d]

\* The object of local_dist, from which its files are written.
ObjectInv ==
  /\ pc \in AtDist \ {"load"} => obj[local_dist].md5 = archive[local_dist]
  /\ pc \in {"notice", "write_notice", "links", "license", "write_license"} =>
       about[local_dist] = to_about(obj[local_dist], local_dist)
  /\ pc \in {"links", "license", "write_license"} /\ obj[local_dist].notice_text # "" =>
       notice[local_dist] \notin {Absent, Empty}
  /\ pc \in {"license", "write_license"} =>
       \A f \in LicenseNames(obj[local_dist]) \ names : license[f] # Absent \/ f \in errors

\* clean_about_files starts from new objects and leaves no classifiers.
CleanInv ==
  /\ phase = "clean" =>
       \A d \in todo : d # local_dist \/ pc = "load" => obj[d] = NoData
  /\ phase = "clean" /\ pc \in {"save", "write_about", "notice", "write_notice"} =>
       Accounted(obj[local_dist]) /\ ~ obj[local_dist].extra_data.classifiers
  /\ phase = "clean" \/ pc = "done" =>
       \A d \in Local \ todo : ~ about[d].extra_data.classifiers

RunInv == Phases /\ FilesInv /\ ObjectInv /\ CleanInv /\ OnlyKeyMetadataMissing

\* While it is at work, local_dist is there, and its object has its type.
LEMMA LocalDistAtWork ==
  ASSUME TypeOK, Working, pc \in AtDist
  PROVE  local_dist \in todo /\ local_dist \in Local /\ local_dist \in Dist
         /\ obj[local_dist] \in Data
BY LocalDistType DEF TypeOK, Dist

\* A checksum stays through everything that the cascade takes over.
LEMMA Md5Stays ==
  ASSUME NEW o \in Data, o.md5 # 0
  PROVE  /\ \A data : update(o, data).md5 = o.md5
         /\ \A data : update_from_other_dist(o, data).md5 = o.md5
         /\ \A d, x, y : load_remote_about_data(o, d, x, y).md5 = o.md5
         /\ \A d : load_pkginfo_data(o, d).md5 = o.md5
<1>1. \A data : update(o, data).md5 = o.md5
  BY DEF update
<1>2. \A data : update_from_other_dist(o, data).md5 = o.md5
  BY DEF update_from_other_dist, Data
<1>3. \A d, x, y : load_remote_about_data(o, d, x, y).md5 = o.md5
  <2>1. \A a, text : WithAbout(o, a, text).md5 = o.md5
    BY <1>1 DEF WithAbout
  <2> QED
    BY <2>1 DEF load_remote_about_data
<1>4. \A d : load_pkginfo_data(o, d).md5 = o.md5
  BY <1>1 DEF load_pkginfo_data
<1> QED
  BY <1>1, <1>2, <1>3, <1>4

LEMMA ChecksumSet ==
  ASSUME TypeOK, NEW d \in Local, NEW o \in Data
  PROVE  set_checksums(o, d).md5 = archive[d] /\ archive[d] # 0
<1>1. archive[d] \in 1..MaxArchive
  BY DEF TypeOK
<1>2. archive[d] # 0
  BY <1>1, BoundsType
<1>3. set_checksums(o, d).md5 = archive[d]
  BY DEF set_checksums, Data
<1> QED
  BY <1>2, <1>3

\* The cascade is of the first phase, and leaves the checksum of local_dist.
LEMMA CascadeMd5 ==
  ASSUME TypeOK, Working, Phases, ObjectInv, Cascade
  PROVE  obj'[local_dist].md5 = archive[local_dist]
<1>0. pc \in AtDist
  BY DEF AtDist, Cascade, LoadAbout, AskOtherDist, NoOtherDist, AskOtherVersion,
         NoOtherVersion, AskServer, AskHostedVersion, ReadPkginfo
<1>1. /\ local_dist \in Local /\ local_dist \in Dist /\ obj[local_dist] \in Data
      /\ obj \in [Dist -> Data]
  BY <1>0, LocalDistAtWork DEF TypeOK
<1>2. ASSUME pc # "load"
      PROVE  obj[local_dist].md5 = archive[local_dist] /\ obj[local_dist].md5 # 0
  BY <1>0, <1>1, <1>2, ChecksumSet DEF ObjectInv
<1>3. ASSUME NEW x, NEW y, TakeFrom(x, y), pc # "load"
      PROVE  obj'[local_dist].md5 = archive[local_dist]
  <2> DEFINE o == IF has_key_metadata(y) THEN update_from_other_dist(obj[local_dist], y)
                  ELSE obj[local_dist]
  <2>1. obj' = [obj EXCEPT ![x] = y, ![local_dist] = o]
    BY <1>3 DEF TakeFrom
  <2>2. obj'[local_dist] = o
    BY <1>1, <2>1
  <2> QED
    BY <1>1, <1>2, <1>3, <2>2, Md5Stays
<1>4. CASE LoadAbout
  <2>1. load_about_data(obj[local_dist], local_dist) \in Data
    BY <1>1, LoadType
  <2> QED
    BY <1>1, <1>4, <2>1, ChecksumSet DEF LoadAbout, Becomes
<1>5. CASE AskOtherDist
  BY <1>1, <1>2, <1>5, Md5Stays DEF AskOtherDist, Becomes
<1>6. CASE AskOtherVersion
  BY <1>3, <1>6 DEF AskOtherVersion
<1>7. CASE AskServer
  BY <1>1, <1>2, <1>7, Md5Stays DEF AskServer, Becomes
<1>8. CASE AskHostedVersion
  BY <1>3, <1>8 DEF AskHostedVersion
<1>9. CASE ReadPkginfo
  BY <1>1, <1>2, <1>9, Md5Stays DEF ReadPkginfo, Becomes
<1>10. CASE NoOtherDist \/ NoOtherVersion
  BY <1>2, <1>10 DEF NoOtherDist, NoOtherVersion
<1> QED
  BY <1>4, <1>5, <1>6, <1>7, <1>8, <1>9, <1>10 DEF Cascade

LEMMA CascadeRun ==
  ASSUME TypeOK, Working, RunInv, Cascade
  PROVE  RunInv'
<1>1. /\ phase = "fetch" /\ pc \notin {"ended", "done"}
      /\ pc' \in {"sibling", "version", "remote", "hosted", "save"}
  BY DEF Cascade, LoadAbout, AskOtherDist, NoOtherDist, AskOtherVersion, NoOtherVersion,
         AskServer, AskHostedVersion, ReadPkginfo, RunInv, Phases, TakeFrom, SaveOrAskNext
<1>2. UNCHANGED <<about, notice, license, archive, errors, phase, todo>>
  BY DEF Cascade, LoadAbout, AskOtherDist, NoOtherDist, AskOtherVersion, NoOtherVersion,
         AskServer, AskHostedVersion, ReadPkginfo, cascadeVars, disk
<1>3. obj'[local_dist].md5 = archive[local_dist]
  BY CascadeMd5 DEF RunInv
<1>4. FilesInv'
  BY <1>1, <1>2 DEF RunInv, FilesInv, Through, Fetched, IsWhole, Accounted
<1>5. ObjectInv'
  BY <1>1, <1>2, <1>3 DEF ObjectInv, local_dist
<1> QED
  BY <1>1, <1>2, <1>4, <1>5 DEF RunInv, Phases, CleanInv, OnlyKeyMetadataMissing

\* A written ABOUT file asks for the license files that its object asks for.
LEMMA Written ==
  ASSUME NEW d \in Local, NEW o \in Data
  PROVE  /\ to_about(o, d) \notin {Absent, Empty} /\ to_about(o, d).package_url
         /\ to_about(o, d).licenses = {}
         /\ to_about(o, d).notice_file => o.notice_text # ""
         /\ to_about(o, d).extra_data = o.extra_data /\ to_about(o, d).md5 = o.md5
         /\ LicenseNames(to_about(o, d)) = LicenseNames(o)
<1>1. to_about(o, d) \in About /\ to_about(o, d) \notin {Absent, Empty}
  BY ToAboutType, FilesAssumption
<1>2. /\ to_about(o, d).license_expression = o.license_expression
      /\ to_about(o, d).extra_data = o.extra_data
  BY DEF to_about
<1>3. LicenseNames(to_about(o, d)) = LicenseNames(o)
  BY <1>2 DEF LicenseNames
<1> QED
  BY <1>1, <1>2, <1>3 DEF to_about

LEMMA WrittenFile ==
  ASSUME NEW d \in Local, obj[d] \in Data, about[d] = to_about(obj[d], d)
  PROVE  /\ IsWhole(d) /\ about[d].package_url /\ about[d].licenses = {}
         /\ about[d].notice_file => obj[d].notice_text # ""
         /\ about[d].extra_data = obj[d].extra_data /\ about[d].md5 = obj[d].md5
         /\ LicenseNames(about[d]) = LicenseNames(obj[d])
<1>1. /\ to_about(obj[d], d) \notin {Absent, Empty} /\ to_about(obj[d], d).package_url
      /\ to_about(obj[d], d).licenses = {}
      /\ to_about(obj[d], d).notice_file => obj[d].notice_text # ""
      /\ to_about(obj[d], d).extra_data = obj[d].extra_data
      /\ to_about(obj[d], d).md5 = obj[d].md5
      /\ LicenseNames(to_about(obj[d], d)) = LicenseNames(obj[d])
  BY Written, Zenon
<1> QED
  BY <1>1, Zenon DEF IsWhole

\* The next distribution: local_dist is through, and only its notice may have changed.
LEMMA NextDistRun ==
  ASSUME TypeOK, RunInv, pc \in AtDist, local_dist \in Local, NextDist,
         UNCHANGED <<archive, about, license, errors, problems>>,
         \A d \in Local : d # local_dist => notice'[d] = notice[d],
         IsWhole(local_dist), about[local_dist].package_url,
         about[local_dist].licenses = {}, about[local_dist].md5 = archive[local_dist],
         about[local_dist].notice_file => notice'[local_dist] \notin {Absent, Empty},
         Accounted(about[local_dist]),
         phase = "clean" => ~ about[local_dist].extra_data.classifiers
  PROVE  RunInv'
<1>1. pc' \in {"load", "report"} /\ pc \notin {"ended", "done"}
  BY AfterSavePc DEF AtDist
<1>2. phase \in {"fetch", "clean"}
  BY DEF TypeOK
<1>3. Phases'
  BY <1>1 DEF NextDist, Phases
<1>4. FilesInv'
  <2> SUFFICES ASSUME NEW d \in Local, Through(d)'
               PROVE  Fetched(d)' /\ about[d].md5 = archive[d]
    BY DEF FilesInv
  <2>1. CASE d = local_dist
    BY <2>1 DEF Fetched, IsWhole, Accounted
  <2>2. CASE d # local_dist
    <3>1. Through(d)
      BY <1>1, <1>2, <2>2 DEF NextDist, Through
    <3>2. Fetched(d) /\ about[d].md5 = archive[d]
      BY <1>1, <3>1 DEF RunInv, FilesInv
    <3> QED
      BY <2>2, <3>2 DEF Fetched, IsWhole, Accounted
  <2> QED
    BY <2>1, <2>2
<1>5. CleanInv'
  <2>1. CASE phase = "fetch" /\ phase' = "clean"
    <3>1. todo' = Local /\ obj' = [d \in Dist |-> NoData]
      BY <2>1 DEF NextDist
    <3> QED
      BY <1>1, <3>1 DEF CleanInv, Dist
  <2>2. CASE phase = "clean" /\ phase' = "clean"
    <3>1. UNCHANGED obj /\ todo' = todo \ {local_dist}
      BY <2>2 DEF NextDist
    <3> QED
      BY <1>1, <2>2, <3>1 DEF RunInv, CleanInv
  <2>3. CASE phase' = "fetch"
    BY <1>1, <2>3 DEF CleanInv
  <2> QED
    BY <1>2, <2>1, <2>2, <2>3 DEF NextDist
<1> QED
  BY <1>1, <1>3, <1>4, <1>5 DEF RunInv, ObjectInv, AtDist, OnlyKeyMetadataMissing

\* The end of save_about_and_notice_files, with the notice of the object in its file.
LEMMA AfterSaveRun ==
  ASSUME TypeOK, Working, RunInv, pc \in {"notice", "write_notice"}, AfterSave,
         UNCHANGED <<about, saveVars>>,
         \A d \in Local : d # local_dist => notice'[d] = notice[d],
         obj[local_dist].notice_text # "" => notice'[local_dist] \notin {Absent, Empty}
  PROVE  RunInv'
<1>1. /\ pc \in AtDist /\ local_dist \in Local /\ local_dist \in todo
      /\ obj[local_dist] \in Data
  BY LocalDistAtWork DEF AtDist
<1>2. /\ about[local_dist] = to_about(obj[local_dist], local_dist)
      /\ obj[local_dist].md5 = archive[local_dist]
  BY DEF RunInv, ObjectInv, AtDist
<1>3. /\ IsWhole(local_dist) /\ about[local_dist].package_url
      /\ about[local_dist].licenses = {} /\ about[local_dist].md5 = archive[local_dist]
      /\ about[local_dist].notice_file => notice'[local_dist] \notin {Absent, Empty}
      /\ about[local_dist].extra_data = obj[local_dist].extra_data
      /\ LicenseNames(about[local_dist]) = LicenseNames(obj[local_dist])
  BY <1>1, <1>2, WrittenFile
<1>4. UNCHANGED <<archive, license, errors, problems, readable, names>>
  BY DEF saveVars
<1>5. CASE phase = "fetch"
  <2>1. pc' = "links" /\ UNCHANGED <<todo, phase, obj>>
    BY <1>5 DEF AfterSave
  <2>2. FilesInv'
    <3> SUFFICES ASSUME NEW d \in Local, Through(d)'
                 PROVE  Fetched(d)' /\ about[d].md5 = archive[d]
      BY <1>4 DEF FilesInv
    <3>1. Through(d) /\ d # local_dist
      BY <1>1, <1>5, <2>1 DEF Through
    <3>2. Fetched(d) /\ about[d].md5 = archive[d]
      BY <3>1 DEF RunInv, FilesInv
    <3> QED
      BY <1>4, <3>1, <3>2 DEF Fetched, IsWhole, Accounted
  <2>3. ObjectInv'
    BY <1>2, <1>4, <2>1 DEF ObjectInv, local_dist, to_about
  <2> QED
    BY <1>5, <2>1, <2>2, <2>3 DEF RunInv, Phases, CleanInv, OnlyKeyMetadataMissing
<1>6. CASE phase # "fetch"
  <2>1. phase = "clean" /\ NextDist
    BY <1>6 DEF AfterSave, TypeOK
  <2>2. Accounted(obj[local_dist]) /\ ~ obj[local_dist].extra_data.classifiers
    BY <2>1 DEF RunInv, CleanInv
  <2>3. Accounted(about[local_dist])
    BY <1>3, <2>2 DEF Accounted
  <2> QED
    BY <1>1, <1>3, <1>4, <2>1, <2>2, <2>3, NextDistRun
<1> QED
  BY <1>5, <1>6

\* A step of saving at which local_dist has not reached its end: its files, and no
\* others, are in the making.
LEMMA SavingRun ==
  ASSUME TypeOK, Working, RunInv, pc \in {"save", "write_about", "notice"},
         pc' \in {"write_about", "notice", "write_notice"},
         UNCHANGED <<todo, phase, obj, saveVars>>,
         \A d \in Local : d # local_dist => about'[d] = about[d] /\ notice'[d] = notice[d],
         pc' # "write_about" => about'[local_dist] = to_about(obj[local_dist], local_dist)
  PROVE  RunInv'
<1>1. pc \in AtDist /\ local_dist \in Local /\ local_dist \in todo
  BY LocalDistAtWork DEF AtDist
<1>2. UNCHANGED <<archive, license, errors, readable>> /\ phase \in {"fetch", "clean"}
  BY DEF saveVars, TypeOK
<1>3. FilesInv'
  <2> SUFFICES ASSUME NEW d \in Local, Through(d)'
               PROVE  Fetched(d)' /\ about'[d].md5 = archive[d]
    BY <1>2 DEF FilesInv
  <2>1. Through(d) /\ d # local_dist
    BY <1>1, <1>2 DEF Through, local_dist
  <2>2. Fetched(d) /\ about[d].md5 = archive[d]
    BY <2>1 DEF RunInv, FilesInv
  <2> QED
    BY <1>2, <2>1, <2>2 DEF Fetched, IsWhole, Accounted
<1>4. ObjectInv'
  <2>1. obj[local_dist].md5 = archive[local_dist]
    BY DEF RunInv, ObjectInv, AtDist
  <2> QED
    BY <1>2, <2>1 DEF ObjectInv, local_dist, to_about
<1>5. CleanInv'
  <2>1. ASSUME phase = "clean"
        PROVE  /\ Accounted(obj[local_dist]) /\ ~ obj[local_dist].extra_data.classifiers
               /\ \A d \in todo : d # local_dist => obj[d] = NoData
               /\ \A d \in Local \ todo : d # local_dist /\ ~ about[d].extra_data.classifiers
    BY <1>1, <2>1 DEF RunInv, CleanInv
  <2> QED
    BY <1>1, <1>2, <2>1 DEF CleanInv, Accounted, local_dist
<1> QED
  BY <1>3, <1>4, <1>5 DEF RunInv, Phases, OnlyKeyMetadataMissing

LEMMA SaveRun ==
  ASSUME TypeOK, Working, RunInv, Save
  PROVE  RunInv'
<1>1. local_dist \in Local /\ obj[local_dist] \in Data
  BY LocalDistAtWork DEF AtDist, Save, SaveAbout, WriteAbout, SaveNotice, WriteNotice
<1>2. CASE SaveAbout
  BY <1>1, <1>2, SavingRun DEF SaveAbout, TypeOK
<1>3. CASE WriteAbout
  BY <1>1, <1>3, SavingRun DEF WriteAbout, TypeOK
<1>4. CASE SaveNotice /\ obj[local_dist].notice_text \notin {"", notice[local_dist]}
  <2>1. about[local_dist] = to_about(obj[local_dist], local_dist)
    BY <1>4 DEF SaveNotice, RunInv, ObjectInv
  <2> QED
    BY <1>1, <1>4, <2>1, SavingRun DEF SaveNotice, TypeOK
<1>5. CASE SaveNotice /\ obj[local_dist].notice_text \in {"", notice[local_dist]}
  <2>1. obj[local_dist].notice_text \in NoticeText \cup {""}
    BY <1>1 DEF Data
  <2>2. obj[local_dist].notice_text # "" => notice[local_dist] \notin {Absent, Empty}
    BY <1>5, <2>1, FilesAssumption
  <2> QED
    BY <1>5, <2>2, AfterSaveRun DEF SaveNotice
<1>6. CASE WriteNotice
  <2>1. obj[local_dist].notice_text \in NoticeText
    BY <1>1, <1>6 DEF Data, WriteNotice, Working
  <2>2. /\ notice'[local_dist] \notin {Absent, Empty}
        /\ \A d \in Local : d # local_dist => notice'[d] = notice[d]
    BY <1>1, <1>6, <2>1, FilesAssumption DEF WriteNotice, TypeOK
  <2> QED
    BY <1>6, <2>2, AfterSaveRun DEF WriteNotice
<1> QED
  BY <1>2, <1>3, <1>4, <1>5, <1>6 DEF Save

\* A step of fetch_license_files: a license file that is there, or was reported, stays so.
LEMMA LicenseStepRun ==
  ASSUME TypeOK, Working, RunInv, phase = "fetch", pc \in {"license", "write_license"},
         pc' \in {"license", "write_license"},
         UNCHANGED <<archive, about, notice, todo, phase, obj, readable>>,
         \A f \in LicenseFile : license[f] # Absent \/ f \in errors =>
           license'[f] # Absent \/ f \in errors',
         \A f \in names \ names' : license'[f] # Absent \/ f \in errors'
  PROVE  RunInv'
<1>1. local_dist \in Local /\ obj[local_dist] \in Data
  BY LocalDistAtWork DEF AtDist
<1>2. \A o \in Data : LicenseNames(o) \subseteq LicenseFile
  BY LicenseNamesType
<1>3. FilesInv'
  <2> SUFFICES ASSUME NEW d \in Local, Through(d)'
               PROVE  Fetched(d)' /\ about[d].md5 = archive[d]
    BY DEF FilesInv
  <2>1. Through(d)
    BY DEF Through
  <2>2. Fetched(d) /\ about[d].md5 = archive[d]
    BY <2>1 DEF RunInv, FilesInv
  <2>3. LicenseNames(about[d]) \subseteq LicenseFile
    <3>1. about[d] \in About
      BY <2>2 DEF Fetched, IsWhole, TypeOK
    <3>2. /\ about[d].license_expression \in License \cup {""}
          /\ about[d].extra_data.license_file \in LicenseFile \cup {""}
      BY <3>1 DEF About, Extra
    <3> QED
      BY <3>2, DataAssumption DEF LicenseNames
  <2> QED
    BY <2>2, <2>3 DEF Fetched, IsWhole, Accounted
<1>4. ObjectInv'
  <2>1. \A f \in LicenseNames(obj[local_dist]) \ names : license[f] # Absent \/ f \in errors
    BY DEF RunInv, ObjectInv
  <2>2. \A f \in LicenseNames(obj[local_dist]) \ names' :
          license'[f] # Absent \/ f \in errors'
    BY <1>1, <1>2, <2>1
  <2> QED
    BY <2>2 DEF RunInv, ObjectInv, AtDist, local_dist, to_about
<1> QED
  BY <1>3, <1>4 DEF RunInv, Phases, CleanInv, OnlyKeyMetadataMissing

LEMMA FetchLicensesRun ==
  ASSUME TypeOK, Working, RunInv, FetchLicenses
  PROVE  RunInv'
<1>0. pc \in {"links", "license", "write_license"}
  BY DEF FetchLicenses, ReadLinks, LinksFail, WriteLicense, LicensesFetched,
         SkipLicense, LicenseFails, OpenLicense
<1>1. /\ phase = "fetch" /\ local_dist \in Local /\ local_dist \in todo
      /\ obj[local_dist] \in Data
  BY <1>0, LocalDistAtWork DEF AtDist, RunInv, Phases
<1>2. CASE ReadLinks
  <2>1. /\ UNCHANGED <<archive, about, notice, license, errors, phase, todo, obj, readable>>
        /\ pc = "links" /\ pc' = "license" /\ names' = LicenseNames(obj[local_dist])
    BY <1>2 DEF ReadLinks, licenseVars
  <2>2. FilesInv'
    BY <1>1, <2>1 DEF RunInv, FilesInv, Through, Fetched, IsWhole, Accounted
  <2>3. ObjectInv'
    BY <2>1 DEF RunInv, ObjectInv, AtDist, local_dist, to_about
  <2> QED
    BY <1>1, <2>1, <2>2, <2>3 DEF RunInv, Phases, CleanInv, OnlyKeyMetadataMissing
<1>3. CASE LinksFail
  BY <1>3 DEF LinksFail, ExitProcess, RunInv, Phases, FilesInv, Through, ObjectInv, AtDist,
              CleanInv, OnlyKeyMetadataMissing
<1>4. CASE WriteLicense
  <2>1. /\ license \in [LicenseFile -> {Absent, Empty, "links", "licensedb"}]
        /\ file.source \in {"links", "licensedb"}
    BY DEF TypeOK
  <2>2. file.source # Absent
    BY <2>1, FilesAssumption
  <2>3. /\ license' = [license EXCEPT ![file.name] = file.source]
        /\ UNCHANGED <<errors, names>> /\ pc = "write_license" /\ pc' = "license"
    BY <1>4 DEF WriteLicense
  <2>4. \A f \in LicenseFile : license[f] # Absent => license'[f] # Absent
    BY <2>1, <2>2, <2>3
  <2>5. UNCHANGED <<archive, about, notice, todo, phase, obj, readable>>
    BY <1>4 DEF WriteLicense, licenseVars
  <2> QED
    BY <1>1, <2>3, <2>4, <2>5, LicenseStepRun
<1>5. CASE LicensesFetched
  <2>1. /\ about[local_dist] = to_about(obj[local_dist], local_dist)
        /\ obj[local_dist].md5 = archive[local_dist]
        /\ obj[local_dist].notice_text # "" => notice[local_dist] \notin {Absent, Empty}
        /\ Accounted(obj[local_dist])
    BY <1>5 DEF LicensesFetched, RunInv, ObjectInv, AtDist, Accounted
  <2>2. /\ IsWhole(local_dist) /\ about[local_dist].package_url
        /\ about[local_dist].licenses = {} /\ about[local_dist].md5 = archive[local_dist]
        /\ about[local_dist].notice_file => notice[local_dist] \notin {Absent, Empty}
        /\ LicenseNames(about[local_dist]) = LicenseNames(obj[local_dist])
    BY <1>1, <2>1, WrittenFile
  <2>3. Accounted(about[local_dist])
    BY <2>1, <2>2 DEF Accounted
  <2>4. /\ UNCHANGED <<archive, about, notice, license, errors, problems>> /\ NextDist
        /\ pc \in AtDist
    BY <1>5 DEF LicensesFetched, licenseVars, AtDist
  <2> QED
    BY <1>1, <2>2, <2>3, <2>4, NextDistRun
<1>6. ASSUME NEW f \in LicenseFile, SkipLicense(f) \/ LicenseFails(f)
      PROVE  RunInv'
  <2>1. /\ UNCHANGED <<archive, about, notice, license, todo, phase, obj, readable, pc>>
        /\ pc = "license" /\ names' = names \ {f} /\ errors \subseteq errors'
        /\ license[f] # Absent \/ f \in errors'
    BY <1>6 DEF SkipLicense, LicenseFails, licenseVars
  <2> QED
    BY <1>1, <2>1, LicenseStepRun
<1>7. ASSUME NEW f \in LicenseFile, NEW s \in {"links", "licensedb"}, OpenLicense(f, s)
      PROVE  RunInv'
  <2>1. /\ UNCHANGED <<archive, about, notice, todo, phase, obj, readable, errors>>
        /\ pc = "license" /\ pc' = "write_license" /\ names' = names \ {f}
        /\ license' = [license EXCEPT ![f] = Empty]
    BY <1>7 DEF OpenLicense, licenseVars
  <2>2. \A g \in LicenseFile : license'[g] = IF g = f THEN Empty ELSE license[g]
    BY <2>1 DEF TypeOK
  <2>3. /\ \A g \in LicenseFile : license[g] # Absent => license'[g] # Absent
        /\ license'[f] # Absent
    BY <2>2, FilesAssumption
  <2> QED
    BY <1>1, <2>1, <2>3, LicenseStepRun
<1> QED
  BY <1>2, <1>3, <1>4, <1>5, <1>6, <1>7 DEF FetchLicenses

\* What loading an ABOUT file into a new object gives.
LEMMA LoadNew ==
  ASSUME TypeOK, NEW d \in Local, IsWhole(d), about[d].package_url
  PROVE  /\ load_about_data(NoData, d).md5 = about[d].md5
         /\ load_about_data(NoData, d).license_expression = about[d].license_expression
         /\ load_about_data(NoData, d).extra_data.classifiers <=>
              about[d].extra_data.classifiers
         /\ LicenseNames(load_about_data(NoData, d)) = LicenseNames(about[d])
<1> DEFINE data == Fields(about[d], NoticeTextOf(d))
           o == load_about_data(NoData, d)
<1>1. o = update(NoData, data)
  BY DEF load_about_data, WithAbout, IsWhole
<1>2. /\ data.license_expression = about[d].license_expression /\ data.md5 = about[d].md5
      /\ data.extra_data = about[d].extra_data
  BY DEF Fields
<1> HIDE DEF o, data
<1>3. /\ NoData.license_expression = "" /\ NoData.md5 = 0 /\ NoData.extra_data = NoExtra
      /\ NoExtra.license_file = "" /\ NoExtra.classifiers = FALSE
  BY DEF NoData, NoExtra
<1>4. /\ o.license_expression = data.license_expression /\ o.md5 = data.md5
      /\ o.extra_data = MergeExtra(NoExtra, data.extra_data)
  BY <1>1, <1>3 DEF update, ValueOr
<1>5. /\ o.extra_data.license_file = data.extra_data.license_file
      /\ o.extra_data.classifiers <=> data.extra_data.classifiers
  <2>1. /\ o.extra_data.license_file =
             ValueOr(data.extra_data.license_file, NoExtra.license_file)
        /\ o.extra_data.classifiers =
             (NoExtra.classifiers \/ data.extra_data.classifiers)
    BY <1>4 DEF MergeExtra
  <2>2. o.extra_data.license_file = data.extra_data.license_file
    BY <1>3, <2>1 DEF ValueOr
  <2>3. o.extra_data.classifiers <=> data.extra_data.classifiers
    BY <1>3, <2>1, Zenon
  <2> QED
    BY <2>2, <2>3
<1>6. LicenseNames(o) = LicenseNames(about[d])
  BY <1>2, <1>4, <1>5 DEF LicenseNames
<1> QED
  BY <1>2, <1>4, <1>5, <1>6 DEF o

LEMMA CleanRun ==
  ASSUME TypeOK, Working, RunInv, CleanAbout
  PROVE  RunInv'
<1> DEFINE loaded == load_about_data(obj[local_dist], local_dist)
           o == set_checksums(loaded, local_dist)
           cleaned == [o EXCEPT !.extra_data.classifiers = FALSE]
<1>1. /\ pc = "load" /\ phase = "clean"
      /\ UNCHANGED <<archive, about, notice, license, errors, problems>>
  BY DEF CleanAbout, disk
<1>2. /\ local_dist \in Local /\ local_dist \in Dist /\ local_dist \in todo
      /\ obj[local_dist] \in Data
  BY <1>1, LocalDistAtWork DEF AtDist
<1>3. Fetched(local_dist) /\ about[local_dist].md5 = archive[local_dist]
  <2>1. Through(local_dist)
    BY <1>1 DEF Through
  <2> QED
    BY <1>1, <1>2, <2>1 DEF RunInv, FilesInv
<1>4. obj[local_dist] = NoData
  BY <1>1, <1>2 DEF RunInv, CleanInv
<1>5. loaded \in Data /\ o \in Data
  BY <1>2, LoadType, ChecksumType
<1>6. /\ o.md5 = archive[local_dist] /\ o.extra_data = loaded.extra_data
      /\ o.license_expression = loaded.license_expression
  <2>1. o.md5 = archive[local_dist]
    BY <1>2, <1>5, ChecksumSet
  <2> HIDE DEF loaded
  <2>2. o.extra_data = loaded.extra_data /\ o.license_expression = loaded.license_expression
    BY <1>5 DEF set_checksums, Data
  <2> QED
    BY <2>1, <2>2
<1>7. /\ loaded.extra_data.classifiers <=> about[local_dist].extra_data.classifiers
      /\ LicenseNames(loaded) = LicenseNames(about[local_dist])
  BY <1>2, <1>3, <1>4, LoadNew DEF Fetched
<1> HIDE DEF loaded
<1>8. CASE Becomes(local_dist, cleaned) /\ pc' = "save" /\ UNCHANGED <<todo, phase>>
  <2>1. /\ cleaned.md5 = archive[local_dist] /\ ~ cleaned.extra_data.classifiers
        /\ cleaned.extra_data.license_file = loaded.extra_data.license_file
        /\ cleaned.license_expression = loaded.license_expression
    <3> HIDE DEF o
    <3> QED
      BY <1>5, <1>6 DEF Data, Extra
  <2>2. LicenseNames(cleaned) = LicenseNames(about[local_dist])
    <3> HIDE DEF cleaned
    <3> QED
      BY <1>7, <2>1 DEF LicenseNames
  <2>3. /\ obj'[local_dist] = cleaned
        /\ \A d \in Local : d # local_dist => obj'[d] = obj[d]
    <3> HIDE DEF cleaned
    <3> QED
      BY <1>2, <1>8 DEF Becomes, TypeOK, Dist
  <2> HIDE DEF cleaned
  <2>4. FilesInv'
    <3> SUFFICES ASSUME NEW d \in Local
                 PROVE  Fetched(d)' /\ about[d].md5 = archive[d]
      BY <1>1 DEF FilesInv
    <3>1. Through(d)
      BY <1>1 DEF Through
    <3> QED
      BY <1>1, <3>1 DEF RunInv, FilesInv, Fetched, IsWhole, Accounted
  <2>5. ObjectInv'
    BY <1>1, <1>8, <2>1, <2>3 DEF ObjectInv, local_dist
  <2>6. CleanInv'
    <3>1. \A f \in LicenseNames(cleaned) : license'[f] # Absent \/ f \in errors'
      BY <1>1, <1>3, <2>2 DEF Fetched, Accounted
    <3>2. \A d \in todo : d # local_dist => obj'[d] = NoData
      BY <1>1, <2>3 DEF RunInv, CleanInv, TypeOK
    <3>3. \A d \in Local \ todo : ~ about[d].extra_data.classifiers
      BY <1>1 DEF RunInv, CleanInv
    <3>4. UNCHANGED local_dist
      BY <1>8 DEF local_dist
    <3>5. Accounted(obj[local_dist])'
      BY <2>3, <3>1, <3>4 DEF Accounted
    <3> QED
      BY <1>1, <1>8, <2>1, <2>3, <3>2, <3>3, <3>4, <3>5 DEF CleanInv
  <2> QED
    BY <1>1, <1>8, <2>4, <2>5, <2>6 DEF RunInv, Phases, OnlyKeyMetadataMissing
<1>9. CASE ~ o.extra_data.classifiers /\ NextDist
  <2>1. ~ about[local_dist].extra_data.classifiers
    BY <1>6, <1>7, <1>9
  <2> QED
    BY <1>1, <1>2, <1>3, <1>9, <2>1, NextDistRun DEF Fetched, AtDist
<1> QED
  BY <1>8, <1>9 DEF CleanAbout, loaded

\* With the checksums of the archives and without classifiers, find_problems prints at
\* most that key metadata are missing.
LEMMA FewProblems ==
  ASSUME TypeOK,
         \A d \in Local : /\ IsWhole(d) /\ about[d].package_url
                          /\ about[d].md5 = archive[d] /\ ~ about[d].extra_data.classifiers,
         NEW p \in find_problems
  PROVE  p[2] = "key metadata"
<1> DEFINE Loaded(d) == load_about_data(NoData, d)
<1>1. ASSUME NEW d \in Local
      PROVE  ~ Loaded(d).extra_data.classifiers /\ Loaded(d).md5 = archive[d]
  BY LoadNew
<1> HIDE DEF Loaded
<1>2. {d \in Local : Loaded(d).extra_data.classifiers} = {}
  BY <1>1
<1>3. {d \in Local : Loaded(d).md5 \notin {0, archive[d]}} = {}
  BY <1>1
<1>4. find_problems =
        {<<d, "key metadata">> : d \in {e \in Local : ~ has_key_metadata(Loaded(e))}} \cup
        {<<d, "classifiers">> : d \in {e \in Local : Loaded(e).extra_data.classifiers}} \cup
        {<<d, "checksums">> : d \in {e \in Local : Loaded(e).md5 \notin {0, archive[e]}}}
  BY DEF find_problems, Loaded
<1>5. p \in {<<d, "key metadata">> : d \in {e \in Local : ~ has_key_metadata(Loaded(e))}}
  <2>1. {<<d, "classifiers">> : d \in {e \in Local : Loaded(e).extra_data.classifiers}} = {}
    BY <1>2
  <2>2. {<<d, "checksums">> : d \in {e \in Local : Loaded(e).md5 \notin {0, archive[e]}}} = {}
    BY <1>3
  <2> QED
    BY <1>4, <2>1, <2>2
<1>6. PICK d \in Local : p = <<d, "key metadata">>
  BY <1>5
<1> QED
  BY <1>6

LEMMA OtherStepsRun ==
  ASSUME TypeOK, RunInv, Start \/ Report \/ Kill \/ \E d \in Rebuilt : Replace(d)
  PROVE  RunInv'
<1>1. CASE Start
  <2>1. pc' = "load" /\ phase' = "fetch" /\ todo' = Local
    BY <1>1 DEF Start
  <2> QED
    BY <2>1 DEF RunInv, Phases, FilesInv, Through, ObjectInv, AtDist, CleanInv,
                OnlyKeyMetadataMissing
<1>2. CASE Report
  <2>1. /\ pc = "report" /\ pc' = "done" /\ phase' = "fetch" /\ todo' = {}
        /\ problems' = find_problems
        /\ UNCHANGED <<archive, about, notice, license, errors>>
    BY <1>2 DEF Report, ExitProcess, disk
  <2>2. phase = "clean" /\ todo = {}
    BY <2>1 DEF RunInv, Phases
  <2>3. \A d \in Local : /\ Fetched(d) /\ about[d].md5 = archive[d]
                         /\ ~ about[d].extra_data.classifiers
    BY <2>1, <2>2 DEF RunInv, FilesInv, Through, CleanInv
  <2>4. \A p \in problems' : p[2] = "key metadata"
    BY <2>1, <2>3, FewProblems DEF Fetched
  <2>5. FilesInv' /\ CleanInv'
    BY <2>1, <2>3 DEF FilesInv, CleanInv, Fetched, IsWhole, Accounted
  <2> QED
    BY <2>1, <2>4, <2>5 DEF RunInv, Phases, ObjectInv, AtDist, OnlyKeyMetadataMissing
<1>3. CASE Kill
  BY <1>3 DEF Kill, ExitProcess, RunInv, Phases, FilesInv, Through, ObjectInv, AtDist,
              CleanInv, OnlyKeyMetadataMissing
<1>4. ASSUME NEW d \in Rebuilt, Replace(d) PROVE RunInv'
  <2>1. /\ pc \in {"ended", "done"}
        /\ UNCHANGED <<about, notice, license, pc, phase, todo, obj, errors, problems>>
    BY <1>4 DEF Replace, memory
  <2> QED
    BY <2>1 DEF RunInv, Phases, FilesInv, Through, Fetched, IsWhole, Accounted, ObjectInv,
                AtDist, CleanInv, OnlyKeyMetadataMissing
<1> QED
  BY <1>1, <1>2, <1>3, <1>4

LEMMA KeepsRun == TypeOK /\ Working /\ RunInv /\ [Next]_vars => RunInv'
<1> SUFFICES ASSUME TypeOK, Working, RunInv, [Next]_vars PROVE RunInv'
  OBVIOUS
<1>1. CASE Next
  BY <1>1, CascadeRun, SaveRun, FetchLicensesRun, CleanRun, OtherStepsRun DEF Next
<1>2. CASE UNCHANGED vars
  BY <1>2 DEF vars, disk, memory, RunInv, Phases, FilesInv, Through, Fetched, IsWhole,
              Accounted, ObjectInv, CleanInv, OnlyKeyMetadataMissing, local_dist, to_about
<1> QED
  BY <1>1, <1>2

LEMMA InitRun == Init => TypeOK /\ Working /\ RunInv
<1>1. Init => TypeOK /\ Working
  BY InitType DEF Init, Working, AtDist
<1>2. Init => RunInv
  BY DEF Init, RunInv, Phases, FilesInv, Through, ObjectInv, AtDist, CleanInv,
         OnlyKeyMetadataMissing
<1> QED
  BY <1>1, <1>2

LEMMA RunCorrect == Spec => [](TypeOK /\ Working /\ RunInv)
BY InitRun, KeepsType, KeepsRun, PTL DEF Spec

\* When a run has ended, all distributions are through with both phases.
LEMMA AllFetched ==
  ASSUME RunInv, pc = "done"
  PROVE  \A d \in Local : Fetched(d) /\ ~ about[d].extra_data.classifiers
<1>1. phase = "fetch" /\ todo = {}
  BY DEF RunInv, Phases
<1> QED
  BY <1>1 DEF RunInv, FilesInv, Through, CleanInv

\* A run that ends reports at most that key metadata are missing: the checksums are
\* those of the archives, although they may have been replaced since the ABOUT files
\* were written, and no classifiers are left.
THEOREM OnlyMetadataReported == Spec => []OnlyKeyMetadataMissing
<1>1. RunInv => OnlyKeyMetadataMissing
  BY DEF RunInv
<1> QED
  BY <1>1, RunCorrect, PTL

\* After a run that ends, each ABOUT file names a NOTICE file only if there is one, and
\* a whole one, wherever earlier runs were killed.
THEOREM NoticesExist == Spec => []NoticeFileExists
<1>1. RunInv => NoticeFileExists
  BY AllFetched DEF NoticeFileExists, Fetched
<1> QED
  BY <1>1, RunCorrect, PTL

\* A license file is empty while it is written, or because a kill left it so.
EmptyIsTorn ==
  \A f \in LicenseFile : license[f] = Empty =>
    f \in torn \/ (pc = "write_license" /\ file.name = f)

\* A step that leaves the license files while none is open.
LEMMA EmptyStays ==
  ASSUME EmptyIsTorn, UNCHANGED <<license, torn>>, pc # "write_license"
  PROVE  EmptyIsTorn'
BY DEF EmptyIsTorn

LEMMA KeepsEmpty ==
  ASSUME TypeOK, Working, EmptyIsTorn, [Next]_vars
  PROVE  EmptyIsTorn'
<1>1. CASE Cascade
  BY <1>1, EmptyStays
  DEF Cascade, LoadAbout, AskOtherDist, NoOtherDist, AskOtherVersion, NoOtherVersion,
      AskServer, AskHostedVersion, ReadPkginfo, cascadeVars, disk
<1>2. CASE Save
  BY <1>2, EmptyStays DEF Save, SaveAbout, WriteAbout, SaveNotice, WriteNotice, saveVars
<1>3. CASE ReadLinks \/ LinksFail \/ LicensesFetched
  BY <1>3, EmptyStays DEF ReadLinks, LinksFail, LicensesFetched, disk, licenseVars
<1>4. CASE WriteLicense
  <2>1. /\ license' = [license EXCEPT ![file.name] = file.source] /\ UNCHANGED torn
        /\ pc = "write_license"
    BY <1>4 DEF WriteLicense, licenseVars
  <2>2. file.source # Empty
    BY FilesAssumption DEF TypeOK
  <2>3. \A f \in LicenseFile : f # file.name => license'[f] = license[f]
    BY <2>1 DEF TypeOK
  <2>4. file.name \in LicenseFile => license'[file.name] = file.source
    BY <2>1 DEF TypeOK
  <2> QED
    BY <2>1, <2>2, <2>3, <2>4 DEF EmptyIsTorn
<1>5. ASSUME NEW f \in LicenseFile, SkipLicense(f) \/ LicenseFails(f)
      PROVE  EmptyIsTorn'
  BY <1>5, EmptyStays DEF SkipLicense, LicenseFails, licenseVars
<1>6. ASSUME NEW f \in LicenseFile, NEW s \in {"links", "licensedb"}, OpenLicense(f, s)
      PROVE  EmptyIsTorn'
  <2>1. /\ license' = [license EXCEPT ![f] = Empty] /\ UNCHANGED torn
        /\ pc = "license" /\ pc' = "write_license" /\ file' = [name |-> f, source |-> s]
    BY <1>6 DEF OpenLicense, licenseVars
  <2>2. \A g \in LicenseFile : g # f => license'[g] = license[g]
    BY <2>1 DEF TypeOK
  <2>3. file'.name = f
    BY <2>1
  <2> QED
    BY <2>1, <2>2, <2>3 DEF EmptyIsTorn
<1>7. CASE CleanAbout \/ Start \/ Report \/ \E d \in Rebuilt : Replace(d)
  BY <1>7, EmptyStays DEF CleanAbout, Start, Report, Replace, disk
<1>8. CASE Kill
  <2>1. UNCHANGED license /\ torn' = torn \cup OpenFile
    BY <1>8 DEF Kill, disk
  <2> QED
    BY <2>1 DEF EmptyIsTorn, OpenFile
<1>9. CASE UNCHANGED vars
  BY <1>9 DEF vars, disk, memory, EmptyIsTorn
<1> QED
  BY <1>1, <1>2, <1>3, <1>4, <1>5, <1>6, <1>7, <1>8, <1>9 DEF Next, FetchLicenses

\* After a run that ends, each license file that an ABOUT file asks for is there with its
\* text, or its absence was reported, or a kill, of this run or an earlier one, left it
\* empty: no other way leads to an empty file, whichever requests failed.
THEOREM LicensesThereOrReported == Spec => []LicensesAccounted
<1>1. Init => EmptyIsTorn
  BY FilesAssumption DEF Init, EmptyIsTorn
<1>2. TypeOK /\ RunInv /\ EmptyIsTorn => LicensesAccounted
  <2> SUFFICES ASSUME TypeOK, RunInv, EmptyIsTorn, pc = "done", NEW d \in Local,
                      NEW f \in LicenseNames(about[d])
               PROVE  license[f] \notin {Absent, Empty} \/ f \in errors \/ f \in torn
    BY DEF LicensesAccounted
  <2>1. IsWhole(d) /\ Accounted(about[d])
    BY AllFetched DEF Fetched
  <2>2. about[d].license_expression \in License \cup {""}
        /\ about[d].extra_data.license_file \in LicenseFile \cup {""}
    BY <2>1 DEF TypeOK, IsWhole, About, Extra
  <2>3. f \in LicenseFile
    BY <2>2, DataAssumption DEF LicenseNames
  <2>4. license[f] # Absent \/ f \in errors
    BY <2>1 DEF Accounted
  <2> QED
    BY <2>3, <2>4 DEF EmptyIsTorn
<1> QED
  BY <1>1, <1>2, KeepsEmpty, RunCorrect, PTL DEF Spec

--------------------------------------------------------------------------------
(***************************************************************************)
(* The run after a completed one                                           *)
(***************************************************************************)

\* ABOUT file a says what old says, up to the checksum and the download URL.
SameAbout(a, old) ==
  /\ a \in About /\ (a.package_url <=> old.package_url)
  /\ a.license_expression = old.license_expression /\ a.copyright = old.copyright
  /\ (a.notice_file <=> old.notice_file) /\ a.licenses = old.licenses
  /\ a.extra_data = old.extra_data

\* o has what ABOUT file old of distribution d, and its notice, say.
SameData(o, old, d) ==
  /\ o.license_expression = old.license_expression /\ o.copyright = old.copyright
  /\ o.extra_data = old.extra_data
  /\ o.notice_text = IF old.notice_file THEN notice[d] ELSE ""

\* An ABOUT file as a completed run leaves it, and its NOTICE file.
AsLeft(old, d) ==
  /\ old \in About /\ old.package_url /\ old.licenses = {}
  /\ ~ old.extra_data.classifiers
  /\ old.notice_file => notice[d] \in NoticeText

\* What is in memory of such a distribution is what its ABOUT file says, so that the file
\* is rewritten at most with the same, and nothing else is asked.
Stays(d) ==
  /\ AsLeft(before[d], d)
  /\ about[d] # Empty => SameAbout(about[d], before[d])
  /\ about[d] = Empty => pc = "ended" \/ (pc = "write_about" /\ d = local_dist)
  /\ obj[d] = NoData \/ SameData(obj[d], before[d], d)
  /\ pc \in {"sibling", "version", "remote", "hosted", "write_notice"} => d # local_dist
  /\ pc \in {"save", "write_about", "notice"} /\ d = local_dist =>
       SameData(obj[d], before[d], d)

\* Distribution d has key metadata in the ABOUT file that a completed run left.
Complete(d) == d \in Local /\ settled /\ has_key_metadata(before[d])

CompleteInv == \A d \in Local : Complete(d) => Stays(d)

\* Loading such an ABOUT file again adds nothing.
LEMMA LoadSame ==
  ASSUME TypeOK, NEW d \in Local, NEW old, AsLeft(old, d), about[d] # Empty,
         SameAbout(about[d], old), NEW o \in Data, o = NoData \/ SameData(o, old, d)
  PROVE  SameData(load_about_data(o, d), old, d)
<1> DEFINE text == IF old.notice_file THEN notice[d] ELSE ""
           data == Fields(about[d], NoticeTextOf(d))
           new == load_about_data(o, d)
<1>1. about[d] \notin {Absent, Empty} /\ about[d].package_url
  BY FilesAssumption DEF SameAbout, AsLeft
<1>2. NoticeTextOf(d) = text
  <2>1. old.notice_file => notice[d] \notin {Absent, Empty}
    BY FilesAssumption DEF AsLeft
  <2> QED
    BY <1>1, <2>1 DEF NoticeTextOf, SameAbout
<1>3. new = update(o, data)
  BY <1>1 DEF load_about_data, WithAbout
<1>4. /\ data.license_expression = old.license_expression
      /\ data.copyright = old.copyright /\ data.extra_data = old.extra_data
      /\ data.notice_text = text
  BY <1>2 DEF Fields, SameAbout
<1>5. /\ o.license_expression \in {"", old.license_expression}
      /\ o.copyright \in {"", old.copyright} /\ o.extra_data \in {NoExtra, old.extra_data}
      /\ o.notice_text \in {"", text}
  <2>1. CASE o = NoData
    BY <2>1 DEF NoData
  <2>2. CASE SameData(o, old, d)
    BY <2>2 DEF SameData
  <2> QED
    BY <2>1, <2>2
<1>6. old.extra_data \in Extra /\ ~ old.extra_data.classifiers
  BY DEF AsLeft, About
<1> HIDE DEF data, text, new
<1>7. /\ new.license_expression = ValueOr(o.license_expression, data.license_expression)
      /\ new.copyright = ValueOr(o.copyright, data.copyright)
      /\ new.notice_text = ValueOr(o.notice_text, data.notice_text)
      /\ new.extra_data = MergeExtra(o.extra_data, data.extra_data)
  BY <1>3 DEF update
<1>8. MergeExtra(o.extra_data, old.extra_data) = old.extra_data
  <2> DEFINE e == old.extra_data
  <2> HIDE DEF e
  <2>1. e \in Extra /\ ~ e.classifiers
    BY <1>6 DEF e
  <2>2. MergeExtra(NoExtra, e) = e
    BY <2>1 DEF MergeExtra, NoExtra, ValueOr, Extra
  <2>3. MergeExtra(e, e) = e
    BY <2>1 DEF MergeExtra, ValueOr, Extra
  <2> QED
    BY <1>5, <2>2, <2>3 DEF e
<1>9. /\ new.license_expression = old.license_expression /\ new.copyright = old.copyright
      /\ new.notice_text = text /\ new.extra_data = old.extra_data
  BY <1>4, <1>5, <1>7, <1>8 DEF ValueOr
<1> QED
  BY <1>9 DEF SameData, new, text

LEMMA SameHasMetadata ==
  ASSUME NEW o, NEW old, NEW d, SameData(o, old, d), has_key_metadata(old)
  PROVE  has_key_metadata(o)
BY DEF SameData, has_key_metadata

LEMMA ChecksumSame ==
  ASSUME NEW o \in Data, NEW old, NEW d, NEW e, SameData(o, old, d)
  PROVE  SameData(set_checksums(o, e), old, d)
BY DEF SameData, set_checksums, Data

\* What is written is the same.
LEMMA ToAboutSame ==
  ASSUME NEW d \in Local, NEW o \in Data, NEW old, SameData(o, old, d), AsLeft(old, d)
  PROVE  SameAbout(to_about(o, d), old) /\ to_about(o, d) # Empty
<1>1. to_about(o, d) \in About
  BY ToAboutType
<1>2. (o.notice_text # "") <=> old.notice_file
  BY FilesAssumption DEF SameData, AsLeft, About
<1>3. SameAbout(to_about(o, d), old)
  BY <1>1, <1>2 DEF SameAbout, SameData, AsLeft, to_about
<1> QED
  BY <1>1, <1>3, FilesAssumption

\* A step that leaves the files of such distributions, and the objects or clears them.
LEMMA ClearedComplete ==
  ASSUME CompleteInv, UNCHANGED <<about, before, settled>>,
         obj' \in {obj, [d \in Dist |-> NoData]},
         \A d \in Local : Complete(d) => notice'[d] = notice[d],
         pc' \notin {"sibling", "version", "remote", "hosted", "write_notice", "save",
                     "write_about", "notice"},
         pc' = "ended" \/ pc \notin {"ended", "write_about"}
  PROVE  CompleteInv'
<1> SUFFICES ASSUME NEW d \in Local, Complete(d)' PROVE Stays(d)'
  BY DEF CompleteInv
<1>1. d \in Dist /\ Complete(d) /\ notice'[d] = notice[d]
  BY DEF Complete, Dist
<1>2. Stays(d)
  BY <1>1 DEF CompleteInv
<1>3. AsLeft(before[d], d)'
  BY <1>1, <1>2 DEF Stays, AsLeft
<1>4. /\ (about[d] # Empty => SameAbout(about[d], before[d]))'
      /\ about'[d] = Empty => pc' = "ended"
  BY <1>2 DEF Stays, SameAbout
<1>5. (obj[d] = NoData \/ SameData(obj[d], before[d], d))'
  <2>1. obj'[d] = NoData \/ obj'[d] = obj[d]
    BY <1>1
  <2> QED
    BY <1>1, <1>2, <2>1 DEF Stays, SameData
<1> QED
  BY <1>3, <1>4, <1>5 DEF Stays

\* A step of the cascade: of such a distribution it changes the object at most, which
\* becomes what the ABOUT file says.
LEMMA CascadeStepComplete ==
  ASSUME TypeOK, Working, CompleteInv, pc \notin {"ended", "write_about"},
         pc' \in {"sibling", "version", "remote", "hosted", "save"},
         UNCHANGED <<about, notice, before, settled, todo>>,
         \A d \in Local : Complete(d) =>
           /\ obj'[d] = obj[d] \/ SameData(obj'[d], before[d], d)
           /\ d = local_dist => pc' = "save" /\ SameData(obj'[d], before[d], d)
  PROVE  CompleteInv'
<1> SUFFICES ASSUME NEW d \in Local, Complete(d)' PROVE Stays(d)'
  BY DEF CompleteInv
<1>1. Complete(d)
  BY DEF Complete
<1>2. Stays(d) /\ about[d] # Empty
  BY <1>1 DEF CompleteInv, Stays
<1>3. AsLeft(before[d], d)' /\ (about[d] # Empty /\ SameAbout(about[d], before[d]))'
  BY <1>2 DEF Stays, AsLeft, SameAbout
<1>4. (obj[d] = NoData \/ SameData(obj[d], before[d], d))'
  BY <1>1, <1>2 DEF Stays, SameData
<1>5. (d = local_dist => SameData(obj[d], before[d], d))' /\ (pc' # "save" => d # local_dist')
  BY <1>1 DEF SameData, local_dist
<1> QED
  BY <1>3, <1>4, <1>5 DEF Stays

LEMMA CascadeComplete ==
  ASSUME TypeOK, Working, CompleteInv, Cascade
  PROVE  CompleteInv'
<1>1. /\ pc \in {"load", "sibling", "version", "remote", "hosted"}
      /\ pc' \in {"sibling", "version", "remote", "hosted", "save"}
  BY DEF Cascade, LoadAbout, AskOtherDist, NoOtherDist, AskOtherVersion, NoOtherVersion,
         AskServer, AskHostedVersion, ReadPkginfo, TakeFrom, SaveOrAskNext
<1>2. UNCHANGED <<about, notice, before, settled, todo>>
  BY DEF Cascade, LoadAbout, AskOtherDist, NoOtherDist, AskOtherVersion, NoOtherVersion,
         AskServer, AskHostedVersion, ReadPkginfo, cascadeVars, disk
<1>3. /\ local_dist \in Local /\ local_dist \in Dist /\ obj[local_dist] \in Data
      /\ obj \in [Dist -> Data] /\ Local \subseteq Dist /\ others \subseteq Dist
  BY <1>1, LocalDistAtWork DEF AtDist, TypeOK, Dist
<1>4. ASSUME NEW d \in Local, Complete(d)
      PROVE  /\ AsLeft(before[d], d) /\ about[d] # Empty /\ SameAbout(about[d], before[d])
             /\ obj[d] = NoData \/ SameData(obj[d], before[d], d)
             /\ pc # "load" => d # local_dist
  BY <1>1, <1>4 DEF CompleteInv, Stays
<1>5. ASSUME NEW d \in Local, Complete(d)
      PROVE  SameData(load_about_data(obj[d], d), before[d], d)
  BY <1>3, <1>4, <1>5, LoadSame
<1>6. CASE LoadAbout
  <2> DEFINE loaded == load_about_data(obj[local_dist], local_dist)
             o == set_checksums(loaded, local_dist)
  <2>1. loaded \in Data
    BY <1>3, LoadType
  <2>2. Complete(local_dist) => SameData(o, before[local_dist], local_dist)
    BY <1>3, <1>5, <2>1, ChecksumSame
  <2>3. Complete(local_dist) => has_key_metadata(o)
    BY <2>2, SameHasMetadata DEF Complete
  <2> HIDE DEF o
  <2>4. obj' = [obj EXCEPT ![local_dist] = o] /\ (has_key_metadata(o) => pc' = "save")
    BY <1>6 DEF LoadAbout, Becomes, o
  <2>5. \A d \in Local : Complete(d) =>
          /\ obj'[d] = obj[d] \/ SameData(obj'[d], before[d], d)
          /\ d = local_dist => pc' = "save" /\ SameData(obj'[d], before[d], d)
    BY <1>3, <2>2, <2>3, <2>4
  <2> QED
    BY <1>1, <1>2, <2>5, CascadeStepComplete
<1>7. ASSUME pc # "load",
             \A d \in Local : d # local_dist =>
               obj'[d] = obj[d] \/ obj'[d] = load_about_data(obj[d], d)
      PROVE  CompleteInv'
  <2>1. \A d \in Local : Complete(d) =>
          /\ obj'[d] = obj[d] \/ SameData(obj'[d], before[d], d)
          /\ d # local_dist
    BY <1>4, <1>5, <1>7
  <2> QED
    BY <1>1, <1>2, <2>1, CascadeStepComplete
<1>8. CASE AskOtherDist \/ AskServer \/ ReadPkginfo
  <2>1. pc # "load" /\ \E o : obj' = [obj EXCEPT ![local_dist] = o]
    BY <1>8 DEF AskOtherDist, AskServer, ReadPkginfo, Becomes
  <2>2. \A d \in Local : d # local_dist => obj'[d] = obj[d]
    BY <1>3, <2>1
  <2> QED
    BY <1>7, <2>1, <2>2
<1>9. CASE AskOtherVersion
  <2> DEFINE x == First(others)
             y == load_about_data(obj[x], x)
  <2>1. pc # "load" /\ \E o : obj' = [obj EXCEPT ![x] = y, ![local_dist] = o]
    BY <1>9 DEF AskOtherVersion, TakeFrom
  <2>2. \A d \in Local : d # local_dist =>
          obj'[d] = obj[d] \/ obj'[d] = load_about_data(obj[d], d)
    BY <1>3, <2>1
  <2> QED
    BY <1>7, <2>1, <2>2
<1>10. CASE AskHostedVersion
  <2> DEFINE x == First(others)
  <2>1. x \in Dist /\ x \notin Local
    BY <1>3, <1>10, FirstIsIn, FilesAssumption DEF AskHostedVersion, Working
  <2>2. pc # "load" /\ \E y, o : obj' = [obj EXCEPT ![x] = y, ![local_dist] = o]
    BY <1>10 DEF AskHostedVersion, TakeFrom
  <2>3. \A d \in Local : d # local_dist => obj'[d] = obj[d]
    BY <1>3, <2>1, <2>2
  <2> QED
    BY <1>7, <2>2, <2>3
<1>11. CASE NoOtherDist \/ NoOtherVersion
  BY <1>7, <1>11 DEF NoOtherDist, NoOtherVersion
<1> QED
  BY <1>6, <1>8, <1>9, <1>10, <1>11 DEF Cascade

LEMMA SaveComplete ==
  ASSUME TypeOK, Working, CompleteInv, Save
  PROVE  CompleteInv'
<1>1. local_dist \in Local /\ local_dist \in Dist /\ obj[local_dist] \in Data
  BY LocalDistAtWork DEF AtDist, Save, SaveAbout, WriteAbout, SaveNotice, WriteNotice
<1>2. UNCHANGED <<before, settled>>
  BY DEF Save, SaveAbout, WriteAbout, SaveNotice, WriteNotice, saveVars
<1>3. CASE SaveAbout
  <2>1. /\ pc = "save" /\ pc' \in {"notice", "write_about"} /\ UNCHANGED <<notice, todo, obj>>
        /\ pc' = "notice" => UNCHANGED about
        /\ pc' = "write_about" => about' = [about EXCEPT ![local_dist] = Empty]
    BY <1>3 DEF SaveAbout
  <2> SUFFICES ASSUME NEW d \in Local, Complete(d)' PROVE Stays(d)'
    BY DEF CompleteInv
  <2>2. Complete(d) /\ Stays(d)
    BY <1>2 DEF Complete, CompleteInv
  <2>3. about'[d] = about[d] \/ (pc' = "write_about" /\ d = local_dist /\ about'[d] = Empty)
    BY <1>1, <2>1 DEF TypeOK
  <2> QED
    BY <1>2, <2>1, <2>2, <2>3 DEF Stays, AsLeft, SameAbout, SameData, local_dist
<1>4. CASE WriteAbout
  <2> DEFINE a == to_about(obj[local_dist], local_dist)
  <2>1. /\ pc = "write_about" /\ pc' = "notice" /\ UNCHANGED <<notice, todo, obj>>
        /\ about' = [about EXCEPT ![local_dist] = a]
    BY <1>4 DEF WriteAbout
  <2> SUFFICES ASSUME NEW d \in Local, Complete(d)' PROVE Stays(d)'
    BY DEF CompleteInv
  <2>2. Complete(d) /\ Stays(d)
    BY <1>2 DEF Complete, CompleteInv
  <2>3. d = local_dist => SameAbout(a, before[d]) /\ a # Empty
    BY <1>1, <2>1, <2>2, ToAboutSame DEF Stays
  <2> HIDE DEF a
  <2>4. /\ d = local_dist => about'[d] = a
        /\ d # local_dist => about'[d] = about[d]
    BY <1>1, <2>1 DEF TypeOK
  <2> QED
    BY <1>2, <2>1, <2>2, <2>3, <2>4 DEF Stays, AsLeft, SameAbout, SameData, local_dist
<1>5. ASSUME NEW d \in Local, Complete(d), SaveNotice
      PROVE  d # local_dist \/ obj[local_dist].notice_text \in {"", notice[local_dist]}
  BY <1>5 DEF SaveNotice, CompleteInv, Stays, SameData
<1>6. CASE SaveNotice /\ pc' = "write_notice"
  <2>1. /\ pc = "notice" /\ UNCHANGED <<about, todo, obj>>
        /\ notice' = [notice EXCEPT ![local_dist] = Empty]
        /\ obj[local_dist].notice_text \notin {"", notice[local_dist]}
    BY <1>6, AfterSavePc DEF SaveNotice
  <2> SUFFICES ASSUME NEW d \in Local, Complete(d)' PROVE Stays(d)'
    BY DEF CompleteInv
  <2>2. Complete(d) /\ Stays(d) /\ d # local_dist
    BY <1>2, <1>5, <1>6, <2>1 DEF Complete, CompleteInv
  <2>3. notice'[d] = notice[d]
    BY <2>1, <2>2 DEF TypeOK
  <2> QED
    BY <1>2, <1>6, <2>1, <2>2, <2>3 DEF Stays, AsLeft, SameAbout, SameData, local_dist
<1>7. CASE AfterSave /\ UNCHANGED about /\ pc \in {"notice", "write_notice"}
           /\ \A d \in Local : Complete(d) => notice'[d] = notice[d]
  BY <1>2, <1>7, AfterSavePc, ClearedObjects, ClearedComplete
<1>8. CASE SaveNotice /\ pc' # "write_notice"
  BY <1>7, <1>8 DEF SaveNotice
<1>9. CASE WriteNotice
  <2>1. /\ pc = "write_notice" /\ UNCHANGED about /\ AfterSave
        /\ notice' = [notice EXCEPT ![local_dist] = obj[local_dist].notice_text]
    BY <1>9 DEF WriteNotice
  <2>2. \A d \in Local : Complete(d) => d # local_dist
    BY <2>1 DEF CompleteInv, Stays
  <2>3. \A d \in Local : Complete(d) => notice'[d] = notice[d]
    BY <2>1, <2>2 DEF TypeOK
  <2> QED
    BY <1>7, <2>1, <2>3
<1> QED
  BY <1>3, <1>4, <1>6, <1>8, <1>9 DEF Save

LEMMA CleanComplete ==
  ASSUME TypeOK, Working, CompleteInv, CleanAbout
  PROVE  CompleteInv'
<1> DEFINE loaded == load_about_data(obj[local_dist], local_dist)
           o == set_checksums(loaded, local_dist)
           cleaned == [o EXCEPT !.extra_data.classifiers = FALSE]
<1>1. pc = "load" /\ UNCHANGED <<about, notice, before, settled>>
  BY DEF CleanAbout, disk
<1>2. /\ local_dist \in Local /\ local_dist \in Dist /\ obj[local_dist] \in Data
      /\ loaded \in Data
  BY <1>1, LocalDistAtWork, LoadType DEF AtDist
<1>3. CASE NextDist
  BY <1>1, <1>3, AfterSavePc, ClearedObjects, ClearedComplete
<1>4. CASE /\ o.extra_data.classifiers /\ Becomes(local_dist, cleaned) /\ pc' = "save"
           /\ UNCHANGED todo
  <2>1. ~ Complete(local_dist)
    <3> SUFFICES ASSUME Complete(local_dist) PROVE FALSE
      OBVIOUS
    <3>1. Stays(local_dist)
      BY <1>2 DEF CompleteInv
    <3>2. SameData(loaded, before[local_dist], local_dist)
      BY <1>1, <1>2, <3>1, LoadSame DEF Stays
    <3>3. SameData(o, before[local_dist], local_dist)
      BY <1>2, <3>2, ChecksumSame
    <3> QED
      BY <1>4, <3>1, <3>3 DEF SameData, Stays, AsLeft
  <2> HIDE DEF cleaned
  <2> SUFFICES ASSUME NEW d \in Local, Complete(d)' PROVE Stays(d)'
    BY DEF CompleteInv
  <2>2. Complete(d) /\ Stays(d) /\ d # local_dist
    BY <1>1, <2>1 DEF Complete, CompleteInv
  <2>3. obj'[d] = obj[d]
    BY <1>2, <1>4, <2>2 DEF Becomes, TypeOK, Dist
  <2> QED
    BY <1>1, <1>4, <2>2, <2>3 DEF Stays, AsLeft, SameAbout, SameData, local_dist
<1> QED
  BY <1>3, <1>4 DEF CleanAbout

LEMMA StartComplete ==
  ASSUME TypeOK, RunInv, Start
  PROVE  CompleteInv'
<1> SUFFICES ASSUME NEW d \in Local, Complete(d)' PROVE Stays(d)'
  BY DEF CompleteInv
<1>1. /\ pc = "done" /\ pc' = "load" /\ obj'[d] = NoData
      /\ UNCHANGED <<about, notice>> /\ before' = about
  BY DEF Complete, Start, disk, Dist
<1>2. Fetched(d) /\ ~ about[d].extra_data.classifiers
  BY <1>1, AllFetched
<1>3. about[d] \in About /\ notice[d] \in NoticeText \cup {Absent, Empty}
  BY <1>2 DEF Fetched, IsWhole, TypeOK
<1>4. AsLeft(about[d], d) /\ SameAbout(about[d], about[d]) /\ about[d] # Empty
  BY <1>2, <1>3 DEF Fetched, IsWhole, AsLeft, SameAbout
<1> QED
  BY <1>1, <1>4 DEF Stays, AsLeft, SameAbout

LEMMA OtherStepsComplete ==
  ASSUME CompleteInv, FetchLicenses \/ Report \/ Kill \/ \E d \in Rebuilt : Replace(d)
  PROVE  CompleteInv'
<1>1. CASE FetchLicenses
  <2>1. /\ UNCHANGED <<about, notice, before, settled>>
        /\ pc \in {"links", "license", "write_license"}
    BY <1>1 DEF FetchLicenses, ReadLinks, LinksFail, WriteLicense, LicensesFetched,
                SkipLicense, LicenseFails, OpenLicense, disk, licenseVars
  <2>2. obj' \in {obj, [d \in Dist |-> NoData]}
    BY <1>1, ClearedObjects
    DEF FetchLicenses, ReadLinks, LinksFail, WriteLicense, LicensesFetched,
        SkipLicense, LicenseFails, OpenLicense
  <2>3. pc' \in {"ended", "license", "write_license", "load", "report"}
    BY <1>1, AfterSavePc
    DEF FetchLicenses, ReadLinks, LinksFail, WriteLicense, LicensesFetched,
        SkipLicense, LicenseFails, OpenLicense
  <2> QED
    BY <2>1, <2>2, <2>3, ClearedComplete
<1>2. CASE Report \/ Kill
  BY <1>2, ClearedObjects, ClearedComplete DEF Report, Kill, disk
<1>3. CASE \E d \in Rebuilt : Replace(d)
  BY <1>3, ClearedComplete DEF Replace, memory
<1> QED
  BY <1>1, <1>2, <1>3

LEMMA KeepsComplete ==
  TypeOK /\ Working /\ RunInv /\ CompleteInv /\ [Next]_vars => CompleteInv'
<1> SUFFICES ASSUME TypeOK, Working, RunInv, CompleteInv, [Next]_vars PROVE CompleteInv'
  OBVIOUS
<1>1. CASE Next
  BY <1>1, CascadeComplete, SaveComplete, CleanComplete, StartComplete, OtherStepsComplete
  DEF Next
<1>2. CASE UNCHANGED vars
  BY <1>2 DEF vars, disk, memory, CompleteInv, Complete, Stays, AsLeft, SameAbout, SameData,
              local_dist
<1> QED
  BY <1>1, <1>2

LEMMA SameUpToChecksum ==
  ASSUME NEW a, NEW old \in About, SameAbout(a, old)
  PROVE  a = [old EXCEPT !.md5 = a.md5, !.download_url = a.download_url]
BY DEF SameAbout, About

\* A run after a completed one rewrites an ABOUT file that has key metadata at most with
\* another checksum or download URL, whatever the other sources say and wherever the
\* run is killed, but for a file that a kill while it is open leaves empty.
THEOREM CompleteStays == Spec => []CompleteStaysAsItIs
<1>1. Init => CompleteInv
  BY DEF Init, CompleteInv, Complete
<1>2. CompleteInv => CompleteStaysAsItIs
  <2> SUFFICES ASSUME CompleteInv, settled, NEW d \in Local, IsWhole(d),
                      has_key_metadata(before[d])
               PROVE  about[d] = [before[d] EXCEPT !.md5 = about[d].md5,
                                                   !.download_url = about[d].download_url]
    BY DEF CompleteStaysAsItIs
  <2>1. before[d] \in About /\ SameAbout(about[d], before[d])
    BY DEF CompleteInv, Complete, Stays, AsLeft, IsWhole
  <2> QED
    BY <2>1, SameUpToChecksum
<1> QED
  BY <1>1, <1>2, RunCorrect, KeepsComplete, PTL DEF Spec
--------------------------------------------------------------------------------
(***************************************************************************)
(* Another distribution of the same package                                *)
(***************************************************************************)

\* Distribution d had no ABOUT file when the run started; the only other one of its
\* package, e, had one with key metadata, and comes before it.
AskedFirst(d, e) ==
  /\ before[d] = Absent /\ OtherDists(d) = {e} /\ Rank[e] < Rank[d]
  /\ WasWhole(e) /\ before[e].package_url /\ has_key_metadata(before[e])

\* OtherDistIsAsked, for those that are fetched before the distribution that asks them.
EarlierDistIsAsked ==
  pc = "done" => \A d, e \in Local :
    AskedFirst(d, e) => about[d].license_expression = before[e].license_expression

\* The ABOUT file of local_dist is the one that its object gives.
Saved == pc \in {"notice", "write_notice", "links", "license", "write_license"}

\* When d asks, e is in memory with its key metadata, and nobody was asked before it.
Asks(d, e) ==
  /\ phase = "fetch" /\ pc \notin {"ended", "done"} =>
       /\ d \in todo /\ (d # local_dist \/ pc = "load") => about[d] = Absent /\ obj[d] = NoData
       /\ e \notin todo => Keeps(obj[e], before[e])
       /\ d = local_dist /\ pc = "sibling" =>
            /\ others = {e}
            /\ obj[d].license_expression = "" /\ obj[d].copyright = ""
       /\ d = local_dist => pc \notin {"version", "remote", "hosted"}
  /\ pc \in {"save", "write_about"} /\ d = local_dist =>
       obj[d].license_expression = before[e].license_expression
  /\ (/\ pc # "ended" /\ ~ (pc = "write_about" /\ d = local_dist)
      /\ phase = "fetch" => d \notin todo \/ (d = local_dist /\ Saved)) =>
       about[d].license_expression = before[e].license_expression

AsksInv == \A d, e \in Local : AskedFirst(d, e) => Asks(d, e)

\* What keeps the key metadata of another has key metadata itself, with its license.
LEMMA KeptMetadata ==
  ASSUME NEW o, NEW old, Keeps(o, old), has_key_metadata(old)
  PROVE  /\ has_key_metadata(o) /\ o.license_expression = old.license_expression
         /\ old.license_expression # ""
BY DEF Keeps, has_key_metadata

\* A distribution without an ABOUT file gets nothing from it.
LEMMA LoadNothing ==
  ASSUME NEW d, NEW o, about[d] = Absent
  PROVE  load_about_data(o, d) = o
BY DEF load_about_data, WithAbout

\* The earlier distribution of the package is not d, and is through when d is at work.
LEMMA EarlierIsThrough ==
  ASSUME TypeOK, NEW d \in Local, NEW e \in Local, AskedFirst(d, e)
  PROVE  d # e /\ (todo # {} /\ d = local_dist => e \notin todo)
<1>1. Rank[d] \in Nat /\ Rank[e] \in Nat /\ Rank[e] < Rank[d]
  BY FilesAssumption DEF AskedFirst, Dist
<1>2. ASSUME todo # {}, d = local_dist, e \in todo PROVE FALSE
  <2>1. todo \in SUBSET Dist
    BY DEF TypeOK, Dist
  <2>2. Rank[d] <= Rank[e]
    BY <1>2, <2>1, FirstIsLeast DEF local_dist
  <2> QED
    BY <1>1, <2>2
<1> QED
  BY <1>1, <1>2

\* A step of the cascade loads others from their ABOUT files at most, and lets d ask e
\* alone.
LEMMA CascadeStepAsks ==
  ASSUME TypeOK, Working, AsksInv, phase = "fetch",
         pc \in {"load", "sibling", "version", "remote", "hosted"},
         pc' \in {"sibling", "version", "remote", "hosted", "save"},
         UNCHANGED <<about, before, phase, todo>>,
         \A d \in Local : d # local_dist =>
           obj'[d] = obj[d] \/ obj'[d] = load_about_data(obj[d], d),
         \A d, e \in Local : AskedFirst(d, e) /\ d = local_dist =>
           /\ pc' \in {"sibling", "save"}
           /\ pc' = "sibling" => /\ others' = {e} /\ obj'[d].license_expression = ""
                                 /\ obj'[d].copyright = ""
           /\ pc' = "save" => obj'[d].license_expression = before[e].license_expression
  PROVE  AsksInv'
<1> SUFFICES ASSUME NEW d \in Local, NEW e \in Local, AskedFirst(d, e)' PROVE Asks(d, e)'
  BY DEF AsksInv
<1>1. AskedFirst(d, e) /\ Asks(d, e)
  BY DEF AsksInv, AskedFirst, WasWhole
<1>2. local_dist' = local_dist /\ local_dist \in todo
  BY LocalDistAtWork DEF AtDist, local_dist
<1>3. ASSUME d \in todo, d # local_dist
      PROVE  about[d] = Absent /\ obj'[d] = NoData
  BY <1>1, <1>3, LoadNothing DEF Asks
<1>4. ASSUME e \notin todo
      PROVE  Keeps(obj'[e], before[e])
  <2>1. Keeps(obj[e], before[e])
    BY <1>1, <1>4 DEF Asks
  <2>2. Keeps(load_about_data(obj[e], e), before[e])
    BY <2>1, UpdateKeeps DEF load_about_data, WithAbout
  <2> QED
    BY <1>2, <1>4, <2>1, <2>2
<1>5. d \notin todo => about[d].license_expression = before[e].license_expression
  BY <1>1 DEF Asks
<1> QED
  BY <1>1, <1>2, <1>3, <1>4, <1>5 DEF Asks, Saved

LEMMA CascadeAsks ==
  ASSUME TypeOK, Working, Phases, AsksInv, Cascade
  PROVE  AsksInv'
<1>1. /\ pc \in {"load", "sibling", "version", "remote", "hosted"} /\ phase = "fetch"
      /\ pc' \in {"sibling", "version", "remote", "hosted", "save"}
  BY DEF Cascade, LoadAbout, AskOtherDist, NoOtherDist, AskOtherVersion, NoOtherVersion,
         AskServer, AskHostedVersion, ReadPkginfo, TakeFrom, SaveOrAskNext, Phases
<1>2. UNCHANGED <<about, before, phase, todo>>
  BY DEF Cascade, LoadAbout, AskOtherDist, NoOtherDist, AskOtherVersion, NoOtherVersion,
         AskServer, AskHostedVersion, ReadPkginfo, cascadeVars, disk
<1>3. /\ local_dist \in Local /\ local_dist \in Dist /\ local_dist \in todo
      /\ obj[local_dist] \in Data /\ obj \in [Dist -> Data] /\ Local \subseteq Dist
      /\ others \subseteq Dist
  BY <1>1, LocalDistAtWork DEF AtDist, TypeOK, Dist
<1>4. ASSUME NEW d \in Local, NEW e \in Local, AskedFirst(d, e), d = local_dist
      PROVE  /\ pc \in {"load", "sibling"} /\ e \notin todo /\ Keeps(obj[e], before[e])
             /\ pc = "load" => about[d] = Absent /\ obj[d] = NoData
             /\ pc = "sibling" => /\ others = {e} /\ obj[d].license_expression = ""
                                  /\ obj[d].copyright = ""
  BY <1>1, <1>3, <1>4, EarlierIsThrough DEF AsksInv, Asks
<1>5. CASE LoadAbout
  <2> DEFINE loaded == load_about_data(obj[local_dist], local_dist)
             o == set_checksums(loaded, local_dist)
  <2>1. pc = "load" /\ loaded \in Data
    BY <1>3, <1>5, LoadType DEF LoadAbout
  <2>2. o.license_expression = loaded.license_expression /\ o.copyright = loaded.copyright
    BY <2>1, ChecksumKeeps
  <2>3. ASSUME NEW d \in Local, NEW e \in Local, AskedFirst(d, e), d = local_dist
        PROVE  /\ o.license_expression = "" /\ o.copyright = "" /\ ~ has_key_metadata(o)
               /\ OtherDists(local_dist) = {e}
    <3>1. loaded = NoData
      BY <1>4, <2>1, <2>3, LoadNothing
    <3>2. NoData.license_expression = "" /\ NoData.copyright = ""
      BY DEF NoData
    <3>3. o.license_expression = "" /\ o.copyright = ""
      BY <2>2, <3>1, <3>2
    <3> QED
      BY <2>3, <3>3 DEF has_key_metadata, AskedFirst
  <2> HIDE DEF o, loaded
  <2>4. /\ obj' = [obj EXCEPT ![local_dist] = o]
        /\ ~ has_key_metadata(o) => pc' = "sibling" /\ others' = OtherDists(local_dist)
    BY <1>5 DEF LoadAbout, Becomes, o, loaded
  <2>5. \A d \in Local : d # local_dist => obj'[d] = obj[d]
    BY <1>3, <2>4
  <2>6. obj'[local_dist] = o
    BY <1>3, <2>4
  <2>7. \A d, e \in Local : AskedFirst(d, e) /\ d = local_dist =>
          /\ pc' = "sibling" /\ others' = {e} /\ obj'[d].license_expression = ""
          /\ obj'[d].copyright = ""
    BY <2>3, <2>4, <2>6
  <2> QED
    BY <1>1, <1>2, <2>5, <2>7, CascadeStepAsks
<1>6. CASE AskOtherDist
  <2> DEFINE o == update_from_other_dist(obj[local_dist], obj[First(others)])
  <2>1. /\ pc = "sibling" /\ obj' = [obj EXCEPT ![local_dist] = o]
        /\ has_key_metadata(o) => pc' = "save"
    BY <1>6 DEF AskOtherDist, Becomes, SaveOrAskNext
  <2>2. ASSUME NEW d \in Local, NEW e \in Local, AskedFirst(d, e), d = local_dist
        PROVE  o.license_expression = before[e].license_expression /\ has_key_metadata(o)
    <3>1. First(others) = e
      BY <1>3, <1>4, <2>1, <2>2, FirstIsIn
    <3>2. /\ has_key_metadata(obj[e])
          /\ obj[e].license_expression = before[e].license_expression
      BY <1>4, <2>2, KeptMetadata DEF AskedFirst
    <3>3. /\ o.license_expression = obj[e].license_expression
          /\ o.copyright = obj[e].copyright
      BY <1>3, <1>4, <2>1, <2>2, <3>1 DEF update_from_other_dist, ValueOr, Data
    <3> QED
      BY <3>2, <3>3 DEF has_key_metadata
  <2> HIDE DEF o
  <2>3. \A d \in Local : d # local_dist => obj'[d] = obj[d]
    BY <1>3, <2>1
  <2>4. obj'[local_dist] = o
    BY <1>3, <2>1
  <2>5. \A d, e \in Local : AskedFirst(d, e) /\ d = local_dist =>
          pc' = "save" /\ obj'[d].license_expression = before[e].license_expression
    BY <2>1, <2>2, <2>4
  <2> QED
    BY <1>1, <1>2, <2>3, <2>5, CascadeStepAsks
<1>7. CASE NoOtherDist
  <2>1. \A d, e \in Local : ~ (AskedFirst(d, e) /\ d = local_dist)
    BY <1>4, <1>7 DEF NoOtherDist
  <2> QED
    BY <1>1, <1>2, <1>7, <2>1, CascadeStepAsks DEF NoOtherDist
<1>8. ASSUME pc \in {"version", "remote", "hosted"},
             \A d \in Local : d # local_dist =>
               obj'[d] = obj[d] \/ obj'[d] = load_about_data(obj[d], d)
      PROVE  AsksInv'
  <2>1. \A d, e \in Local : ~ (AskedFirst(d, e) /\ d = local_dist)
    BY <1>4, <1>8
  <2> QED
    BY <1>1, <1>2, <1>8, <2>1, CascadeStepAsks
<1>9. CASE AskServer \/ ReadPkginfo
  <2>1. /\ pc \in {"remote", "hosted"}
        /\ \E o : obj' = [obj EXCEPT ![local_dist] = o]
    BY <1>9 DEF AskServer, ReadPkginfo, Becomes
  <2>2. \A d \in Local : d # local_dist => obj'[d] = obj[d]
    BY <1>3, <2>1
  <2> QED
    BY <1>8, <2>1, <2>2
<1>10. CASE AskOtherVersion
  <2> DEFINE x == First(others)
             y == load_about_data(obj[x], x)
  <2>1. pc = "version" /\ \E o : obj' = [obj EXCEPT ![x] = y, ![local_dist] = o]
    BY <1>10 DEF AskOtherVersion, TakeFrom
  <2>2. \A d \in Local : d # local_dist =>
          obj'[d] = obj[d] \/ obj'[d] = load_about_data(obj[d], d)
    BY <1>3, <2>1
  <2> QED
    BY <1>8, <2>1, <2>2
<1>11. CASE AskHostedVersion
  <2> DEFINE x == First(others)
  <2>1. x \in Dist /\ x \notin Local
    BY <1>3, <1>11, FirstIsIn, FilesAssumption DEF AskHostedVersion, Working
  <2>2. pc = "hosted" /\ \E y, o : obj' = [obj EXCEPT ![x] = y, ![local_dist] = o]
    BY <1>11 DEF AskHostedVersion, TakeFrom
  <2>3. \A d \in Local : d # local_dist => obj'[d] = obj[d]
    BY <1>3, <2>1, <2>2
  <2> QED
    BY <1>8, <2>2, <2>3
<1>12. CASE NoOtherVersion
  BY <1>8, <1>12 DEF NoOtherVersion
<1> QED
  BY <1>5, <1>6, <1>7, <1>9, <1>10, <1>11, <1>12 DEF Cascade

\* What the object says of the license and the copyright is written.
LEMMA ToAboutSays ==
  ASSUME NEW o, NEW d
  PROVE  /\ to_about(o, d).license_expression = o.license_expression
         /\ to_about(o, d).copyright = o.copyright
BY DEF to_about

\* The key metadata of an ABOUT file are in the object that its file was written from.
LEMMA SavedKeeps ==
  ASSUME TypeOK, Working, ObjectInv, CuratedInv, NEW e \in Local, Curated(e), Saved,
         e = local_dist
  PROVE  Keeps(obj[e], before[e])
<1>1. about[e] = to_about(obj[e], e)
  BY DEF Saved, ObjectInv
<1>2. Keeps(about[e], before[e])
  BY DEF Saved, CuratedInv, WasWhole, Curated
<1>3. /\ about[e].license_expression = obj[e].license_expression
      /\ about[e].copyright = obj[e].copyright
  BY <1>1, ToAboutSays
<1> QED
  BY <1>2, <1>3 DEF Keeps

\* Going to the next distribution, or to the next phase.
LEMMA NextDistAsks ==
  ASSUME TypeOK, Working, ObjectInv, CuratedInv, Phases, AsksInv, NextDist,
         UNCHANGED <<about, before>>,
         pc \in {"notice", "write_notice", "license"} \/ (pc = "load" /\ phase = "clean")
  PROVE  AsksInv'
<1> SUFFICES ASSUME NEW d \in Local, NEW e \in Local, AskedFirst(d, e)' PROVE Asks(d, e)'
  BY DEF AsksInv
<1>1. AskedFirst(d, e) /\ Asks(d, e)
  BY DEF AsksInv, AskedFirst, WasWhole
<1>2. /\ pc' \in {"load", "report"} /\ pc \notin {"ended", "done", "write_about"}
      /\ local_dist \in todo /\ phase \in {"fetch", "clean"}
  BY AfterSavePc, LocalDistAtWork DEF AtDist, TypeOK
<1>3. ASSUME phase' = "fetch"
      PROVE  /\ phase = "fetch" /\ Saved /\ pc' = "load" /\ todo' = todo \ {local_dist}
             /\ UNCHANGED obj
  BY <1>2, <1>3 DEF NextDist, Saved
<1>4. ASSUME phase' = "fetch", e \notin todo'
      PROVE  Keeps(obj'[e], before[e])
  <2>1. CASE e \notin todo
    BY <1>1, <1>2, <1>3, <1>4, <2>1 DEF Asks
  <2>2. CASE e = local_dist
    BY <1>1, <1>3, <1>4, <2>2, SavedKeeps DEF AskedFirst, Curated
  <2> QED
    BY <1>3, <1>4, <2>1, <2>2
<1>5. ASSUME phase' = "fetch", d \in todo'
      PROVE  about'[d] = Absent /\ obj'[d] = NoData
  BY <1>1, <1>2, <1>3, <1>5 DEF Asks
<1>6. ASSUME phase' = "fetch" => d \notin todo'
      PROVE  about'[d].license_expression = before[e].license_expression
  BY <1>1, <1>2, <1>3, <1>6 DEF Asks, NextDist, Saved
<1> QED
  BY <1>2, <1>3, <1>4, <1>5, <1>6 DEF Asks, Saved

\* A step that only goes on with the files of local_dist.
LEMMA GoingOnAsks ==
  ASSUME AsksInv, Saved, Saved', UNCHANGED <<about, before, todo, phase, obj>>
  PROVE  AsksInv'
<1> SUFFICES ASSUME NEW d \in Local, NEW e \in Local, AskedFirst(d, e)' PROVE Asks(d, e)'
  BY DEF AsksInv
<1>1. AskedFirst(d, e) /\ Asks(d, e) /\ local_dist' = local_dist
  BY DEF AsksInv, AskedFirst, WasWhole, local_dist
<1> QED
  BY <1>1 DEF Asks, Saved

LEMMA SaveAsks ==
  ASSUME TypeOK, Working, RunInv, CuratedInv, AsksInv, Save
  PROVE  AsksInv'
<1>1. /\ local_dist \in Local /\ local_dist \in Dist /\ local_dist \in todo
      /\ obj[local_dist] \in Data /\ UNCHANGED before
  BY LocalDistAtWork
  DEF AtDist, Save, SaveAbout, WriteAbout, SaveNotice, WriteNotice, saveVars
<1>2. CASE SaveAbout
  <2>1. /\ pc = "save" /\ pc' \in {"notice", "write_about"}
        /\ UNCHANGED <<todo, phase, obj, others, before>>
        /\ pc' = "notice" => /\ UNCHANGED about
                             /\ about[local_dist] = to_about(obj[local_dist], local_dist)
        /\ pc' = "write_about" => about' = [about EXCEPT ![local_dist] = Empty]
    BY <1>2 DEF SaveAbout, saveVars
  <2> SUFFICES ASSUME NEW d \in Local, NEW e \in Local, AskedFirst(d, e)' PROVE Asks(d, e)'
    BY DEF AsksInv
  <2>2. AskedFirst(d, e) /\ Asks(d, e)
    BY <1>1 DEF AsksInv, AskedFirst, WasWhole
  <2>3. d # local_dist => about'[d] = about[d]
    BY <1>1, <2>1 DEF TypeOK
  <2>4. d = local_dist /\ pc' = "notice" =>
          about'[d].license_expression = before[e].license_expression
    BY <2>1, <2>2, ToAboutSays DEF Asks
  <2>5. local_dist' = local_dist
    BY <2>1 DEF local_dist
  <2> QED
    BY <1>1, <2>1, <2>2, <2>3, <2>4, <2>5 DEF Asks, Saved
<1>3. CASE WriteAbout
  <2> DEFINE a == to_about(obj[local_dist], local_dist)
  <2>1. /\ pc = "write_about" /\ pc' = "notice"
        /\ UNCHANGED <<todo, phase, obj, others, before>>
        /\ about' = [about EXCEPT ![local_dist] = a]
    BY <1>3 DEF WriteAbout, saveVars
  <2> SUFFICES ASSUME NEW d \in Local, NEW e \in Local, AskedFirst(d, e)' PROVE Asks(d, e)'
    BY DEF AsksInv
  <2>2. AskedFirst(d, e) /\ Asks(d, e)
    BY <1>1 DEF AsksInv, AskedFirst, WasWhole
  <2>3. /\ d # local_dist => about'[d] = about[d]
        /\ d = local_dist => about'[d] = a
    BY <1>1, <2>1 DEF TypeOK
  <2>4. d = local_dist => about'[d].license_expression = before[e].license_expression
    BY <2>1, <2>2, <2>3, ToAboutSays DEF Asks
  <2>5. local_dist' = local_dist
    BY <2>1 DEF local_dist
  <2> HIDE DEF a
  <2> QED
    BY <1>1, <2>1, <2>2, <2>3, <2>4, <2>5 DEF Asks, Saved
<1>4. ASSUME pc \in {"notice", "write_notice"}, pc' \in {"write_notice", "links"},
             pc' = "links" => phase = "fetch", UNCHANGED <<about, todo, phase, obj>>
      PROVE  AsksInv'
  BY <1>1, <1>4, GoingOnAsks DEF Saved
<1>5. CASE SaveNotice \/ WriteNotice
  <2>1. /\ UNCHANGED about /\ pc \in {"notice", "write_notice"}
        /\ \/ AfterSave
           \/ pc' = "write_notice" /\ UNCHANGED <<todo, phase, obj>>
    BY <1>5 DEF SaveNotice, WriteNotice
  <2>2. CASE pc' = "write_notice" /\ UNCHANGED <<todo, phase, obj>>
    BY <1>4, <2>1, <2>2
  <2>3. CASE AfterSave /\ phase = "fetch"
    BY <1>4, <2>1, <2>3 DEF AfterSave
  <2>4. CASE AfterSave /\ phase # "fetch"
    BY <1>1, <2>1, <2>4, NextDistAsks DEF AfterSave, RunInv
  <2> QED
    BY <2>1, <2>2, <2>3, <2>4
<1> QED
  BY <1>2, <1>3, <1>5 DEF Save

LEMMA CleanAsks ==
  ASSUME TypeOK, Working, RunInv, CuratedInv, AsksInv, CleanAbout
  PROVE  AsksInv'
<1> DEFINE loaded == load_about_data(obj[local_dist], local_dist)
           o == set_checksums(loaded, local_dist)
           cleaned == [o EXCEPT !.extra_data.classifiers = FALSE]
<1>1. /\ pc = "load" /\ phase = "clean" /\ UNCHANGED <<about, before>>
      /\ local_dist \in Local /\ local_dist \in Dist /\ local_dist \in todo
  BY LocalDistAtWork DEF AtDist, CleanAbout, disk
<1>2. CASE NextDist
  BY <1>1, <1>2, NextDistAsks DEF RunInv
<1>3. CASE Becomes(local_dist, cleaned) /\ pc' = "save" /\ UNCHANGED <<todo, phase>>
  <2>1. obj[local_dist] = NoData /\ obj[local_dist] \in Data
    BY <1>1, NoDataType DEF RunInv, CleanInv
  <2>2. Fetched(local_dist)
    BY <1>1 DEF RunInv, FilesInv, Through
  <2>3. loaded.license_expression = about[local_dist].license_expression
    BY <1>1, <2>1, <2>2, LoadNew DEF Fetched
  <2>4. cleaned.license_expression = about[local_dist].license_expression
    <3>1. loaded \in Data /\ o \in Data
      BY <1>1, <2>1, LoadType, ChecksumType
    <3> QED
      BY <2>3, <3>1, ChecksumKeeps DEF Data
  <2> HIDE DEF cleaned
  <2> SUFFICES ASSUME NEW d \in Local, NEW e \in Local, AskedFirst(d, e)' PROVE Asks(d, e)'
    BY DEF AsksInv
  <2>5. AskedFirst(d, e) /\ Asks(d, e) /\ local_dist' = local_dist
    BY <1>1, <1>3 DEF AsksInv, AskedFirst, WasWhole, local_dist
  <2>6. d = local_dist => obj'[d] = cleaned
    BY <1>1, <1>3 DEF Becomes, TypeOK
  <2>7. about[d].license_expression = before[e].license_expression
    BY <1>1, <2>5 DEF Asks
  <2> QED
    BY <1>1, <1>3, <2>4, <2>5, <2>6, <2>7 DEF Asks
<1> QED
  BY <1>2, <1>3 DEF CleanAbout

LEMMA OtherStepsAsk ==
  ASSUME TypeOK, Working, RunInv, CuratedInv, AsksInv,
         Start \/ FetchLicenses \/ Report \/ Kill \/ \E d \in Rebuilt : Replace(d)
  PROVE  AsksInv'
<1>1. CASE Start
  <2>1. /\ pc' = "load" /\ phase' = "fetch" /\ todo' = Local /\ UNCHANGED about
        /\ before' = about /\ obj' = [d \in Dist |-> NoData]
    BY <1>1 DEF Start, disk
  <2> SUFFICES ASSUME NEW d \in Local, NEW e \in Local, AskedFirst(d, e)' PROVE Asks(d, e)'
    BY DEF AsksInv
  <2>2. about'[d] = Absent /\ obj'[d] = NoData
    BY <2>1 DEF AskedFirst, Dist
  <2> QED
    BY <2>1, <2>2 DEF Asks, Saved
<1>2. CASE FetchLicenses
  <2>1. /\ UNCHANGED <<about, before>> /\ phase = "fetch"
        /\ pc \in {"links", "license", "write_license"}
        /\ \/ LinksFail
           \/ LicensesFetched
           \/ pc' \in {"license", "write_license"} /\ UNCHANGED <<todo, phase, obj>>
    BY <1>2 DEF FetchLicenses, ReadLinks, LinksFail, WriteLicense, LicensesFetched,
                SkipLicense, LicenseFails, OpenLicense, disk, licenseVars, RunInv, Phases
  <2>2. CASE LinksFail
    <3>1. pc' = "ended"
      BY <2>2 DEF LinksFail
    <3> QED
      BY <3>1 DEF AsksInv, Asks
  <2>3. CASE LicensesFetched
    BY <2>1, <2>3, NextDistAsks DEF LicensesFetched, RunInv
  <2>4. CASE pc' \in {"license", "write_license"} /\ UNCHANGED <<todo, phase, obj>>
    BY <2>1, <2>4, GoingOnAsks DEF Saved
  <2> QED
    BY <2>1, <2>2, <2>3, <2>4
<1>3. CASE Report
  <2>1. /\ pc = "report" /\ phase = "clean" /\ pc' = "done" /\ UNCHANGED <<about, before>>
        /\ phase' = "fetch"
    BY <1>3 DEF Report, disk, ExitProcess, RunInv, Phases
  <2> QED
    BY <2>1 DEF AsksInv, Asks, AskedFirst, WasWhole
<1>4. CASE Kill
  <2>1. pc' = "ended"
    BY <1>4 DEF Kill
  <2> QED
    BY <2>1 DEF AsksInv, Asks
<1>5. CASE \E d \in Rebuilt : Replace(d)
  <2>1. /\ pc \in {"ended", "done"} /\ UNCHANGED <<about, before, pc, phase, todo, obj, others>>
    BY <1>5 DEF Replace, memory
  <2> QED
    BY <2>1 DEF AsksInv, Asks, AskedFirst, WasWhole, Saved, local_dist
<1> QED
  BY <1>1, <1>2, <1>3, <1>4, <1>5

LEMMA KeepsAsks ==
  TypeOK /\ Working /\ RunInv /\ CuratedInv /\ AsksInv /\ [Next]_vars => AsksInv'
<1> SUFFICES ASSUME TypeOK, Working, RunInv, CuratedInv, AsksInv, [Next]_vars
             PROVE  AsksInv'
  OBVIOUS
<1>1. CASE Next
  BY <1>1, CascadeAsks, SaveAsks, CleanAsks, OtherStepsAsk DEF Next, RunInv
<1>2. CASE UNCHANGED vars
  <2> SUFFICES ASSUME NEW d \in Local, NEW e \in Local, AskedFirst(d, e)' PROVE Asks(d, e)'
    BY DEF AsksInv
  <2>1. AskedFirst(d, e) /\ Asks(d, e) /\ local_dist' = local_dist
    BY <1>2 DEF vars, disk, memory, AsksInv, AskedFirst, WasWhole, local_dist
  <2> QED
    BY <1>2, <2>1 DEF vars, disk, memory, Asks, Saved
<1> QED
  BY <1>1, <1>2

\* After a run that ends, a distribution that had no ABOUT file has the license of the
\* other one of its package that had key metadata, if that one comes first in the order of
\* the loop: OtherDistIsAsked fails for a later one only, which is asked before its own
\* ABOUT file was read.
THEOREM EarlierDistsAreAsked == Spec => []EarlierDistIsAsked
<1>1. Init => AsksInv
  BY DEF Init, AsksInv, Asks
<1>2. AsksInv /\ RunInv => EarlierDistIsAsked
  <2> SUFFICES ASSUME AsksInv, pc = "done", NEW d \in Local, NEW e \in Local,
                      AskedFirst(d, e), RunInv
               PROVE  about[d].license_expression = before[e].license_expression
    BY DEF EarlierDistIsAsked
  <2> QED
    BY DEF AsksInv, Asks, RunInv, Phases
<1> QED
  BY <1>1, <1>2, RunCorrect, CuratedCorrect, KeepsAsks, PTL DEF Spec
================================================================================
