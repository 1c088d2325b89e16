---------------------------- MODULE AboutFilesProofs ----------------------------
(***************************************************************************)
(* What AboutFiles keeps true for any distributions, ABOUT files, archives *)
(* and servers.                                                            *)
(***************************************************************************)
EXTENDS AboutFiles, WellFoundedInduction, TLAPS

\* The statements at which some distribution is local_dist.
AtDist == {"load", "sibling", "version", "remote", "hosted", "save", "write_about",
           "notice", "write_notice", "links", "license", "write_license"}

\* Those between the loading of its ABOUT file and the saving.
AfterLoad == {"sibling", "version", "remote", "hosted", "save", "write_about"}

\* While local_dist is at work there is one, and those it asks have its name.
Working ==
  /\ pc \in AtDist => todo # {}
  /\ pc \in {"sibling", "version", "hosted"} =>
       \A d \in others : NameOf(d) = NameOf(local_dist)
  /\ pc = "version" => others \subseteq Local
  /\ pc = "hosted" => others \subseteq Hosted
  /\ pc = "write_notice" => obj[local_dist].notice_text # ""
  /\ pc = "write_license" => file.name \in LicenseFile

USE DEF history

--------------------------------------------------------------------------------
(***************************************************************************)
(* Types                                                                   *)
(***************************************************************************)

\* Every set of distributions has a first one: < on Nat is well-founded.
LEMMA FirstIsLeast ==
  ASSUME NEW S \in SUBSET Dist, S # {}
  PROVE  First(S) \in S /\ \A e \in S : Rank[First(S)] <= Rank[e]
<1> DEFINE Less == {p \in Nat \X Nat : p[1] < p[2]}
           R == {Rank[d] : d \in S}
<1>1. Rank \in [Dist -> Nat]
  BY FilesAssumption
<1>2. IsWellFoundedOn(Less, Nat)
  BY NatLessThanWellFounded DEF OpToRel
<1>3. R \in SUBSET Nat /\ R # {}
  BY <1>1
<1>4. PICK n \in R : \A m \in R : ~ (<<m, n>> \in Less)
  <2> HIDE DEF R, Less
  <2> QED
    BY <1>2, <1>3, WFMin
<1>5. PICK d \in S : Rank[d] = n
  BY <1>4
<1>6. ASSUME NEW e \in S PROVE Rank[d] <= Rank[e]
  <2>1. Rank[d] \in Nat /\ Rank[e] \in Nat /\ Rank[e] \in R
    BY <1>1
  <2>2. ~ (<<Rank[e], Rank[d]>> \in Less)
    BY <1>4, <1>5, <2>1
  <2> QED
    BY <2>1, <2>2
<1> QED
  BY <1>6 DEF First

LEMMA FirstIsIn ==
  ASSUME NEW S \in SUBSET Dist, S # {}
  PROVE  First(S) \in S
BY FirstIsLeast

LEMMA BoundsType ==
  /\ MaxArchive \in Nat /\ 0 \in 0..MaxArchive /\ 1 \in 1..MaxArchive
  /\ MaxRuns \in Nat /\ 0 \in 0..MaxRuns
<1>1. MaxArchive \in Nat \ {0} /\ MaxRuns \in Nat
  BY DataAssumption
<1> QED
  BY <1>1

\* The operators on the fields of a distribution keep their type.
LEMMA UpdateType ==
  ASSUME NEW o \in Data, NEW data \in Data
  PROVE  update(o, data) \in Data /\ update_from_other_dist(o, data) \in Data
<1>1. update(o, data) \in Data
  BY DEF Data, Extra, update, MergeExtra, ValueOr
<1>2. update_from_other_dist(o, data) \in Data
  BY DEF Data, update_from_other_dist, ValueOr
<1> QED
  BY <1>1, <1>2

LEMMA FieldsType ==
  ASSUME NEW a \in About, NEW text \in NoticeText \cup {""}
  PROVE  Fields(a, text) \in Data
BY DEF About, Data, Fields

LEMMA WithAboutType ==
  ASSUME NEW o \in Data, NEW a \in About \cup {Absent, Empty},
         NEW text \in NoticeText \cup {""}
  PROVE  WithAbout(o, a, text) \in Data
<1>1. CASE a \in {Absent, Empty} \/ ~ a.package_url
  BY <1>1 DEF WithAbout
<1>2. CASE ~ (a \in {Absent, Empty} \/ ~ a.package_url)
  <2>1. a \in About
    BY <1>2
  <2> QED
    BY <1>2, <2>1, FieldsType, UpdateType DEF WithAbout
<1> QED
  BY <1>1, <1>2

LEMMA LoadType ==
  ASSUME TypeOK, NEW d \in Local, NEW o \in Data
  PROVE  load_about_data(o, d) \in Data
<1>1. about[d] \in About \cup {Absent, Empty}
  BY DEF TypeOK
<1>2. NoticeTextOf(d) \in NoticeText \cup {""}
  BY DEF TypeOK, NoticeTextOf
<1> QED
  BY <1>1, <1>2, WithAboutType DEF load_about_data

LEMMA RemoteType ==
  ASSUME NEW d \in Dist, NEW o \in Data, NEW x \in BOOLEAN, NEW y \in BOOLEAN
  PROVE  load_remote_about_data(o, d, x, y) \in Data
<1> DEFINE text == IF y /\ RemoteAbout[d].notice_file THEN RemoteNotice[d] ELSE ""
<1>1. RemoteAbout[d] \in About \cup {Absent, Empty} /\ text \in NoticeText \cup {""}
  BY DataAssumption
<1>2. WithAbout(o, RemoteAbout[d], text) \in Data
  BY <1>1, WithAboutType
<1> QED
  BY <1>2 DEF load_remote_about_data

LEMMA PkginfoType ==
  ASSUME NEW d \in Local, NEW o \in Data
  PROVE  load_pkginfo_data(o, d) \in Data
<1>1. CASE PkgInfo[d] = Absent
  BY <1>1 DEF load_pkginfo_data
<1>2. CASE PkgInfo[d] # Absent
  <2> DEFINE data ==
        [license_expression |-> PkgInfo[d].license_expression,
         copyright |-> PkgInfo[d].copyright, notice_text |-> "",
         licenses |-> {}, md5 |-> 0,
         extra_data |-> [license_file |-> "", declared_license |-> TRUE,
                         classifiers |-> PkgInfo[d].classifiers]]
  <2>1. PkgInfo[d] \in ArchiveInfo
    BY <1>2, DataAssumption
  <2>2. data.extra_data \in Extra
    BY <2>1 DEF ArchiveInfo, Extra
  <2>3. data \in Data
    BY <2>1, <2>2, BoundsType DEF ArchiveInfo, Data
  <2> QED
    BY <1>2, <2>3, UpdateType DEF load_pkginfo_data
<1> QED
  BY <1>1, <1>2

LEMMA ChecksumType ==
  ASSUME TypeOK, NEW d \in Local, NEW o \in Data
  PROVE  set_checksums(o, d) \in Data
<1>1. archive[d] \in 1..MaxArchive
  BY DEF TypeOK
<1>2. archive[d] \in 0..MaxArchive
  BY <1>1, BoundsType
<1> QED
  BY <1>2 DEF set_checksums, Data

LEMMA ToAboutType ==
  ASSUME NEW d \in Local, NEW o \in Data
  PROVE  /\ to_about(o, d) \in About /\ to_about(o, d).package_url
         /\ to_about(o, d).license_expression = o.license_expression
         /\ to_about(o, d).copyright = o.copyright
<1>1. /\ o.license_expression \in License \cup {""} /\ o.copyright \in Copyright \cup {""}
      /\ o.extra_data \in Extra /\ o.md5 \in 0..MaxArchive
  BY DEF Data
<1>2. (o.notice_text # "") \in BOOLEAN /\ (NameOf(d) \in readable) \in BOOLEAN
  OBVIOUS
<1> QED
  BY <1>1, <1>2 DEF to_about, About

LEMMA NoDataType == NoData \in Data
BY BoundsType DEF NoData, NoExtra, Data, Extra

LEMMA InitType == Init => TypeOK
<1> SUFFICES ASSUME Init PROVE TypeOK
  OBVIOUS
<1>1. /\ archive \in [Local -> 1..MaxArchive] /\ run \in 0..MaxRuns
      /\ obj \in [Dist -> Data]
  BY BoundsType, NoDataType DEF Init
<1>2. /\ about \in [Local -> About \cup {Absent, Empty}]
      /\ notice \in [Local -> NoticeText \cup {Absent, Empty}]
      /\ found \in [Local -> About \cup {Absent}]
  BY DataAssumption DEF Init
<1> QED
  BY <1>1, <1>2 DEF Init, TypeOK, NoFile

\* What NextDist does to the types of what it changes.
LEMMA NextDistType ==
  ASSUME TypeOK, NextDist
  PROVE  /\ todo' \subseteq Local /\ obj' \in [Dist -> Data] /\ phase' \in {"fetch", "clean"}
         /\ pc' \in {"load", "report"} /\ (pc' \in AtDist => todo' # {})
<1>1. obj' \in [Dist -> Data]
  BY NoDataType DEF NextDist, TypeOK
<1>2. Local # {}
  BY FilesAssumption
<1> QED
  BY <1>1, <1>2 DEF NextDist, TypeOK, AtDist

LEMMA AfterSaveType ==
  ASSUME TypeOK, AfterSave, todo # {}
  PROVE  /\ todo' \subseteq Local /\ obj' \in [Dist -> Data] /\ phase' \in {"fetch", "clean"}
         /\ pc' \in {"load", "report", "links"} /\ (pc' \in AtDist => todo' # {})
<1>1. CASE phase = "fetch"
  BY <1>1 DEF AfterSave, TypeOK
<1>2. CASE phase # "fetch"
  BY <1>2, NextDistType DEF AfterSave
<1> QED
  BY <1>1, <1>2

LEMMA ExitType ==
  ASSUME TypeOK, ExitProcess
  PROVE  /\ todo' \subseteq Local /\ obj' \in [Dist -> Data] /\ phase' \in {"fetch", "clean"}
         /\ others' \subseteq Dist /\ readable' \subseteq Name /\ links' = Absent
         /\ names' \subseteq LicenseFile /\ errors' \subseteq LicenseFile
         /\ file' \in [name : LicenseFile \cup {""}, source : {"links", "licensedb"}]
BY NoDataType DEF ExitProcess, TypeOK, NoFile

\* local_dist exists while it is at work.
LEMMA LocalDistType ==
  ASSUME TypeOK, Working, pc \in AtDist
  PROVE  local_dist \in todo /\ local_dist \in Local
<1>1. todo \in SUBSET Dist /\ todo # {}
  BY DEF TypeOK, Working, Dist
<1> QED
  BY <1>1, FirstIsIn DEF local_dist, TypeOK

\* The steps of the cascade set the fields of distributions, and pc.
LEMMA CascadeType ==
  ASSUME TypeOK, obj' \in [Dist -> Data], others' \subseteq Dist, UNCHANGED cascadeVars,
         pc' \in {"sibling", "version", "remote", "hosted", "save"}
  PROVE  TypeOK'
BY DEF TypeOK, cascadeVars, disk, find_links

\* The distributions asked have the name of d.
LEMMA OthersType ==
  ASSUME NEW d \in Local
  PROVE  /\ \A e \in OtherDists(d) : e \in Local /\ NameOf(e) = NameOf(d)
         /\ \A v : \A e \in LatestOther(Local, v, d) : e \in Local /\ NameOf(e) = NameOf(d)
         /\ \A v : \A e \in LatestOther(Hosted, v, d) : e \in Hosted /\ NameOf(e) = NameOf(d)
BY DEF OtherDists, DistsOf, LatestOther

\* After a step of TakeFrom both objects have their type.
LEMMA TakeFromType ==
  ASSUME TypeOK, NEW x \in Dist, NEW y \in Data, local_dist \in Local, TakeFrom(x, y)
  PROVE  /\ obj' \in [Dist -> Data] /\ others' \subseteq others
         /\ pc' = "save" \/ pc' = pc
<1> DEFINE o == IF has_key_metadata(y) THEN update_from_other_dist(obj[local_dist], y)
                ELSE obj[local_dist]
<1>1. local_dist \in Dist /\ obj \in [Dist -> Data]
  BY DEF TypeOK, Dist
<1>2. o \in Data
  BY <1>1, UpdateType
<1>3. obj' = [obj EXCEPT ![x] = y, ![local_dist] = o] /\ SaveOrAskNext(o)
  BY DEF TakeFrom
<1>4. obj' \in [Dist -> Data]
  BY <1>1, <1>2, <1>3
<1>5. others' \subseteq others /\ (pc' = "save" \/ pc' = pc)
  BY <1>3 DEF SaveOrAskNext
<1> QED
  BY <1>4, <1>5

LEMMA CascadeKeepsType ==
  ASSUME TypeOK, Working, Cascade
  PROVE  TypeOK' /\ Working'
<1> USE DEF AtDist
<1>0. pc \in AtDist
  BY DEF Cascade, LoadAbout, AskOtherDist, NoOtherDist, AskOtherVersion, NoOtherVersion,
         AskServer, AskHostedVersion, ReadPkginfo
<1>1. local_dist \in Local /\ local_dist \in Dist /\ obj[local_dist] \in Data
  BY <1>0, LocalDistType DEF TypeOK, Dist
<1>2. Local \subseteq Dist /\ Hosted \subseteq Dist /\ others \subseteq Dist
  BY DEF Dist, TypeOK
<1>3. todo # {}
  BY <1>0 DEF Working
<1>4. /\ obj' \in [Dist -> Data] /\ others' \subseteq Dist /\ UNCHANGED cascadeVars
      /\ pc' \in {"sibling", "version", "remote", "hosted", "save"}
      /\ pc' \in {"sibling", "version", "hosted"} =>
           \A d \in others' : NameOf(d) = NameOf(local_dist)
      /\ pc' = "version" => others' \subseteq Local
      /\ pc' = "hosted" => others' \subseteq Hosted
  <2>1. CASE LoadAbout
    <3> DEFINE o == set_checksums(load_about_data(obj[local_dist], local_dist), local_dist)
    <3>1. o \in Data
      BY <1>1, LoadType, ChecksumType
    <3>2. obj' = [obj EXCEPT ![local_dist] = o]
      BY <2>1 DEF LoadAbout, Becomes
    <3>3. obj' \in [Dist -> Data]
      BY <1>1, <3>1, <3>2 DEF TypeOK
    <3> QED
      BY <1>1, <1>2, <2>1, <3>3, OthersType DEF LoadAbout
  <2>2. CASE AskOtherDist
    <3> DEFINE x == First(others)
               o == update_from_other_dist(obj[local_dist], obj[x])
    <3>1. x \in Dist
      BY <1>2, <2>2, FirstIsIn DEF AskOtherDist
    <3>2. o \in Data
      BY <1>1, <3>1, UpdateType DEF TypeOK
    <3>3. obj' = [obj EXCEPT ![local_dist] = o] /\ SaveOrAskNext(o)
      BY <2>2 DEF AskOtherDist, Becomes
    <3>4. obj' \in [Dist -> Data]
      BY <1>1, <3>2, <3>3 DEF TypeOK
    <3> QED
      BY <1>2, <2>2, <3>3, <3>4 DEF AskOtherDist, SaveOrAskNext, Working
  <2>3. CASE NoOtherDist
    BY <1>1, <1>2, <2>3, OthersType DEF NoOtherDist, TypeOK
  <2>4. CASE AskOtherVersion
    <3> DEFINE x == First(others)
               y == load_about_data(obj[x], x)
    <3>1. x \in others
      BY <1>2, <2>4, FirstIsIn DEF AskOtherVersion
    <3>2. x \in Local /\ x \in Dist /\ others \subseteq Local
      BY <1>2, <2>4, <3>1 DEF AskOtherVersion, Working
    <3>3. y \in Data
      BY <3>2, LoadType DEF TypeOK
    <3>4. TakeFrom(x, y)
      BY <2>4 DEF AskOtherVersion
    <3>5. /\ obj' \in [Dist -> Data] /\ others' \subseteq others
          /\ pc' = "save" \/ pc' = pc
      BY <1>1, <3>2, <3>3, <3>4, TakeFromType
    <3> QED
      BY <1>2, <2>4, <3>2, <3>5 DEF AskOtherVersion, Working
  <2>5. CASE NoOtherVersion
    BY <1>2, <2>5 DEF NoOtherVersion, TypeOK
  <2>6. CASE AskServer
    <3>1. PICK a, n \in BOOLEAN :
            LET o == load_remote_about_data(obj[local_dist], local_dist, a, n)
            IN  /\ Becomes(local_dist, o)
                /\ IF has_key_metadata(o)
                   THEN pc' = "save" /\ others' = {}
                   ELSE /\ pc' = "hosted"
                        /\ others' = IF NameOf(local_dist) \notin readable THEN {}
                                     ELSE LatestOther(Hosted, HostedVersions(NameOf(local_dist)),
                                                      local_dist)
      BY <2>6 DEF AskServer
    <3>2. load_remote_about_data(obj[local_dist], local_dist, a, n) \in Data
      BY <1>1, RemoteType
    <3>3. obj' \in [Dist -> Data]
      BY <1>1, <3>1, <3>2 DEF TypeOK, Becomes
    <3> QED
      BY <1>1, <1>2, <2>6, <3>1, <3>3, OthersType DEF AskServer
  <2>7. CASE AskHostedVersion
    <3> DEFINE x == First(others)
    <3>1. x \in others /\ x \in Dist
      BY <1>2, <2>7, FirstIsIn DEF AskHostedVersion
    <3>2. PICK a, n \in BOOLEAN : TakeFrom(x, load_remote_about_data(obj[x], x, a, n))
      BY <2>7 DEF AskHostedVersion
    <3>3. load_remote_about_data(obj[x], x, a, n) \in Data
      BY <3>1, RemoteType DEF TypeOK
    <3>4. /\ obj' \in [Dist -> Data] /\ others' \subseteq others
          /\ pc' = "save" \/ pc' = pc
      BY <1>1, <3>1, <3>2, <3>3, TakeFromType
    <3> QED
      BY <1>2, <2>7, <3>4 DEF AskHostedVersion, Working
  <2>8. CASE ReadPkginfo
    <3>1. load_pkginfo_data(obj[local_dist], local_dist) \in Data
      BY <1>1, PkginfoType
    <3>2. obj' \in [Dist -> Data]
      BY <1>1, <2>8, <3>1 DEF ReadPkginfo, Becomes, TypeOK
    <3> QED
      BY <1>2, <2>8, <3>2 DEF ReadPkginfo
  <2> QED
    BY <2>1, <2>2, <2>3, <2>4, <2>5, <2>6, <2>7, <2>8 DEF Cascade
<1> QED
  BY <1>3, <1>4, CascadeType DEF Working, local_dist, cascadeVars

LEMMA SaveKeepsType ==
  ASSUME TypeOK, Working, Save
  PROVE  TypeOK' /\ Working'
<1> USE DEF AtDist
<1>0. pc \in AtDist
  BY DEF Save, SaveAbout, WriteAbout, SaveNotice, WriteNotice
<1>1. local_dist \in Local /\ obj[local_dist] \in Data
  BY <1>0, LocalDistType DEF TypeOK, Dist
<1>2. todo # {}
  BY <1>0 DEF Working
<1>3. to_about(obj[local_dist], local_dist) \in About
  BY <1>1, ToAboutType
<1>4. CASE SaveAbout
  BY <1>1, <1>2, <1>4 DEF SaveAbout, saveVars, TypeOK, Working, find_links
<1>5. CASE WriteAbout
  BY <1>1, <1>2, <1>3, <1>5 DEF WriteAbout, saveVars, TypeOK, Working, find_links
<1>6. CASE SaveNotice
  <2>1. notice' \in [Local -> NoticeText \cup {Absent, Empty}]
    BY <1>6 DEF SaveNotice, TypeOK
  <2>2. CASE AfterSave
    BY <1>2, <1>6, <2>1, <2>2, AfterSaveType
    DEF SaveNotice, saveVars, TypeOK, Working, find_links
  <2>3. CASE /\ pc' = "write_notice" /\ UNCHANGED <<todo, phase, obj>>
             /\ obj[local_dist].notice_text # ""
    BY <1>2, <1>6, <2>1, <2>3 DEF local_dist, SaveNotice, saveVars, TypeOK, Working, find_links
  <2> QED
    BY <1>6, <2>2, <2>3 DEF SaveNotice
<1>7. CASE WriteNotice
  <2>1. notice' \in [Local -> NoticeText \cup {Absent, Empty}]
    BY <1>1, <1>7 DEF WriteNotice, TypeOK, Data, Working
  <2> QED
    BY <1>2, <1>7, <2>1, AfterSaveType
    DEF WriteNotice, saveVars, TypeOK, Working, find_links
<1> QED
  BY <1>4, <1>5, <1>6, <1>7 DEF Save

LEMMA LicenseNamesType ==
  ASSUME NEW o \in Data
  PROVE  LicenseNames(o) \subseteq LicenseFile
<1>1. LicenseKeys[o.license_expression] \subseteq LicenseFile
  BY DataAssumption DEF Data
<1>2. o.extra_data.license_file \in LicenseFile \cup {""}
  BY DEF Data, Extra
<1> QED
  BY <1>1, <1>2 DEF LicenseNames

LEMMA FetchLicensesKeepsType ==
  ASSUME TypeOK, Working, FetchLicenses
  PROVE  TypeOK' /\ Working'
<1> USE DEF AtDist, licenseVars
<1>1. CASE ReadLinks
  <2>1. local_dist \in Local /\ todo # {}
    BY <1>1, LocalDistType DEF ReadLinks, Working
  <2>2. obj[local_dist] \in Data
    BY <2>1 DEF TypeOK, Dist
  <2> QED
    BY <1>1, <2>1, <2>2, LicenseNamesType DEF ReadLinks, TypeOK, Working, find_links
<1>2. CASE LinksFail
  BY <1>2, ExitType DEF LinksFail, TypeOK, Working, disk
<1>3. CASE WriteLicense
  BY <1>3 DEF WriteLicense, TypeOK, Working, find_links
<1>4. CASE LicensesFetched
  BY <1>4, NextDistType DEF LicensesFetched, TypeOK, Working, find_links
<1>5. ASSUME NEW f \in LicenseFile, SkipLicense(f) \/ LicenseFails(f)
      PROVE  TypeOK' /\ Working'
  BY <1>5 DEF SkipLicense, LicenseFails, TypeOK, Working, find_links
<1>6. ASSUME NEW f \in LicenseFile, NEW s \in {"links", "licensedb"}, OpenLicense(f, s)
      PROVE  TypeOK' /\ Working'
  BY <1>6 DEF OpenLicense, TypeOK, Working, find_links
<1> QED
  BY <1>1, <1>2, <1>3, <1>4, <1>5, <1>6 DEF FetchLicenses

LEMMA CleanKeepsType ==
  ASSUME TypeOK, Working, CleanAbout
  PROVE  TypeOK' /\ Working'
<1> USE DEF AtDist, disk
<1> DEFINE o == set_checksums(load_about_data(obj[local_dist], local_dist), local_dist)
           cleaned == [o EXCEPT !.extra_data.classifiers = FALSE]
<1>1. local_dist \in Local /\ local_dist \in Dist /\ obj[local_dist] \in Data /\ todo # {}
  BY LocalDistType DEF CleanAbout, TypeOK, Dist, Working
<1>2. o \in Data
  BY <1>1, LoadType, ChecksumType
<1>3. cleaned \in Data
  BY <1>2 DEF Data, Extra
<1>4. CASE Becomes(local_dist, cleaned) /\ pc' = "save" /\ UNCHANGED <<todo, phase>>
  <2>1. obj' \in [Dist -> Data]
    BY <1>1, <1>3, <1>4 DEF Becomes, TypeOK
  <2> QED
    BY <1>1, <1>4, <2>1 DEF CleanAbout, TypeOK, Working, find_links
<1>5. CASE NextDist
  BY <1>5, NextDistType DEF CleanAbout, TypeOK, Working, find_links
<1> QED
  BY <1>4, <1>5 DEF CleanAbout

LEMMA OtherStepsKeepType ==
  ASSUME TypeOK, Working, Start \/ Report \/ Kill \/ \E d \in Rebuilt : Replace(d)
  PROVE  TypeOK' /\ Working'
<1> USE DEF AtDist, disk
<1>1. CASE Start
  <2>0. run \in 0..MaxRuns /\ run < MaxRuns /\ run' = run + 1
    BY <1>1 DEF Start, TypeOK
  <2>1. run' \in 0..MaxRuns
    BY <2>0, BoundsType
  <2>2. Local # {} /\ obj' \in [Dist -> Data]
    BY <1>1, FilesAssumption, NoDataType DEF Start
  <2> QED
    BY <1>1, <2>1, <2>2 DEF Start, TypeOK, Working, NoFile
<1>2. CASE Report
  <2>1. find_problems \subseteq Local \X {"key metadata", "classifiers", "checksums"}
    <3> DEFINE Kinds == {"key metadata", "classifiers", "checksums"}
    <3>1. \A S \in SUBSET Local, k \in Kinds : {<<d, k>> : d \in S} \subseteq Local \X Kinds
      <4> SUFFICES ASSUME NEW S \in SUBSET Local, NEW k \in Kinds, NEW d \in S
                   PROVE  <<d, k>> \in Local \X Kinds
        OBVIOUS
      <4> QED
        OBVIOUS
    <3> QED
      BY <3>1 DEF find_problems
  <2>2. problems' \subseteq Local \X {"key metadata", "classifiers", "checksums"}
    BY <1>2, <2>1 DEF Report
  <2> QED
    BY <1>2, <2>2, ExitType DEF Report, TypeOK, Working
<1>3. CASE Kill
  <2>1. OpenFile \subseteq Local \cup LicenseFile
    BY LocalDistType DEF OpenFile, Working
  <2> QED
    BY <1>3, <2>1, ExitType DEF Kill, TypeOK, Working
<1>4. ASSUME NEW d \in Rebuilt, Replace(d) PROVE TypeOK' /\ Working'
  <2>0. d \in Local /\ archive[d] \in 1..MaxArchive /\ archive[d] < MaxArchive
    BY <1>4, DataAssumption DEF Replace, TypeOK
  <2>1. archive[d] + 1 \in 1..MaxArchive
    BY <2>0, BoundsType
  <2>2. archive' \in [Local -> 1..MaxArchive]
    BY <1>4, <2>1 DEF Replace, TypeOK
  <2> QED
    BY <1>4, <2>2 DEF Replace, memory, TypeOK, Working, find_links, local_dist
<1> QED
  BY <1>1, <1>2, <1>3, <1>4

LEMMA KeepsType == TypeOK /\ Working /\ [Next]_vars => TypeOK' /\ Working'
<1> SUFFICES ASSUME TypeOK, Working, [Next]_vars PROVE TypeOK' /\ Working'
  OBVIOUS
<1>1. CASE Next
  BY <1>1, CascadeKeepsType, SaveKeepsType, FetchLicensesKeepsType, CleanKeepsType,
     OtherStepsKeepType DEF Next
<1>2. CASE UNCHANGED vars
  <2>1. TypeOK'
    BY <1>2 DEF vars, disk, memory, TypeOK, find_links
  <2>2. Working'
    BY <1>2 DEF vars, disk, memory, Working, local_dist
  <2> QED
    BY <2>1, <2>2
<1> QED
  BY <1>1, <1>2

\* Every variable keeps its type, for any distributions, files and bounds.
THEOREM TypeCorrect == Spec => []TypeOK
<1>1. Init => TypeOK /\ Working
  BY InitType DEF Init, Working, AtDist
<1> QED
  BY <1>1, KeepsType, PTL DEF Spec

--------------------------------------------------------------------------------
(***************************************************************************)
(* Copyright statements                                                    *)
(***************************************************************************)

\* Taking over what is one's own leaves what is one's own.
LEMMA UpdateOwn ==
  ASSUME NEW d, NEW o, NEW data, IsOwn(d, o.copyright), IsOwn(d, data.copyright)
  PROVE  /\ IsOwn(d, update(o, data).copyright)
         /\ o \in Data => IsOwn(d, update_from_other_dist(o, data).copyright)
BY DEF update, update_from_other_dist, ValueOr, IsOwn, Data

LEMMA WithAboutOwn ==
  ASSUME NEW d, NEW o, NEW a, NEW text, IsOwn(d, o.copyright),
         a \notin {Absent, Empty} /\ a.package_url => IsOwn(d, a.copyright)
  PROVE  IsOwn(d, WithAbout(o, a, text).copyright)
<1>1. CASE a \in {Absent, Empty} \/ ~ a.package_url
  BY <1>1 DEF WithAbout
<1>2. CASE ~ (a \in {Absent, Empty} \/ ~ a.package_url)
  <2>1. IsOwn(d, Fields(a, text).copyright)
    BY <1>2 DEF Fields
  <2> QED
    BY <1>2, <2>1, UpdateOwn DEF WithAbout
<1> QED
  BY <1>1, <1>2

LEMMA LoadOwn ==
  ASSUME OwnCopyright, NEW d \in Local, NEW o, IsOwn(d, o.copyright)
  PROVE  IsOwn(d, load_about_data(o, d).copyright)
BY WithAboutOwn DEF load_about_data, OwnCopyright, IsWhole

LEMMA RemoteOwn ==
  ASSUME NEW d \in Dist, NEW o, NEW x, NEW y, IsOwn(d, o.copyright)
  PROVE  IsOwn(d, load_remote_about_data(o, d, x, y).copyright)
<1> DEFINE text == IF y /\ RemoteAbout[d].notice_file THEN RemoteNotice[d] ELSE ""
<1>1. CASE x /\ RemoteAbout[d] # Absent
  <2>1. RemoteAbout[d].package_url => IsOwn(d, RemoteAbout[d].copyright)
    BY <1>1, HolderAssumption
  <2>2. IsOwn(d, WithAbout(o, RemoteAbout[d], text).copyright)
    BY <2>1, WithAboutOwn
  <2> QED
    BY <1>1, <2>2 DEF load_remote_about_data
<1>2. CASE ~ (x /\ RemoteAbout[d] # Absent)
  BY <1>2 DEF load_remote_about_data
<1> QED
  BY <1>1, <1>2

LEMMA PkginfoOwn ==
  ASSUME NEW d \in Local, NEW o, IsOwn(d, o.copyright)
  PROVE  IsOwn(d, load_pkginfo_data(o, d).copyright)
<1>1. CASE PkgInfo[d] = Absent
  BY <1>1 DEF load_pkginfo_data
<1>2. CASE PkgInfo[d] # Absent
  <2>1. IsOwn(d, PkgInfo[d].copyright)
    BY <1>2, HolderAssumption
  <2> QED
    BY <1>2, <2>1, UpdateOwn DEF load_pkginfo_data
<1> QED
  BY <1>1, <1>2

\* A package of the same name may be asked.
LEMMA SameNameOwn ==
  ASSUME NEW d, NEW e, NameOf(d) = NameOf(e), NEW c, IsOwn(e, c)
  PROVE  IsOwn(d, c)
BY DEF IsOwn, NameOf

LEMMA ChecksumKeeps ==
  ASSUME NEW o \in Data, NEW d
  PROVE  /\ set_checksums(o, d).copyright = o.copyright
         /\ set_checksums(o, d).license_expression = o.license_expression
BY DEF set_checksums, Data

\* Distributions x and local_dist change: what both become is their own.
LEMMA TakeFromOwn ==
  ASSUME TypeOK, OwnCopyright, local_dist \in Local, NEW x \in Dist, NEW y \in Data,
         NameOf(x) = NameOf(local_dist), IsOwn(x, y.copyright), TakeFrom(x, y),
         UNCHANGED about
  PROVE  OwnCopyright'
<1> DEFINE o == IF has_key_metadata(y) THEN update_from_other_dist(obj[local_dist], y)
                ELSE obj[local_dist]
<1>1. local_dist \in Dist /\ obj \in [Dist -> Data]
  BY DEF TypeOK, Dist
<1>2. IsOwn(local_dist, obj[local_dist].copyright) /\ IsOwn(local_dist, y.copyright)
  BY <1>1, SameNameOwn DEF OwnCopyright
<1>3. IsOwn(local_dist, o.copyright)
  BY <1>1, <1>2, UpdateOwn
<1>4. obj' = [obj EXCEPT ![x] = y, ![local_dist] = o]
  BY DEF TakeFrom
<1>5. \A d \in Dist : IsOwn(d, obj'[d].copyright)
  BY <1>1, <1>3, <1>4 DEF OwnCopyright
<1> QED
  BY <1>5 DEF OwnCopyright, IsWhole

\* So it is when only local_dist becomes o.
LEMMA BecomesOwn ==
  ASSUME TypeOK, OwnCopyright, local_dist \in Dist, NEW o, IsOwn(local_dist, o.copyright),
         Becomes(local_dist, o), UNCHANGED about
  PROVE  OwnCopyright'
BY DEF Becomes, OwnCopyright, IsWhole, TypeOK

\* A step that leaves the ABOUT files, and the objects or clears them.
LEMMA ClearedOwn ==
  ASSUME OwnCopyright, UNCHANGED about, obj' \in {obj, [d \in Dist |-> NoData]}
  PROVE  OwnCopyright'
<1>1. \A d \in Dist : IsOwn(d, NoData.copyright)
  BY DEF IsOwn, NoData
<1> QED
  BY <1>1 DEF OwnCopyright, IsWhole

\* NextDist, AfterSave and ExitProcess are of that kind.
LEMMA ClearedObjects ==
  /\ NextDist \/ AfterSave => obj' \in {obj, [d \in Dist |-> NoData]}
  /\ ExitProcess => obj' \in {obj, [d \in Dist |-> NoData]}
BY DEF NextDist, AfterSave, ExitProcess

LEMMA CascadeOwn ==
  ASSUME TypeOK, Working, OwnCopyright, Cascade
  PROVE  OwnCopyright'
<1> USE DEF AtDist
<1>0. pc \in AtDist
  BY DEF Cascade, LoadAbout, AskOtherDist, NoOtherDist, AskOtherVersion, NoOtherVersion,
         AskServer, AskHostedVersion, ReadPkginfo
<1>1. local_dist \in Local /\ local_dist \in Dist /\ obj[local_dist] \in Data
  BY <1>0, LocalDistType DEF TypeOK, Dist
<1>2. Local \subseteq Dist /\ Hosted \subseteq Dist /\ others \subseteq Dist
  BY DEF Dist, TypeOK
<1>3. UNCHANGED about
  BY DEF Cascade, LoadAbout, AskOtherDist, NoOtherDist, AskOtherVersion, NoOtherVersion,
         AskServer, AskHostedVersion, ReadPkginfo, cascadeVars, disk
<1>4. IsOwn(local_dist, obj[local_dist].copyright)
  BY <1>1 DEF OwnCopyright
<1>5. CASE LoadAbout
  <2> DEFINE loaded == load_about_data(obj[local_dist], local_dist)
  <2>1. loaded \in Data /\ IsOwn(local_dist, loaded.copyright)
    BY <1>1, <1>4, LoadType, LoadOwn
  <2>2. IsOwn(local_dist, set_checksums(loaded, local_dist).copyright)
    BY <2>1, ChecksumKeeps
  <2> QED
    BY <1>1, <1>3, <1>5, <2>2, BecomesOwn DEF LoadAbout
<1>6. CASE AskOtherDist
  <2> DEFINE x == First(others)
             o == update_from_other_dist(obj[local_dist], obj[x])
  <2>1. x \in others /\ x \in Dist
    BY <1>2, <1>6, FirstIsIn DEF AskOtherDist
  <2>2. IsOwn(local_dist, obj[x].copyright)
    BY <1>6, <2>1, SameNameOwn DEF AskOtherDist, Working, OwnCopyright
  <2>3. IsOwn(local_dist, o.copyright)
    BY <1>1, <1>4, <2>2, UpdateOwn
  <2> QED
    BY <1>1, <1>3, <1>6, <2>3, BecomesOwn DEF AskOtherDist
<1>7. CASE AskOtherVersion
  <2> DEFINE x == First(others)
             y == load_about_data(obj[x], x)
  <2>1. x \in others
    BY <1>2, <1>7, FirstIsIn DEF AskOtherVersion
  <2>2. x \in Local /\ x \in Dist /\ NameOf(x) = NameOf(local_dist)
    BY <1>2, <1>7, <2>1 DEF AskOtherVersion, Working
  <2>3. y \in Data /\ IsOwn(x, y.copyright)
    BY <2>2, LoadType, LoadOwn DEF TypeOK, OwnCopyright
  <2>4. TakeFrom(x, y)
    BY <1>7 DEF AskOtherVersion
  <2> QED
    BY <1>1, <1>3, <2>2, <2>3, <2>4, TakeFromOwn
<1>8. CASE AskServer
  <2>1. PICK a, n \in BOOLEAN :
          Becomes(local_dist, load_remote_about_data(obj[local_dist], local_dist, a, n))
    BY <1>8 DEF AskServer
  <2>2. IsOwn(local_dist,
              load_remote_about_data(obj[local_dist], local_dist, a, n).copyright)
    BY <1>1, <1>4, RemoteOwn
  <2> QED
    BY <1>1, <1>3, <2>1, <2>2, BecomesOwn
<1>9. CASE AskHostedVersion
  <2> DEFINE x == First(others)
  <2>1. x \in others /\ x \in Dist
    BY <1>2, <1>9, FirstIsIn DEF AskHostedVersion
  <2>2. NameOf(x) = NameOf(local_dist)
    BY <1>9, <2>1 DEF AskHostedVersion, Working
  <2>3. PICK a, n \in BOOLEAN : TakeFrom(x, load_remote_about_data(obj[x], x, a, n))
    BY <1>9 DEF AskHostedVersion
  <2> DEFINE y == load_remote_about_data(obj[x], x, a, n)
  <2>4. y \in Data /\ IsOwn(x, y.copyright)
    BY <2>1, RemoteType, RemoteOwn DEF TypeOK, OwnCopyright
  <2> QED
    BY <1>1, <1>3, <2>1, <2>2, <2>3, <2>4, TakeFromOwn
<1>10. CASE ReadPkginfo
  <2>1. IsOwn(local_dist, load_pkginfo_data(obj[local_dist], local_dist).copyright)
    BY <1>1, <1>4, PkginfoOwn
  <2> QED
    BY <1>1, <1>3, <1>10, <2>1, BecomesOwn DEF ReadPkginfo
<1>11. CASE NoOtherDist \/ NoOtherVersion
  BY <1>3, <1>11, ClearedOwn DEF NoOtherDist, NoOtherVersion
<1> QED
  BY <1>5, <1>6, <1>7, <1>8, <1>9, <1>10, <1>11 DEF Cascade

LEMMA SaveOwn ==
  ASSUME TypeOK, Working, OwnCopyright, Save
  PROVE  OwnCopyright'
<1>1. local_dist \in Local /\ local_dist \in Dist /\ obj[local_dist] \in Data
  BY LocalDistType
  DEF Save, SaveAbout, WriteAbout, SaveNotice, WriteNotice, AtDist, TypeOK, Dist
<1>2. obj' \in {obj, [d \in Dist |-> NoData]}
  BY ClearedObjects DEF Save, SaveAbout, WriteAbout, SaveNotice, WriteNotice
<1>3. CASE UNCHANGED about
  BY <1>2, <1>3, ClearedOwn
<1>4. CASE SaveAbout /\ ~ UNCHANGED about
  <2>1. about' = [about EXCEPT ![local_dist] = Empty] /\ UNCHANGED obj
    BY <1>4 DEF SaveAbout
  <2> QED
    BY <1>1, <2>1 DEF OwnCopyright, IsWhole, TypeOK
<1>5. CASE WriteAbout
  <2> DEFINE a == to_about(obj[local_dist], local_dist)
  <2>1. about' = [about EXCEPT ![local_dist] = a] /\ UNCHANGED obj
    BY <1>5 DEF WriteAbout
  <2>2. IsOwn(local_dist, a.copyright)
    BY <1>1, ToAboutType DEF OwnCopyright
  <2> QED
    BY <1>1, <2>1, <2>2 DEF OwnCopyright, IsWhole, TypeOK
<1> QED
  BY <1>3, <1>4, <1>5 DEF Save, SaveNotice, WriteNotice

LEMMA CleanOwn ==
  ASSUME TypeOK, Working, OwnCopyright, CleanAbout
  PROVE  OwnCopyright'
<1> DEFINE loaded == load_about_data(obj[local_dist], local_dist)
           o == set_checksums(loaded, local_dist)
           cleaned == [o EXCEPT !.extra_data.classifiers = FALSE]
<1>1. local_dist \in Local /\ local_dist \in Dist /\ obj[local_dist] \in Data
  BY LocalDistType DEF CleanAbout, AtDist, TypeOK, Dist
<1>2. loaded \in Data /\ IsOwn(local_dist, loaded.copyright)
  BY <1>1, LoadType, LoadOwn DEF OwnCopyright
<1>3. o \in Data /\ IsOwn(local_dist, o.copyright)
  BY <1>1, <1>2, ChecksumType, ChecksumKeeps
<1>4. cleaned.copyright = o.copyright
  BY <1>3 DEF Data
<1>5. UNCHANGED about
  BY DEF CleanAbout, disk
<1>6. CASE Becomes(local_dist, cleaned)
  BY <1>1, <1>3, <1>4, <1>5, <1>6, BecomesOwn
<1>7. CASE NextDist
  BY <1>5, <1>7, ClearedObjects, ClearedOwn
<1> QED
  BY <1>6, <1>7 DEF CleanAbout

\* The other actions leave the ABOUT files, and the objects or clear them.
LEMMA OtherStepsOwn ==
  ASSUME OwnCopyright,
         Start \/ FetchLicenses \/ Report \/ Kill \/ \E d \in Rebuilt : Replace(d)
  PROVE  OwnCopyright'
<1>1. UNCHANGED about
  BY DEF Start, FetchLicenses, ReadLinks, LinksFail, WriteLicense, LicensesFetched,
         SkipLicense, LicenseFails, OpenLicense, Report, Kill, Replace, disk, licenseVars
<1>2. obj' \in {obj, [d \in Dist |-> NoData]}
  BY ClearedObjects
  DEF Start, FetchLicenses, ReadLinks, LinksFail, WriteLicense, LicensesFetched,
      SkipLicense, LicenseFails, OpenLicense, Report, Kill, Replace, memory
<1> QED
  BY <1>1, <1>2, ClearedOwn

LEMMA InitOwn == Init => OwnCopyright
<1> SUFFICES ASSUME Init PROVE OwnCopyright
  OBVIOUS
<1>1. ASSUME NEW d \in Local, IsWhole(d), about[d].package_url
      PROVE  IsOwn(d, about[d].copyright)
  BY <1>1, HolderAssumption DEF Init, IsWhole
<1>2. \A d \in Dist : IsOwn(d, obj[d].copyright)
  BY DEF Init, NoData, IsOwn
<1> QED
  BY <1>1, <1>2 DEF OwnCopyright

\* No ABOUT file, and no object in memory, ever gets the copyright statement of a
\* package of another name.
THEOREM CopyrightIsOwn == Spec => []OwnCopyright
<1>1. Init => TypeOK /\ Working /\ OwnCopyright
  BY InitType, InitOwn DEF Init, Working, AtDist
<1>2. TypeOK /\ Working /\ OwnCopyright /\ [Next]_vars => OwnCopyright'
  <2> SUFFICES ASSUME TypeOK, Working, OwnCopyright, [Next]_vars PROVE OwnCopyright'
    OBVIOUS
  <2>1. CASE Next
    BY <2>1, CascadeOwn, SaveOwn, CleanOwn, OtherStepsOwn DEF Next
  <2>2. CASE UNCHANGED vars
    BY <2>2, ClearedOwn DEF vars, disk, memory
  <2> QED
    BY <2>1, <2>2
<1> QED
  BY <1>1, <1>2, KeepsType, PTL DEF Spec

--------------------------------------------------------------------------------
(***************************************************************************)
(* Curated data in one run                                                 *)
(***************************************************************************)

\* The run found an ABOUT file of the distribution.
Curated(d) == WasWhole(d) /\ before[d].package_url

\* What old says of the license and the copyright, new says too.
Keeps(new, old) ==
  /\ old.license_expression \in {"", new.license_expression}
  /\ old.copyright \in {"", new.copyright}

\* o says nothing else than old.
Agrees(o, old) ==
  /\ o.license_expression = "" \/ old.license_expression \in {"", o.license_expression}
  /\ o.copyright = "" \/ old.copyright \in {"", o.copyright}

\* What the run found is kept, and why: the ABOUT file is only away while it is rewritten
\* from the object of local_dist, which has all that was in it since it was loaded; and
\* what other objects have that were loaded as other versions agrees with it.
CuratedInv ==
  \A d \in Local : Curated(d) =>
    /\ IsWhole(d) => about[d].package_url /\ Keeps(about[d], before[d])
    /\ pc \notin {"ended", "done"} /\ ~ (pc = "write_about" /\ d = local_dist) => IsWhole(d)
    /\ Agrees(obj[d], before[d])
    /\ pc \in AfterLoad /\ d = local_dist => Keeps(obj[d], before[d])

LEMMA UpdateKeeps ==
  ASSUME NEW o, NEW data, NEW old, Keeps(o, old)
  PROVE  /\ Keeps(update(o, data), old)
         /\ o \in Data => Keeps(update_from_other_dist(o, data), old)
BY DEF Keeps, update, update_from_other_dist, ValueOr, Data

LEMMA UpdateAgrees ==
  ASSUME NEW o, NEW data, NEW old, Agrees(o, old), Keeps(data, old)
  PROVE  Keeps(update(o, data), old)
BY DEF Keeps, Agrees, update, ValueOr

\* Loading the ABOUT file gives the object all that was in it.
LEMMA LoadKeeps ==
  ASSUME CuratedInv, NEW d \in Local, Curated(d), IsWhole(d), NEW o, Agrees(o, before[d])
  PROVE  Keeps(load_about_data(o, d), before[d])
<1>1. about[d].package_url /\ Keeps(about[d], before[d])
  BY DEF CuratedInv
<1>2. Keeps(Fields(about[d], NoticeTextOf(d)), before[d])
  BY <1>1 DEF Keeps, Fields
<1> QED
  BY <1>1, <1>2, UpdateAgrees DEF load_about_data, WithAbout, IsWhole

LEMMA RemoteKeeps ==
  ASSUME NEW d, NEW o, NEW x, NEW y, NEW old, Keeps(o, old)
  PROVE  Keeps(load_remote_about_data(o, d, x, y), old)
BY UpdateKeeps DEF load_remote_about_data, WithAbout

LEMMA ChecksumKeepsData ==
  ASSUME NEW o \in Data, NEW d, NEW old, Keeps(o, old)
  PROVE  Keeps(set_checksums(o, d), old)
BY ChecksumKeeps DEF Keeps

LEMMA KeepsAgrees ==
  ASSUME NEW o, NEW old, Keeps(o, old)
  PROVE  Agrees(o, old)
BY DEF Keeps, Agrees

LEMMA NoDataAgrees ==
  ASSUME NEW old
  PROVE  Agrees(NoData, old)
BY DEF Agrees, NoData

\* local_dist becomes o, in a step that leaves the files.
LEMMA BecomesCurated ==
  ASSUME TypeOK, CuratedInv, local_dist \in Local, NEW o, Becomes(local_dist, o),
         Curated(local_dist) => Keeps(o, before[local_dist]),
         UNCHANGED <<about, before, todo>>,
         pc \notin {"ended", "done", "write_about"},
         pc' \notin {"ended", "done", "write_about"}
  PROVE  CuratedInv'
<1> SUFFICES ASSUME NEW d \in Local, Curated(d)'
             PROVE  /\ IsWhole(d) /\ about[d].package_url /\ Keeps(about[d], before[d])
                    /\ Agrees(obj'[d], before[d])
                    /\ d = local_dist => Keeps(obj'[d], before[d])
  BY DEF CuratedInv, IsWhole, local_dist
<1>1. Curated(d)
  BY DEF Curated, WasWhole
<1>2. /\ IsWhole(d) /\ about[d].package_url /\ Keeps(about[d], before[d])
      /\ Agrees(obj[d], before[d])
  BY <1>1 DEF CuratedInv
<1>3. obj' = [obj EXCEPT ![local_dist] = o] /\ d \in Dist /\ local_dist \in Dist
  BY DEF Becomes, Dist
<1>4. CASE d = local_dist
  BY <1>1, <1>2, <1>3, <1>4, KeepsAgrees DEF TypeOK
<1>5. CASE d # local_dist
  BY <1>2, <1>3, <1>5 DEF TypeOK
<1> QED
  BY <1>4, <1>5

\* Distribution x becomes y, and local_dist may take over what it lacks.
LEMMA TakeFromCurated ==
  ASSUME TypeOK, CuratedInv, local_dist \in Local, NEW x \in Dist, NEW y \in Data,
         TakeFrom(x, y), x \in Local /\ Curated(x) => Agrees(y, before[x]),
         UNCHANGED <<about, before, todo>>, pc \in {"version", "hosted"}
  PROVE  CuratedInv'
<1> DEFINE o == IF has_key_metadata(y) THEN update_from_other_dist(obj[local_dist], y)
                ELSE obj[local_dist]
<1>1. pc' \in {"version", "hosted", "save"}
  BY DEF TakeFrom, SaveOrAskNext
<1> SUFFICES ASSUME NEW d \in Local, Curated(d)'
             PROVE  /\ IsWhole(d) /\ about[d].package_url /\ Keeps(about[d], before[d])
                    /\ Agrees(obj'[d], before[d])
                    /\ d = local_dist => Keeps(obj'[d], before[d])
  BY <1>1 DEF CuratedInv, IsWhole, local_dist
<1>2. Curated(d)
  BY DEF Curated, WasWhole
<1>3. /\ IsWhole(d) /\ about[d].package_url /\ Keeps(about[d], before[d])
      /\ Agrees(obj[d], before[d]) /\ (d = local_dist => Keeps(obj[d], before[d]))
  BY <1>2 DEF CuratedInv, AfterLoad
<1>4. /\ obj' = [obj EXCEPT ![x] = y, ![local_dist] = o]
      /\ d \in Dist /\ local_dist \in Dist /\ obj[local_dist] \in Data
  BY DEF TakeFrom, TypeOK, Dist
<1>5. CASE d = local_dist
  <2>1. obj'[d] = o
    BY <1>4, <1>5 DEF TypeOK
  <2>2. Keeps(o, before[d])
    BY <1>3, <1>4, <1>5, UpdateKeeps
  <2> QED
    BY <1>3, <2>1, <2>2, KeepsAgrees
<1>6. CASE d # local_dist /\ d = x
  <2>1. obj'[d] = y
    BY <1>4, <1>6 DEF TypeOK
  <2> QED
    BY <1>2, <1>3, <1>6, <2>1
<1>7. CASE d # local_dist /\ d # x
  <2>1. obj'[d] = obj[d]
    BY <1>4, <1>7 DEF TypeOK
  <2> QED
    BY <1>3, <1>7, <2>1
<1> QED
  BY <1>5, <1>6, <1>7

\* A step that leaves the ABOUT files, and the objects or clears them.
LEMMA ClearedCurated ==
  ASSUME CuratedInv, UNCHANGED <<about, before>>, obj' \in {obj, [d \in Dist |-> NoData]},
         pc' \notin AfterLoad,
         pc' \in {"ended", "done"} \/ pc \notin {"ended", "done", "write_about"}
  PROVE  CuratedInv'
<1> SUFFICES ASSUME NEW d \in Local, Curated(d)'
             PROVE  /\ IsWhole(d) => about[d].package_url /\ Keeps(about[d], before[d])
                    /\ pc' \notin {"ended", "done"} => IsWhole(d)
                    /\ Agrees(obj'[d], before[d])
  BY DEF CuratedInv, IsWhole
<1>1. Curated(d) /\ d \in Dist
  BY DEF Curated, WasWhole, Dist
<1>2. /\ IsWhole(d) => about[d].package_url /\ Keeps(about[d], before[d])
      /\ pc' \notin {"ended", "done"} => IsWhole(d)
      /\ Agrees(obj[d], before[d])
  BY <1>1 DEF CuratedInv
<1>3. Agrees(obj'[d], before[d])
  BY <1>1, <1>2, NoDataAgrees
<1> QED
  BY <1>2, <1>3

LEMMA CascadeCurated ==
  ASSUME TypeOK, Working, CuratedInv, Cascade
  PROVE  CuratedInv'
<1> USE DEF AtDist, cascadeVars, disk
<1>0. pc \in AtDist
  BY DEF Cascade, LoadAbout, AskOtherDist, NoOtherDist, AskOtherVersion, NoOtherVersion,
         AskServer, AskHostedVersion, ReadPkginfo
<1>1. local_dist \in Local /\ local_dist \in Dist /\ obj[local_dist] \in Data
  BY <1>0, LocalDistType DEF TypeOK, Dist
<1>2. Local \subseteq Dist /\ others \subseteq Dist
  BY DEF Dist, TypeOK
<1>3. UNCHANGED <<about, before, todo>>
  BY DEF Cascade, LoadAbout, AskOtherDist, NoOtherDist, AskOtherVersion, NoOtherVersion,
         AskServer, AskHostedVersion, ReadPkginfo
<1>4. ASSUME NEW d \in Local, Curated(d), pc \in AtDist \ {"write_about"}
      PROVE  IsWhole(d) /\ Agrees(obj[d], before[d])
  BY <1>4 DEF CuratedInv
<1>5. ASSUME Curated(local_dist), pc \in AfterLoad
      PROVE  Keeps(obj[local_dist], before[local_dist])
  BY <1>1, <1>5 DEF CuratedInv
<1>6. CASE LoadAbout
  <2> DEFINE loaded == load_about_data(obj[local_dist], local_dist)
             o == set_checksums(loaded, local_dist)
  <2>1. loaded \in Data
    BY <1>1, LoadType
  <2>2. ASSUME Curated(local_dist) PROVE Keeps(o, before[local_dist])
    <3>1. Keeps(loaded, before[local_dist])
      BY <1>1, <1>4, <1>6, <2>2, LoadKeeps DEF LoadAbout
    <3> QED
      BY <2>1, <3>1, ChecksumKeepsData
  <2>3. /\ Becomes(local_dist, o) /\ pc \notin {"ended", "done", "write_about"}
        /\ pc' \notin {"ended", "done", "write_about"}
    BY <1>6 DEF LoadAbout
  <2> QED
    BY <1>1, <1>3, <2>2, <2>3, BecomesCurated
<1>7. CASE AskOtherDist
  <2> DEFINE o == update_from_other_dist(obj[local_dist], obj[First(others)])
  <2>1. Curated(local_dist) => Keeps(o, before[local_dist])
    BY <1>1, <1>5, <1>7, UpdateKeeps DEF AskOtherDist, AfterLoad
  <2>2. /\ Becomes(local_dist, o) /\ pc \notin {"ended", "done", "write_about"}
        /\ pc' \notin {"ended", "done", "write_about"}
    BY <1>7 DEF AskOtherDist, SaveOrAskNext
  <2> QED
    BY <1>1, <1>3, <2>1, <2>2, BecomesCurated
<1>8. CASE AskOtherVersion
  <2> DEFINE x == First(others)
             y == load_about_data(obj[x], x)
  <2>1. x \in Local /\ x \in Dist
    BY <1>2, <1>8, FirstIsIn DEF AskOtherVersion, Working
  <2>2. y \in Data
    BY <2>1, LoadType DEF TypeOK
  <2>3. Curated(x) => Agrees(y, before[x])
    BY <1>4, <1>8, <2>1, LoadKeeps, KeepsAgrees DEF AskOtherVersion
  <2>4. TakeFrom(x, y) /\ pc \in {"version", "hosted"}
    BY <1>8 DEF AskOtherVersion
  <2> QED
    BY <1>1, <1>3, <2>1, <2>2, <2>3, <2>4, TakeFromCurated
<1>9. CASE AskServer
  <2>1. PICK a, n \in BOOLEAN :
          Becomes(local_dist, load_remote_about_data(obj[local_dist], local_dist, a, n))
    BY <1>9 DEF AskServer
  <2> DEFINE o == load_remote_about_data(obj[local_dist], local_dist, a, n)
  <2>2. Curated(local_dist) => Keeps(o, before[local_dist])
    BY <1>5, <1>9, RemoteKeeps DEF AskServer, AfterLoad
  <2>3. /\ pc \notin {"ended", "done", "write_about"}
        /\ pc' \notin {"ended", "done", "write_about"}
    BY <1>9 DEF AskServer
  <2> QED
    BY <1>1, <1>3, <2>1, <2>2, <2>3, BecomesCurated
<1>10. CASE AskHostedVersion
  <2> DEFINE x == First(others)
  <2>1. x \in Dist /\ x \notin Local
    BY <1>2, <1>10, FirstIsIn, FilesAssumption DEF AskHostedVersion, Working
  <2>2. PICK a, n \in BOOLEAN : TakeFrom(x, load_remote_about_data(obj[x], x, a, n))
    BY <1>10 DEF AskHostedVersion
  <2>3. load_remote_about_data(obj[x], x, a, n) \in Data
    BY <2>1, RemoteType DEF TypeOK
  <2>4. pc \in {"version", "hosted"}
    BY <1>10 DEF AskHostedVersion
  <2> QED
    BY <1>1, <1>3, <2>1, <2>2, <2>3, <2>4, TakeFromCurated
<1>11. CASE ReadPkginfo
  <2> DEFINE o == load_pkginfo_data(obj[local_dist], local_dist)
  <2>1. Curated(local_dist) => Keeps(o, before[local_dist])
    BY <1>5, <1>11, UpdateKeeps DEF ReadPkginfo, AfterLoad, load_pkginfo_data
  <2>2. /\ Becomes(local_dist, o) /\ pc \notin {"ended", "done", "write_about"}
        /\ pc' \notin {"ended", "done", "write_about"}
    BY <1>11 DEF ReadPkginfo
  <2> QED
    BY <1>1, <1>3, <2>1, <2>2, BecomesCurated
<1>12. CASE NoOtherDist \/ NoOtherVersion
  BY <1>12 DEF NoOtherDist, NoOtherVersion, CuratedInv, AfterLoad, Curated, WasWhole,
               IsWhole, local_dist
<1> QED
  BY <1>6, <1>7, <1>8, <1>9, <1>10, <1>11, <1>12 DEF Cascade

\* Where NextDist and AfterSave go.
LEMMA AfterSavePc ==
  /\ NextDist => pc' \in {"load", "report"}
  /\ AfterSave => pc' \in {"load", "report", "links"}
BY DEF NextDist, AfterSave

LEMMA SaveCurated ==
  ASSUME TypeOK, Working, CuratedInv, Save
  PROVE  CuratedInv'
<1>1. local_dist \in Local /\ local_dist \in Dist /\ obj[local_dist] \in Data
  BY LocalDistType
  DEF Save, SaveAbout, WriteAbout, SaveNotice, WriteNotice, AtDist, TypeOK, Dist
<1>2. UNCHANGED before
  BY DEF Save, SaveAbout, WriteAbout, SaveNotice, WriteNotice, saveVars
<1>3. CASE SaveNotice \/ WriteNotice
  <2>1. UNCHANGED about /\ pc \in {"notice", "write_notice"}
    BY <1>3 DEF SaveNotice, WriteNotice
  <2>2. obj' \in {obj, [d \in Dist |-> NoData]}
    BY <1>3, ClearedObjects DEF SaveNotice, WriteNotice
  <2>3. pc' \in {"write_notice", "load", "report", "links"}
    BY <1>3, AfterSavePc DEF SaveNotice, WriteNotice
  <2> QED
    BY <1>2, <2>1, <2>2, <2>3, ClearedCurated DEF AfterLoad
<1>4. CASE SaveAbout /\ UNCHANGED about /\ pc' = "notice"
  BY <1>2, <1>4, ClearedCurated DEF SaveAbout, AfterLoad
<1>5. CASE SaveAbout /\ about' = [about EXCEPT ![local_dist] = Empty] /\ pc' = "write_about"
  BY <1>1, <1>2, <1>5
  DEF SaveAbout, CuratedInv, AfterLoad, Curated, WasWhole, IsWhole, local_dist, TypeOK
<1>6. CASE WriteAbout
  <2> DEFINE a == to_about(obj[local_dist], local_dist)
  <2>1. /\ about' = [about EXCEPT ![local_dist] = a] /\ UNCHANGED <<obj, todo>>
        /\ pc = "write_about" /\ pc' = "notice"
    BY <1>6 DEF WriteAbout
  <2>2. a \in About /\ a \notin {Absent, Empty} /\ a.package_url
    BY <1>1, ToAboutType, FilesAssumption
  <2>3. Curated(local_dist) => Keeps(a, before[local_dist])
    BY <1>1, <2>1, ToAboutType DEF CuratedInv, AfterLoad, Keeps
  <2> QED
    BY <1>1, <1>2, <2>1, <2>2, <2>3
    DEF CuratedInv, AfterLoad, Curated, WasWhole, IsWhole, local_dist, TypeOK
<1> QED
  BY <1>3, <1>4, <1>5, <1>6 DEF Save, SaveAbout

LEMMA CleanCurated ==
  ASSUME TypeOK, Working, CuratedInv, CleanAbout
  PROVE  CuratedInv'
<1> DEFINE loaded == load_about_data(obj[local_dist], local_dist)
           o == set_checksums(loaded, local_dist)
           cleaned == [o EXCEPT !.extra_data.classifiers = FALSE]
<1>1. local_dist \in Local /\ local_dist \in Dist /\ obj[local_dist] \in Data
  BY LocalDistType DEF CleanAbout, AtDist, TypeOK, Dist
<1>2. UNCHANGED <<about, before>> /\ pc = "load"
  BY DEF CleanAbout, disk
<1>3. CASE Becomes(local_dist, cleaned) /\ pc' = "save" /\ UNCHANGED todo
  <2>1. loaded \in Data /\ o \in Data
    BY <1>1, LoadType, ChecksumType
  <2>2. ASSUME Curated(local_dist) PROVE Keeps(cleaned, before[local_dist])
    <3>1. Keeps(loaded, before[local_dist])
      BY <1>1, <1>2, <2>2, LoadKeeps DEF CuratedInv
    <3>2. Keeps(o, before[local_dist])
      BY <2>1, <3>1, ChecksumKeepsData
    <3>3. cleaned.license_expression = o.license_expression /\ cleaned.copyright = o.copyright
      BY <2>1 DEF Data
    <3> QED
      BY <3>2, <3>3 DEF Keeps
  <2> QED
    BY <1>1, <1>2, <1>3, <2>2, BecomesCurated
<1>4. CASE NextDist
  BY <1>2, <1>4, ClearedObjects, AfterSavePc, ClearedCurated DEF AfterLoad
<1> QED
  BY <1>3, <1>4 DEF CleanAbout

LEMMA OtherStepsCurated ==
  ASSUME CuratedInv,
         Start \/ FetchLicenses \/ Report \/ Kill \/ \E d \in Rebuilt : Replace(d)
  PROVE  CuratedInv'
<1>1. CASE Start
  <2>1. \A d \in Local : obj'[d] = NoData
    BY <1>1 DEF Start, Dist
  <2> QED
    BY <1>1, <2>1, NoDataAgrees
    DEF Start, disk, CuratedInv, Curated, WasWhole, IsWhole, Keeps, AfterLoad
<1>2. CASE FetchLicenses
  <2>1. UNCHANGED <<about, before>> /\ pc \in {"links", "license", "write_license"}
    BY <1>2 DEF FetchLicenses, ReadLinks, LinksFail, WriteLicense, LicensesFetched,
                SkipLicense, LicenseFails, OpenLicense, disk, licenseVars
  <2>2. obj' \in {obj, [d \in Dist |-> NoData]}
    BY <1>2, ClearedObjects
    DEF FetchLicenses, ReadLinks, LinksFail, WriteLicense, LicensesFetched,
        SkipLicense, LicenseFails, OpenLicense
  <2>3. pc' \notin AfterLoad
    BY <1>2, AfterSavePc
    DEF FetchLicenses, ReadLinks, LinksFail, WriteLicense, LicensesFetched,
        SkipLicense, LicenseFails, OpenLicense, AfterLoad
  <2> QED
    BY <2>1, <2>2, <2>3, ClearedCurated
<1>3. CASE Report \/ Kill
  BY <1>3, ClearedObjects, ClearedCurated DEF Report, Kill, disk, AfterLoad
<1>4. CASE \E d \in Rebuilt : Replace(d)
  BY <1>4, ClearedCurated DEF Replace, memory, AfterLoad
<1> QED
  BY <1>1, <1>2, <1>3, <1>4

LEMMA InitCurated == Init => CuratedInv
<1> SUFFICES ASSUME Init PROVE CuratedInv
  OBVIOUS
<1>1. \A d \in Local : obj[d] = NoData
  BY DEF Init, Dist
<1> QED
  BY <1>1, NoDataAgrees
  DEF Init, CuratedInv, Curated, WasWhole, IsWhole, Keeps, AfterLoad

LEMMA KeepsCurated == TypeOK /\ Working /\ CuratedInv /\ [Next]_vars => CuratedInv'
<1> SUFFICES ASSUME TypeOK, Working, CuratedInv, [Next]_vars PROVE CuratedInv'
  OBVIOUS
<1>1. CASE Next
  BY <1>1, CascadeCurated, SaveCurated, CleanCurated, OtherStepsCurated DEF Next
<1>2. CASE UNCHANGED vars
  BY <1>2 DEF vars, disk, memory, CuratedInv, Curated, WasWhole, IsWhole, local_dist
<1> QED
  BY <1>1, <1>2

LEMMA CuratedCorrect == Spec => []CuratedInv
<1>1. Init => TypeOK /\ Working /\ CuratedInv
  BY InitType, InitCurated DEF Init, Working, AtDist
<1> QED
  BY <1>1, KeepsType, KeepsCurated, PTL DEF Spec

--------------------------------------------------------------------------------
(***************************************************************************)
(* Curated data over all runs                                              *)
(***************************************************************************)

\* The ABOUT file of d is being rewritten.
Writing(d) == pc = "write_about" /\ d = local_dist

\* The first run found an ABOUT file of the distribution, and no kill left it empty.
Known(d) == d \notin torn /\ found[d] # Absent /\ found[d].package_url

\* Such a file is whole but while it is rewritten, and the current run found in it all
\* that the first one found.
FoundInv ==
  \A d \in Local : Known(d) =>
    /\ ~ Writing(d) => IsWhole(d)
    /\ Curated(d) /\ Keeps(before[d], found[d])

LEMMA KeepsTransitive ==
  ASSUME NEW new, NEW middle, NEW old, Keeps(new, middle), Keeps(middle, old)
  PROVE  Keeps(new, old)
BY DEF Keeps

\* A step that leaves the ABOUT files while none is open.
LEMMA FoundStays ==
  ASSUME FoundInv, UNCHANGED <<about, before, found, torn>>, pc # "write_about"
  PROVE  FoundInv'
BY DEF FoundInv, Known, Writing, Curated, WasWhole, IsWhole

LEMMA SaveFound ==
  ASSUME TypeOK, Working, FoundInv, SaveAbout \/ WriteAbout
  PROVE  FoundInv'
<1>1. /\ local_dist \in Local /\ obj[local_dist] \in Data
      /\ UNCHANGED <<before, found, torn, todo>>
  BY LocalDistType DEF SaveAbout, WriteAbout, AtDist, TypeOK, Dist, saveVars
<1>2. local_dist' = local_dist
  BY <1>1 DEF local_dist
<1> SUFFICES ASSUME NEW d \in Local, Known(d)'
             PROVE  /\ ~ (pc' = "write_about" /\ d = local_dist) => about'[d] \notin {Absent, Empty}
                    /\ Curated(d) /\ Keeps(before[d], found[d])
  BY <1>1, <1>2 DEF FoundInv, Writing, Curated, WasWhole, IsWhole
<1>3. /\ ~ (pc = "write_about" /\ d = local_dist) => about[d] \notin {Absent, Empty}
      /\ Curated(d) /\ Keeps(before[d], found[d])
  BY <1>1 DEF FoundInv, Known, Writing, IsWhole
<1>4. CASE SaveAbout
  BY <1>1, <1>3, <1>4 DEF SaveAbout, TypeOK
<1>5. CASE WriteAbout
  <2>1. to_about(obj[local_dist], local_dist) \notin {Absent, Empty}
    BY <1>1, ToAboutType, FilesAssumption
  <2> QED
    BY <1>1, <1>3, <1>5, <2>1 DEF WriteAbout, TypeOK
<1> QED
  BY <1>4, <1>5

LEMMA StartFound ==
  ASSUME CuratedInv, FoundInv, Start
  PROVE  FoundInv'
<1>1. before' = about /\ UNCHANGED <<about, found, torn>> /\ pc # "write_about"
  BY DEF Start, disk
<1> SUFFICES ASSUME NEW d \in Local, Known(d)
             PROVE  IsWhole(d) /\ about[d].package_url /\ Keeps(about[d], found[d])
  BY <1>1 DEF FoundInv, Known, Writing, Curated, WasWhole, IsWhole
<1>2. IsWhole(d) /\ Curated(d) /\ Keeps(before[d], found[d])
  BY <1>1 DEF FoundInv, Writing
<1>3. about[d].package_url /\ Keeps(about[d], before[d])
  BY <1>2 DEF CuratedInv
<1> QED
  BY <1>2, <1>3, KeepsTransitive

LEMMA KillFound ==
  ASSUME FoundInv, Kill
  PROVE  FoundInv'
<1>1. UNCHANGED <<about, before, found>> /\ torn' = torn \cup OpenFile
  BY DEF Kill, disk
<1> SUFFICES ASSUME NEW d \in Local, Known(d)'
             PROVE  IsWhole(d) /\ Curated(d) /\ Keeps(before[d], found[d])
  BY <1>1 DEF FoundInv, Curated, WasWhole, IsWhole
<1>2. Known(d) /\ ~ Writing(d)
  BY <1>1 DEF Known, Writing, OpenFile
<1> QED
  BY <1>2 DEF FoundInv

LEMMA KeepsFound ==
  ASSUME TypeOK, Working, CuratedInv, FoundInv, [Next]_vars
  PROVE  FoundInv'
<1>1. CASE Cascade
  BY <1>1, FoundStays
  DEF Cascade, LoadAbout, AskOtherDist, NoOtherDist, AskOtherVersion, NoOtherVersion,
      AskServer, AskHostedVersion, ReadPkginfo, cascadeVars, disk
<1>2. CASE Save
  BY <1>2, SaveFound, FoundStays DEF Save, SaveNotice, WriteNotice, saveVars
<1>3. CASE FetchLicenses
  BY <1>3, FoundStays
  DEF FetchLicenses, ReadLinks, LinksFail, WriteLicense, LicensesFetched, SkipLicense,
      LicenseFails, OpenLicense, disk, licenseVars
<1>4. CASE CleanAbout \/ Report \/ \E d \in Rebuilt : Replace(d)
  BY <1>4, FoundStays DEF CleanAbout, Report, Replace, disk
<1>5. CASE Start \/ Kill
  BY <1>5, StartFound, KillFound
<1>6. CASE UNCHANGED vars
  BY <1>6 DEF vars, disk, FoundInv, Known, Writing, Curated, WasWhole, IsWhole, local_dist
<1> QED
  BY <1>1, <1>2, <1>3, <1>4, <1>5, <1>6 DEF Next

LEMMA InitFound == Init => FoundInv
<1> SUFFICES ASSUME Init, NEW d \in Local, Known(d)
             PROVE  IsWhole(d) /\ Curated(d) /\ Keeps(before[d], found[d])
  BY DEF FoundInv
<1>1. about[d] \in About \cup {Absent} /\ before = about /\ found = about
  BY DataAssumption DEF Init
<1> QED
  BY <1>1, FilesAssumption DEF Known, IsWhole, Curated, WasWhole, Keeps

\* Whatever all other sources say, no run replaces what the first one found in an ABOUT
\* file of a distribution on its license and copyright, until one is killed while that
\* very file is open: kills at all other statements, between runs and phases, are harmless.
THEOREM CuratedKept == Spec => []CuratedDataIsKept
<1>1. CuratedInv /\ FoundInv => CuratedDataIsKept
  <2> SUFFICES ASSUME CuratedInv, FoundInv, NEW d \in Local, Known(d), ~ Writing(d)
               PROVE  IsWhole(d) /\ Keeps(about[d], found[d])
    BY DEF CuratedDataIsKept, Known, Writing, OpenFile, Keeps
  <2>1. IsWhole(d) /\ Curated(d) /\ Keeps(before[d], found[d])
    BY DEF FoundInv
  <2>2. Keeps(about[d], before[d])
    BY <2>1 DEF CuratedInv
  <2> QED
    BY <2>1, <2>2, KeepsTransitive
<1>2. Init => TypeOK /\ Working
  BY InitType DEF Init, Working, AtDist
<1> QED
  BY <1>1, <1>2, InitFound, KeepsFound, CuratedCorrect, KeepsType, PTL DEF Spec
================================================================================
