------------------------ MODULE RequirementsFilesProofs ------------------------
(***************************************************************************)
(* What RequirementsFiles keeps true for any packages, spellings and first *)
(* files.                                                                  *)
(***************************************************************************)
EXTENDS RequirementsFiles, TLAPS

\* pip installs one version of a package.
OneVersionOf(lines) ==
  \A k, l \in lines : Normalize[k.name] = Normalize[l.name] => k = l

\* The names are those of the main file, while nobody has written it.
NamesAreOfMain ==
  devPc \in Running \cup {"done"} /\ ~ mainChanged =>
    main_names = NamesOf(get_required_name_versions(main.lines))

\* The text is what is left of one pip freeze.
TextIsOfFreeze ==
  devPc \in {"frozen", "opened", "done"} =>
    devText = DevOnly(get_required_name_versions(all_reqs), main_names)

\* A freeze with a line that is refused ends the command.
NothingRefused == ~ IsRefused(all_reqs)

\* The development file is the old one until it is opened, then empty, then the text.
FileFollows ==
  /\ devPc \in {"read", "frozen", "failed"} => dev = devBefore
  /\ devPc = "opened" => dev.lines = {}
  /\ devPc = "done" => dev.lines = devText

IInv ==
  /\ TypeOK
  /\ OneVersionOf(site) /\ OneVersionOf(all_reqs)
  /\ NamesAreOfMain /\ TextIsOfFreeze /\ NothingRefused /\ FileFollows

--------------------------------------------------------------------------------
(***************************************************************************)
(* Lemmas about the operators                                              *)
(***************************************************************************)

\* The names and versions of lines are pairs of a name in lower case and a version.
LEMMA PairsType ==
  ASSUME NEW lines \in SUBSET Line
  PROVE  get_required_name_versions(lines) \in SUBSET NameVersion
<1> SUFFICES ASSUME NEW l \in lines PROVE <<Lower[l.name], l.version>> \in NameVersion
  BY DEF get_required_name_versions
<1>1. l.name \in Spelling /\ l.version \in Version
  BY DEF Line
<1> QED
  BY <1>1 DEF NameVersion

\* What is left without the names of some of the lines are the other lines: a name
\* that is the same in lower case is the same package.
LEMMA RestOfLines ==
  ASSUME NEW all \in SUBSET Line, NEW some \in SUBSET all, OneVersionOf(all)
  PROVE  get_required_name_versions(some) \cup
           DevOnly(get_required_name_versions(all), NamesOf(get_required_name_versions(some)))
         = get_required_name_versions(all)
<1> DEFINE All == get_required_name_versions(all)
           Some == get_required_name_versions(some)
<1>1. Some \subseteq All
  BY DEF get_required_name_versions
<1>2. ASSUME NEW nv \in All, nv[1] \in NamesOf(Some)
      PROVE  nv \in Some
  <2>1. PICK l \in all : l.kind = "pinned" /\ nv = <<Lower[l.name], l.version>>
    BY DEF get_required_name_versions
  <2>2. PICK k \in some : k.kind = "pinned" /\ nv[1] = Lower[k.name]
    BY <1>2 DEF NamesOf, get_required_name_versions
  <2>3. l.name \in Spelling /\ k.name \in Spelling /\ Lower[l.name] = Lower[k.name]
    BY <2>1, <2>2 DEF Line
  <2>4. Normalize[l.name] = Normalize[k.name]
    BY <2>3, RequirementsAssumption
  <2>5. l = k
    BY <2>4 DEF OneVersionOf
  <2> QED
    BY <2>1, <2>5 DEF get_required_name_versions
<1> HIDE DEF All, Some
<1>3. Some \cup DevOnly(All, NamesOf(Some)) = All
  BY <1>1, <1>2 DEF DevOnly
<1> QED
  BY <1>3 DEF All, Some

\* Of lines none of which is refused, those that are neither among some of them nor
\* pinned by the rest are the ignored ones.
LEMMA OthersAreIgnored ==
  ASSUME NEW all \in SUBSET Line, NEW some \in SUBSET all, NEW rest,
         OneVersionOf(all), ~ IsRefused(all),
         get_required_name_versions(some) \cup rest = get_required_name_versions(all)
  PROVE  {l \in all \ some : <<Lower[l.name], l.version>> \notin rest} =
           {l \in all \ some : l.kind = "ignored"}
<1> SUFFICES ASSUME NEW l \in all, l \notin some
             PROVE  <<Lower[l.name], l.version>> \notin rest <=> l.kind = "ignored"
  OBVIOUS
<1> DEFINE nv == <<Lower[l.name], l.version>>
<1>1. l.kind \in {"pinned", "ignored"} /\ l.name \in Spelling
  BY DEF Line, IsRefused
<1>2. ASSUME NEW k \in all, <<Lower[k.name], k.version>> = nv
      PROVE  k = l
  <2>1. k.name \in Spelling /\ Lower[k.name] = Lower[l.name]
    BY <1>2 DEF Line
  <2> QED
    BY <1>1, <2>1, RequirementsAssumption DEF OneVersionOf
<1>3. ASSUME l.kind = "pinned" PROVE nv \in rest
  <2>1. nv \in get_required_name_versions(all)
    BY <1>3 DEF get_required_name_versions
  <2>2. nv \notin get_required_name_versions(some)
    <3>1. \A k \in some : <<Lower[k.name], k.version>> # nv
      BY <1>2
    <3> HIDE DEF nv
    <3> QED
      BY <3>1 DEF get_required_name_versions
  <2> QED
    BY <2>1, <2>2
<1>4. ASSUME nv \in rest PROVE l.kind = "pinned"
  <2>1. nv \in get_required_name_versions(all)
    BY <1>4
  <2>2. PICK k \in all : k.kind = "pinned" /\ <<Lower[k.name], k.version>> = nv
    BY <2>1 DEF get_required_name_versions
  <2> QED
    BY <1>2, <2>2
<1> QED
  BY <1>1, <1>3, <1>4

--------------------------------------------------------------------------------
(***************************************************************************)
(* The inductive invariant                                                 *)
(***************************************************************************)

LEMMA InitIInv == Init => IInv
<1> SUFFICES ASSUME Init PROVE IInv
  OBVIOUS
<1>1. TypeOK
  BY RequirementsAssumption DEF Init, TypeOK, File, Running
<1>2. OneVersionOf(site) /\ OneVersionOf(all_reqs)
  BY DEF Init, OneVersionOf
<1>3. NamesAreOfMain /\ TextIsOfFreeze /\ NothingRefused /\ FileFollows
  BY DEF Init, NamesAreOfMain, TextIsOfFreeze, NothingRefused, IsRefused, FileFollows,
         Running
<1> QED
  BY <1>1, <1>2, <1>3 DEF IInv

LEMMA NextTypeOK == TypeOK /\ [Next]_vars => TypeOK'
<1> SUFFICES ASSUME TypeOK, [Next]_vars PROVE TypeOK'
  OBVIOUS
<1> USE DEF TypeOK, Running
<1>1. CASE OpenMain \/ FreezeMain \/ WriteMain \/ EndMain
  <2>1. CASE OpenMain
    BY <2>1 DEF OpenMain, File, devVars
  <2>2. CASE FreezeMain
    BY <2>2 DEF FreezeMain, devVars
  <2>3. CASE WriteMain
    BY <2>3 DEF WriteMain, File, devVars
  <2>4. CASE EndMain
    BY <2>4 DEF EndMain, devVars
  <2> QED
    BY <1>1, <2>1, <2>2, <2>3, <2>4
<1>2. CASE ReadMain
  <2>1. main.lines \in SUBSET Line
    BY DEF File
  <2>2. NamesOf(get_required_name_versions(main.lines)) \in SUBSET NamesOf(NameVersion)
    BY <2>1, PairsType DEF NamesOf
  <2> QED
    BY <1>2, <2>2 DEF ReadMain, mainVars
<1>3. CASE FreezeDev
  <2>1. DevOnly(get_required_name_versions(site), main_names) \in SUBSET NameVersion
    BY PairsType DEF DevOnly
  <2> QED
    BY <1>3, <2>1 DEF FreezeDev, mainVars
<1>4. CASE OpenDev \/ WriteDev
  <2>1. CASE OpenDev
    BY <2>1 DEF OpenDev, File, mainVars
  <2>2. CASE WriteDev
    BY <2>2 DEF WriteDev, File, mainVars
  <2> QED
    BY <1>4, <2>1, <2>2
<1>5. CASE FailDev \/ KillDev
  BY <1>5 DEF FailDev, KillDev, Forget, mainVars
<1>6. CASE \E line \in Installable : Install(line) \/ Uninstall(line)
  BY <1>6, RequirementsAssumption DEF Install, Uninstall, mainVars, devVars
<1>7. CASE UNCHANGED vars
  BY <1>7 DEF vars, mainVars, devVars
<1> QED
  BY <1>1, <1>2, <1>3, <1>4, <1>5, <1>6, <1>7 DEF Next

LEMMA NextIInv == IInv /\ [Next]_vars => IInv'
<1> SUFFICES ASSUME IInv, [Next]_vars PROVE IInv'
  OBVIOUS
<1>1. TypeOK'
  BY NextTypeOK DEF IInv
<1> USE DEF IInv
<1>2. OneVersionOf(site)' /\ OneVersionOf(all_reqs)'
  <2>1. CASE \E line \in Installable : Install(line) \/ Uninstall(line)
    BY <2>1 DEF Install, Uninstall, devVars, OneVersionOf
  <2>2. CASE FreezeDev
    BY <2>2 DEF FreezeDev, OneVersionOf
  <2>3. CASE ReadMain \/ FailDev \/ KillDev
    BY <2>3 DEF ReadMain, FailDev, KillDev, Forget, OneVersionOf
  <2>4. CASE OpenMain \/ FreezeMain \/ WriteMain \/ EndMain \/ OpenDev \/ WriteDev
             \/ UNCHANGED vars
    BY <2>4 DEF OpenMain, FreezeMain, WriteMain, EndMain, OpenDev, WriteDev, devVars, vars,
                OneVersionOf
  <2> QED
    BY <2>1, <2>2, <2>3, <2>4 DEF Next
<1>3. NamesAreOfMain'
  <2>1. CASE OpenMain \/ WriteMain
    BY <2>1 DEF OpenMain, WriteMain, NamesAreOfMain
  <2>2. CASE ReadMain
    BY <2>2 DEF ReadMain, NamesAreOfMain, Running
  <2>3. CASE FailDev \/ KillDev
    BY <2>3 DEF FailDev, KillDev, NamesAreOfMain, Running
  <2>4. CASE FreezeMain \/ EndMain \/ UNCHANGED vars
    BY <2>4 DEF FreezeMain, EndMain, vars, devVars, NamesAreOfMain
  <2>5. CASE FreezeDev \/ OpenDev \/ WriteDev
    BY <2>5 DEF FreezeDev, OpenDev, WriteDev, NamesAreOfMain, Running
  <2>6. CASE \E line \in Installable : Install(line) \/ Uninstall(line)
    BY <2>6 DEF Install, Uninstall, devVars, NamesAreOfMain
  <2> QED
    BY <2>1, <2>2, <2>3, <2>4, <2>5, <2>6 DEF Next
<1>4. TextIsOfFreeze'
  <2>1. CASE OpenMain \/ FreezeMain \/ WriteMain \/ EndMain \/ UNCHANGED vars
    BY <2>1 DEF OpenMain, FreezeMain, WriteMain, EndMain, vars, devVars, TextIsOfFreeze
  <2>2. CASE FreezeDev
    BY <2>2 DEF FreezeDev, TextIsOfFreeze
  <2>3. CASE OpenDev \/ WriteDev
    BY <2>3 DEF OpenDev, WriteDev, TextIsOfFreeze
  <2>4. CASE ReadMain \/ FailDev \/ KillDev
    BY <2>4 DEF ReadMain, FailDev, KillDev, TextIsOfFreeze
  <2>5. CASE \E line \in Installable : Install(line) \/ Uninstall(line)
    BY <2>5 DEF Install, Uninstall, devVars, TextIsOfFreeze
  <2> QED
    BY <2>1, <2>2, <2>3, <2>4, <2>5 DEF Next
<1>5. FileFollows'
  <2>1. CASE OpenMain \/ FreezeMain \/ WriteMain \/ EndMain \/ UNCHANGED vars
    BY <2>1 DEF OpenMain, FreezeMain, WriteMain, EndMain, vars, devVars, FileFollows
  <2>2. CASE ReadMain \/ FreezeDev
    BY <2>2 DEF ReadMain, FreezeDev, FileFollows
  <2>3. CASE OpenDev
    BY <2>3 DEF OpenDev, FileFollows
  <2>4. CASE WriteDev
    BY <2>4 DEF WriteDev, FileFollows, TypeOK, File
  <2>5. CASE FailDev \/ KillDev
    BY <2>5 DEF FailDev, KillDev, FileFollows
  <2>6. CASE \E line \in Installable : Install(line) \/ Uninstall(line)
    BY <2>6 DEF Install, Uninstall, devVars, FileFollows
  <2> QED
    BY <2>1, <2>2, <2>3, <2>4, <2>5, <2>6 DEF Next
<1>6. NothingRefused'
  <2>1. CASE \E line \in Installable : Install(line) \/ Uninstall(line)
    BY <2>1 DEF Install, Uninstall, devVars, NothingRefused, IsRefused
  <2>2. CASE FreezeDev
    BY <2>2 DEF FreezeDev, NothingRefused, IsRefused
  <2>3. CASE ReadMain \/ FailDev \/ KillDev
    BY <2>3 DEF ReadMain, FailDev, KillDev, Forget, NothingRefused, IsRefused
  <2>4. CASE OpenMain \/ FreezeMain \/ WriteMain \/ EndMain \/ OpenDev \/ WriteDev
             \/ UNCHANGED vars
    BY <2>4 DEF OpenMain, FreezeMain, WriteMain, EndMain, OpenDev, WriteDev, devVars, vars,
                NothingRefused, IsRefused
  <2> QED
    BY <2>1, <2>2, <2>3, <2>4 DEF Next
<1> QED
  BY <1>1, <1>2, <1>3, <1>4, <1>5, <1>6

LEMMA SpecIInv == Spec => []IInv
<1> QED
  BY InitIInv, NextIInv, PTL DEF Spec

--------------------------------------------------------------------------------
(***************************************************************************)
(* Theorems                                                                *)
(***************************************************************************)

\* The files and what the two commands remember have their types, whatever fails.
THEOREM RequirementsTypes == Spec => []TypeOK
<1>1. IInv => TypeOK
  BY DEF IInv
<1> QED
  BY <1>1, SpecIInv, PTL

\* No name, as it is spelled in lower case, is pinned in both files, when the main file
\* is the one that the development file was made from.
THEOREM MainIsExcluded == Spec => []DevExcludesMain
<1>1. IInv => DevExcludesMain
  <2> SUFFICES ASSUME IInv, UpToDate
               PROVE  NamesOf(dev.lines) \cap
                        NamesOf(get_required_name_versions(main.lines)) = {}
    BY DEF DevExcludesMain
  <2>1. dev.lines = DevOnly(get_required_name_versions(all_reqs), main_names)
    BY DEF UpToDate, IInv, FileFollows, TextIsOfFreeze
  <2>2. main_names = NamesOf(get_required_name_versions(main.lines))
    BY DEF UpToDate, IInv, NamesAreOfMain
  <2> QED
    BY <2>1, <2>2 DEF DevOnly, NamesOf
<1> QED
  BY <1>1, SpecIInv, PTL

\* Both files together pin exactly the pinned lines of what pip freeze printed, when the
\* packages of the main file are still installed as they were; the ignored lines that
\* are not in the main file are lost, and no others.
THEOREM SiteIsPinned == Spec => []FilesPinTheSite
<1>1. IInv => FilesPinTheSite
  <2> SUFFICES ASSUME IInv, UpToDate, main.lines \subseteq all_reqs
               PROVE  /\ get_required_name_versions(main.lines) \cup dev.lines =
                           get_required_name_versions(all_reqs)
                      /\ Lost = {l \in all_reqs \ main.lines : l.kind = "ignored"}
    BY DEF FilesPinTheSite
  <2>1. dev.lines = DevOnly(get_required_name_versions(all_reqs), main_names)
    BY DEF UpToDate, IInv, FileFollows, TextIsOfFreeze
  <2>2. main_names = NamesOf(get_required_name_versions(main.lines))
    BY DEF UpToDate, IInv, NamesAreOfMain
  <2>3. all_reqs \in SUBSET Line /\ OneVersionOf(all_reqs) /\ ~ IsRefused(all_reqs)
    BY DEF IInv, TypeOK, NothingRefused
  <2>4. get_required_name_versions(main.lines) \cup dev.lines =
          get_required_name_versions(all_reqs)
    BY <2>1, <2>2, <2>3, RestOfLines
  <2>5. Lost = {l \in all_reqs \ main.lines : l.kind = "ignored"}
    BY <2>3, <2>4, OthersAreIgnored DEF Lost
  <2> QED
    BY <2>4, <2>5
<1> QED
  BY <1>1, SpecIInv, PTL

\* A development command that fails before it opens the file leaves it as it was; one
\* whose write fails does not.
THEOREM FailureKeepsDev == Spec => []DevSurvivesFailure
<1>1. IInv => DevSurvivesFailure
  BY DEF IInv, FileFollows, DevSurvivesFailure
<1> QED
  BY <1>1, SpecIInv, PTL
================================================================================
