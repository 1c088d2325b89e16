--------------------------- MODULE RequirementsFiles ---------------------------
(***************************************************************************)
(* etc/scripts/gen_requirements.py and gen_requirements_dev.py with        *)
(* lock_requirements and lock_dev_requirements of utils_requirements.py:   *)
(* two commands write what pip freeze prints of one site-packages          *)
(* directory to two files, and the second one leaves out what the first    *)
(* file names.  They run at any time, also at once, and each of them fails *)
(* or is killed at any statement, while packages come and go.              *)
(*                                                                         *)
(* A line is "pinned" (name==version), "refused" (it has "==" but is not   *)
(* pinned, as with name===version, or has a marker or a second comparison) *)
(* or "ignored" (no "==", or an option, such as name @ file:///...).  A    *)
(* text is the set of its lines.  A write is one system call.              *)
(***************************************************************************)
CONSTANTS
  Spelling,      \* the package names as they are spelled
  Lower,         \* lower(): of each spelling
  Normalize,     \* the name that pip knows a package by
  Version,
  Installable,   \* the lines of the packages that may be installed
  InitialMain,   \* what the main file may have at first
  InitialDev     \* what the development file may have at first

Line == [name : Spelling, version : Version, kind : {"pinned", "refused", "ignored"}]
NameVersion == {Lower[s] : s \in Spelling} \X Version

ASSUME RequirementsAssumption ==
  /\ Lower \in [Spelling -> Spelling] /\ Normalize \in [Spelling -> Spelling]
  /\ \A s, t \in Spelling : Lower[s] = Lower[t] => Normalize[s] = Normalize[t]
  /\ Installable \subseteq Line
  /\ InitialMain \subseteq [exists : BOOLEAN, lines : SUBSET Line]
  /\ InitialDev \subseteq [exists : BOOLEAN, lines : SUBSET NameVersion]

VARIABLES
  site,         \* the packages that are installed
  main,         \* requirements.txt
  dev,          \* requirements-dev.txt
  mainPc,       \* where gen_requirements is
  mainText,     \* what it will write
  devPc,        \* where gen_requirements_dev is
  main_names,   \* the names that it read
  all_reqs,     \* what pip freeze printed for it
  devText,      \* what it will write
  mainChanged,  \* the main file was written since main_names was read
  devBefore     \* the development file when the command began

mainVars == <<mainPc, mainText>>
devVars == <<devPc, main_names, all_reqs, devText, devBefore>>
vars == <<site, main, dev, mainVars, devVars, mainChanged>>

--------------------------------------------------------------------------------
\* Mutant: the name stays as it is spelled.
SpelledNameVersions(lines) == {<<l.name, l.version>> : l \in {l \in lines : l.kind = "pinned"}}

\* get_required_name_versions, of lines none of which is refused.
get_required_name_versions(lines) ==
  {<<Lower[l.name], l.version>> : l \in {l \in lines : l.kind = "pinned"}}

IsRefused(lines) == \E l \in lines : l.kind = "refused"

NamesOf(nvs) == {nv[1] : nv \in nvs}

\* Mutant: what is kept of a package depends on its version.
DevOnlyByVersion(nvs, names) ==
  {nv \in nvs : ~ \E old \in get_required_name_versions(main.lines) : old = nv}

\* dev_only_req_nvs.
DevOnly(nvs, names) == {nv \in nvs : nv[1] \notin names}

Init ==
  /\ site = {}
  /\ main \in InitialMain /\ dev \in InitialDev
  /\ mainPc = "ended" /\ mainText = {}
  /\ devPc = "ended" /\ main_names = {} /\ all_reqs = {} /\ devText = {}
  /\ mainChanged = FALSE
  /\ devBefore = dev

--------------------------------------------------------------------------------
\* gen_requirements: the file is emptied, then pip freeze runs, then it is written.
OpenMain ==
  /\ mainPc = "ended"
  /\ main' = [exists |-> TRUE, lines |-> {}]
  /\ mainChanged' = TRUE
  /\ mainPc' = "opened"
  /\ UNCHANGED <<site, dev, mainText, devVars>>

FreezeMain ==
  /\ mainPc = "opened"
  /\ mainText' = site
  /\ mainPc' = "frozen"
  /\ UNCHANGED <<site, main, dev, devVars, mainChanged>>

WriteMain ==
  /\ mainPc = "frozen"
  /\ main' = [main EXCEPT !.lines = @ \cup mainText]
  /\ mainChanged' = TRUE
  /\ mainPc' = "ended" /\ mainText' = {}
  /\ UNCHANGED <<site, dev, devVars>>

\* No such directory, an error of pip or of the file system, or a kill.
EndMain ==
  /\ mainPc # "ended"
  /\ mainPc' = "ended" /\ mainText' = {}
  /\ UNCHANGED <<site, main, dev, devVars, mainChanged>>

--------------------------------------------------------------------------------
\* gen_requirements_dev.
Running == {"read", "frozen", "opened"}

\* Mutant: the file is emptied first, as in gen_requirements.
OpenDevAndReadMain ==
  /\ devPc \notin Running
  /\ devBefore' = dev /\ dev' = [exists |-> TRUE, lines |-> {}]
  /\ IF main.exists /\ ~ IsRefused(main.lines)
     THEN /\ main_names' = NamesOf(get_required_name_versions(main.lines))
          /\ mainChanged' = FALSE
          /\ devPc' = "read"
     ELSE devPc' = "failed" /\ main_names' = {} /\ UNCHANGED mainChanged
  /\ all_reqs' = {} /\ devText' = {}
  /\ UNCHANGED <<site, main, mainVars>>

\* Without the main file, or with a line in it that is refused, the command fails.
ReadMain ==
  /\ devPc \notin Running
  /\ devBefore' = dev
  /\ IF main.exists /\ ~ IsRefused(main.lines)
     THEN /\ main_names' = NamesOf(get_required_name_versions(main.lines))
          /\ mainChanged' = FALSE
          /\ devPc' = "read"
     ELSE devPc' = "failed" /\ main_names' = {} /\ UNCHANGED mainChanged
  /\ all_reqs' = {} /\ devText' = {}
  /\ UNCHANGED <<site, main, dev, mainVars>>

FreezeDev ==
  /\ devPc = "read"
  /\ ~ IsRefused(site)
  /\ all_reqs' = site
  /\ devText' = DevOnly(get_required_name_versions(site), main_names)
  /\ devPc' = "frozen"
  /\ UNCHANGED <<site, main, dev, mainVars, main_names, mainChanged, devBefore>>

\* Mutant: the file is opened to append.
OpenDevToAppend ==
  /\ devPc = "frozen"
  /\ dev' = [dev EXCEPT !.exists = TRUE]
  /\ devPc' = "opened"
  /\ UNCHANGED <<site, main, mainVars, main_names, all_reqs, devText, mainChanged, devBefore>>

OpenDev ==
  /\ devPc = "frozen"
  /\ dev' = [exists |-> TRUE, lines |-> {}]
  /\ devPc' = "opened"
  /\ UNCHANGED <<site, main, mainVars, main_names, all_reqs, devText, mainChanged, devBefore>>

WriteDev ==
  /\ devPc = "opened"
  /\ dev' = [dev EXCEPT !.lines = @ \cup devText]
  /\ devPc' = "done"
  /\ UNCHANGED <<site, main, mainVars, main_names, all_reqs, devText, mainChanged, devBefore>>

Forget == main_names' = {} /\ all_reqs' = {} /\ devText' = {}

\* No such directory, an error of pip, a line of it that is refused, or a file
\* that cannot be opened.
FailDev ==
  /\ devPc \in {"read", "frozen"}
  /\ devPc' = "failed"
  /\ Forget
  /\ UNCHANGED <<site, main, dev, mainVars, mainChanged, devBefore>>

\* A kill, or a write that fails.
KillDev ==
  /\ devPc \in Running
  /\ devPc' = "ended"
  /\ Forget
  /\ UNCHANGED <<site, main, dev, mainVars, mainChanged, devBefore>>

--------------------------------------------------------------------------------
\* pip install, in the place of the version that was there, and pip uninstall.
Install(line) ==
  /\ site' = {l \in site : Normalize[l.name] # Normalize[line.name]} \cup {line}
  /\ site' # site
  /\ UNCHANGED <<main, dev, mainVars, devVars, mainChanged>>

Uninstall(line) ==
  /\ line \in site
  /\ site' = site \ {line}
  /\ UNCHANGED <<main, dev, mainVars, devVars, mainChanged>>

Next ==
  \/ OpenMain \/ FreezeMain \/ WriteMain \/ EndMain
  \/ ReadMain \/ FreezeDev \/ OpenDev \/ WriteDev \/ FailDev \/ KillDev
  \/ \E line \in Installable : Install(line) \/ Uninstall(line)

Spec == Init /\ [][Next]_vars

--------------------------------------------------------------------------------
File(lines) == [exists : BOOLEAN, lines : SUBSET lines]

TypeOK ==
  /\ site \in SUBSET Line
  /\ main \in File(Line) /\ dev \in File(NameVersion)
  /\ mainPc \in {"ended", "opened", "frozen"} /\ mainText \in SUBSET Line
  /\ devPc \in Running \cup {"done", "failed", "ended"}
  /\ main_names \in SUBSET NamesOf(NameVersion)
  /\ all_reqs \in SUBSET Line /\ devText \in SUBSET NameVersion
  /\ mainChanged \in BOOLEAN
  /\ devBefore \in File(NameVersion)

\* The development file is finished, and the main file is the one that it was
\* made from.
UpToDate == devPc = "done" /\ ~ mainChanged

\* "Exclude package names also listed in the --main-requirements-file"
\* (gen_requirements_dev.py:26): no name, as it is spelled in lower case, is pinned
\* in both files, also when the package has another version by now.  Two spellings
\* of one package that differ in more than case are two names.
DevExcludesMain ==
  UpToDate =>
    NamesOf(dev.lines) \cap NamesOf(get_required_name_versions(main.lines)) = {}

\* The lines of pip freeze that neither file has.
Lost ==
  {l \in all_reqs \ main.lines : <<Lower[l.name], l.version>> \notin dev.lines}

\* Of "all Python packages found installed" (gen_requirements_dev.py:24), when the main
\* file names packages that are still installed as they were: both files together
\* pin what pip freeze printed as pinned and nothing else, and what is lost are
\* exactly the ignored lines (a package installed from a file) that are not in the
\* main file.
FilesPinTheSite ==
  UpToDate /\ main.lines \subseteq all_reqs =>
    /\ get_required_name_versions(main.lines) \cup dev.lines =
         get_required_name_versions(all_reqs)
    /\ Lost = {l \in all_reqs \ main.lines : l.kind = "ignored"}

\* A command that fails before it opens the development file leaves it as it was,
\* whatever failed: the main file, pip freeze, or a line that is refused.  A write
\* that fails is one of KillDev, which leaves the file empty.
DevSurvivesFailure == devPc = "failed" => dev = devBefore
================================================================================
