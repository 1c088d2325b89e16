--------------------------- MODULE SimpleIndexProofs ---------------------------
(***************************************************************************)
(* What SimpleIndex keeps true for any files, names and builds.            *)
(***************************************************************************)
EXTENDS SimpleIndex, PackagesProofs

Scanning == {"scan", "read"}
Paging == {"pages", "page", "links"}
Writing == {"main"} \cup Paging

\* Of the files that did not change, the entries have those of a set, with what
\* they hold.
AgreesWith(entries, files, held, changed) ==
  \A e \in Entry : e.file \notin changed =>
    (e \in entries <=> e.file \in files /\ e.checksum = held[e.file])

Agrees(entries, files) == AgreesWith(entries, files, content, touched)

\* The files that belong on a page.
Owned(n) == {f \in Named \cap directory : PackageName(f) = n}

\* Only files with a name of a package are linked, and read.
OnlyNamed ==
  /\ \A f \in FileName : linked[f] # 0 => f \in Named
  /\ \A e \in gathered : e.file \in Named

\* While a build is at work simple/ is its own; without simple/ there is nothing.
Owner ==
  /\ pc \in {"remove", "make"} => build # 0
  /\ pc \in Scanning \cup Writing => made = build /\ build # 0
  /\ made = 0 =>
       /\ \A f \in FileName : linked[f] = 0
       /\ \A n \in Page : pages[n].status = "absent"
       /\ main.status = "absent" /\ links.status = "absent"

\* What was read so far are the files of the directory that are done with.
GatheredAgrees ==
  /\ pc \in {"remove", "make"} => gathered = {}
  /\ pc \in Scanning \cup Writing => Agrees(gathered, (Named \cap directory) \ todo)
  /\ pc \in Writing => todo = {}

\* A page has the files of its package, also when it is not whole yet.
PagesAgree ==
  \A n \in Page : pages[n].status # "absent" =>
    /\ Agrees(pages[n].entries, Owned(n))
    /\ \A e \in pages[n].entries : e.file \in Named /\ PackageName(e.file) = n

\* The pages are written one by one, after the main one and before links.html.
InOrder ==
  /\ pc \in Scanning \cup {"main"} =>
       links.status = "absent" /\ \A n \in Page : pages[n].status = "absent"
  /\ pc \in Writing => main.entries = NamesOf(gathered)
  /\ pc \in Paging =>
       /\ main.status = "whole"
       /\ toWrite \subseteq NamesOf(gathered)
       /\ \A n \in Page : n \notin NamesOf(gathered) => pages[n].status = "absent"
       /\ \A n \in NamesOf(gathered) \ toWrite :
            pages[n].status = "whole" /\ pages[n].entries = EntriesOf(gathered, n)
       /\ \A n \in toWrite :
            /\ pages[n].status # "whole"
            /\ pages[n].status = "partial" => pages[n].entries = EntriesOf(gathered, n)
  /\ pc \in {"pages", "page"} => links.status = "absent"
  /\ pc = "links" => toWrite = {} /\ links.entries = gathered

\* What was read and what is written is finite, however large the directory is.
FiniteEntries == IsFiniteSet(gathered) /\ \A n \in Page : IsFiniteSet(pages[n].entries)

IInv ==
  /\ TypeOK /\ OnlyNamed /\ Owner /\ OneBuild
  /\ GatheredAgrees /\ PagesAgree /\ InOrder /\ FiniteEntries

--------------------------------------------------------------------------------
(***************************************************************************)
(* Lemmas about names, entries and pages                                   *)
(***************************************************************************)

LEMMA NameIsPage == ASSUME NEW f \in Named PROVE PackageName(f) \in Page
<1> QED
  BY DEF Page

LEMMA NamesArePages ==
  ASSUME NEW entries, \A e \in entries : e.file \in Named
  PROVE  NamesOf(entries) \in SUBSET Page
<1> QED
  BY NameIsPage DEF NamesOf

LEMMA EntriesAreEntries ==
  ASSUME NEW entries \in SUBSET Entry, NEW n
  PROVE  EntriesOf(entries, n) \in SUBSET Entry
<1> QED
  BY DEF EntriesOf

\* A page as it is written.
LEMMA WrittenType ==
  ASSUME NEW S, NEW entries \in SUBSET S, NEW status \in {"partial", "whole"},
         build \in 0..MaxBuilds
  PROVE  /\ Written(status, entries) \in PageFile(S)
         /\ Written(status, entries).status = status
         /\ Written(status, entries).build = build
         /\ Written(status, entries).entries = entries
<1> QED
  BY DEF Written, PageFile

LEMMA NoPageType == ASSUME NEW S PROVE NoPage \in PageFile(S) /\ NoPage.status = "absent"
<1> QED
  BY IndexAssumption DEF NoPage, PageFile

LEMMA PageFields ==
  ASSUME NEW S, NEW page \in PageFile(S)
  PROVE  /\ page.status \in {"absent", "partial", "whole"}
         /\ page.build \in 0..MaxBuilds /\ page.entries \in SUBSET S
<1> QED
  BY DEF PageFile

\* The entries of all names of a set of entries are the set.
LEMMA UnionOfEntries ==
  ASSUME NEW entries
  PROVE  UNION {EntriesOf(entries, n) : n \in NamesOf(entries)} = entries
<1> QED
  BY DEF EntriesOf, NamesOf

--------------------------------------------------------------------------------
(***************************************************************************)
(* Types                                                                   *)
(***************************************************************************)

LEMMA InitType == Init => TypeOK
<1> SUFFICES ASSUME Init PROVE TypeOK
  OBVIOUS
<1>1. directory \in SUBSET FileName /\ content \in [FileName -> 1..MaxContent]
  BY IndexAssumption DEF Init
<1>2. linked \in [FileName -> 0..MaxBuilds] /\ build \in 0..MaxBuilds /\ made \in 0..MaxBuilds
  BY IndexAssumption DEF Init
<1>3. main \in PageFile(Page) /\ pages \in [Page -> PageFile(Entry)] /\ links \in PageFile(Entry)
  BY NoPageType DEF Init
<1> QED
  BY <1>1, <1>2, <1>3 DEF Init, TypeOK

\* With what is linked and read as it should be, a step keeps the types.
LEMMA NextType == TypeOK /\ OnlyNamed /\ [Next]_vars => TypeOK'
<1> SUFFICES ASSUME TypeOK, OnlyNamed, [Next]_vars PROVE TypeOK'
  OBVIOUS
<1>0. build \in 0..MaxBuilds /\ MaxBuilds \in Nat /\ build \in Nat
  BY IndexAssumption DEF TypeOK
<1>1. CASE Start
  <2>1. build' \in 0..MaxBuilds
    BY <1>0, <1>1 DEF Start
  <2> QED
    BY <1>1, <2>1 DEF Start, TypeOK, tree, pageVars
<1>2. CASE RemoveTree
  <2>1. linked' \in [FileName -> 0..MaxBuilds] /\ made' \in 0..MaxBuilds
    BY <1>0, <1>2 DEF RemoveTree, TypeOK
  <2>2. pages' \in [Page -> PageFile(Entry)]
    BY <1>2, NoPageType DEF RemoveTree, TypeOK
  <2>3. main' \in PageFile(Page) /\ links' \in PageFile(Entry)
    BY <1>2, NoPageType DEF RemoveTree, TypeOK
  <2> QED
    BY <1>2, <2>1, <2>2, <2>3 DEF RemoveTree, TypeOK, buildVars
<1>3. CASE Make
  BY <1>3 DEF Make, TypeOK, pageVars
<1>4. ASSUME NEW f \in todo, SkipFile(f) \/ LinkFile(f)
      PROVE  TypeOK'
  <2>1. CASE SkipFile(f)
    BY <2>1 DEF SkipFile, TypeOK, tree, pageVars
  <2>2. CASE LinkFile(f)
    BY <2>2 DEF LinkFile, TypeOK, buildVars, pageVars
  <2> QED
    BY <1>4, <2>1, <2>2
<1>5. ASSUME NEW f \in todo, ReadFile(f)
      PROVE  TypeOK'
  <2>1. [file |-> f, checksum |-> content[f]] \in Entry
    BY DEF TypeOK, Entry
  <2>2. gathered' \in SUBSET Entry /\ todo' \in SUBSET FileName
    BY <1>5, <2>1 DEF ReadFile, TypeOK
  <2> QED
    BY <1>5, <2>2 DEF ReadFile, TypeOK, tree, pageVars
<1>6. NamesOf(gathered) \in SUBSET Page
  BY NamesArePages DEF OnlyNamed
<1>7. CASE OpenMain
  <2>1. main' \in PageFile(Page)
    BY <1>0, <1>6, <1>7, WrittenType DEF OpenMain
  <2> QED
    BY <1>7, <2>1 DEF OpenMain, TypeOK, buildVars
<1>8. CASE WriteMain
  <2>1. main' \in PageFile(Page)
    <3>1. main.entries \in SUBSET Page
      BY PageFields DEF TypeOK
    <3> QED
      BY <1>0, <1>8, <3>1, WrittenType DEF WriteMain
  <2> QED
    BY <1>6, <1>8, <2>1 DEF WriteMain, TypeOK
<1>9. ASSUME NEW n \in toWrite, OpenPage(n)
      PROVE  TypeOK'
  <2>1. Written("partial", EntriesOf(gathered, n)) \in PageFile(Entry)
    BY <1>0, WrittenType, EntriesAreEntries DEF TypeOK
  <2>2. pages' \in [Page -> PageFile(Entry)]
    BY <1>9, <2>1 DEF OpenPage, TypeOK
  <2> QED
    BY <1>9, <2>2 DEF OpenPage, TypeOK, buildVars
<1>10. ASSUME NEW n \in toWrite, WritePage(n)
       PROVE  TypeOK'
  <2>1. n \in Page
    BY DEF TypeOK
  <2>2. pages[n].entries \in SUBSET Entry
    BY <2>1, PageFields DEF TypeOK
  <2>3. Written("whole", pages[n].entries) \in PageFile(Entry)
    BY <1>0, <2>2, WrittenType
  <2>4. pages' \in [Page -> PageFile(Entry)]
    BY <1>10, <2>3 DEF WritePage, TypeOK
  <2> QED
    BY <1>10, <2>4 DEF WritePage, TypeOK
<1>11. CASE OpenLinks
  <2>1. links' \in PageFile(Entry)
    BY <1>0, <1>11, WrittenType DEF OpenLinks, TypeOK
  <2> QED
    BY <1>11, <2>1 DEF OpenLinks, TypeOK, buildVars
<1>12. CASE WriteLinks
  <2>1. links.entries \in SUBSET Entry
    BY PageFields DEF TypeOK
  <2>2. links' \in PageFile(Entry)
    BY <1>0, <1>12, <2>1, WrittenType DEF WriteLinks
  <2> QED
    BY <1>12, <2>2 DEF WriteLinks, TypeOK, buildVars
<1>13. CASE Abort
  BY <1>13 DEF Abort, TypeOK, buildVars, tree, pageVars
<1>14. ASSUME NEW f \in Changing, Put(f)
       PROVE  TypeOK'
  <2>1. f \in FileName
    BY IndexAssumption
  <2>2. content[f] \in 1..MaxContent
    BY <2>1 DEF TypeOK
  <2>3. content[f] + 1 \in 1..MaxContent
    BY <1>14, <2>2, IndexAssumption DEF Put
  <2>4. content' \in [FileName -> 1..MaxContent]
    BY <1>14, <2>1, <2>3 DEF Put, TypeOK
  <2> QED
    BY <1>14, <2>1, <2>4 DEF Put, TypeOK, buildVars, tree, pageVars
<1>15. ASSUME NEW f \in Changing, Delete(f)
       PROVE  TypeOK'
  BY <1>15, IndexAssumption DEF Delete, TypeOK, buildVars, tree, pageVars
<1>16. CASE UNCHANGED vars
  BY <1>16 DEF vars, TypeOK, buildVars, tree, pageVars
<1> QED
  BY <1>1, <1>2, <1>3, <1>4, <1>5, <1>7, <1>8, <1>9, <1>10, <1>11, <1>12, <1>13, <1>14,
     <1>15, <1>16 DEF Next, Step

--------------------------------------------------------------------------------
(***************************************************************************)
(* Of one build, and of the package                                        *)
(***************************************************************************)

LEMMA NextOnlyNamed == TypeOK /\ OnlyNamed /\ Owner /\ [Next]_vars => OnlyNamed'
<1> SUFFICES ASSUME TypeOK, OnlyNamed, Owner, [Next]_vars PROVE OnlyNamed'
  OBVIOUS
<1>1. CASE RemoveTree
  BY <1>1 DEF RemoveTree, OnlyNamed, TypeOK, buildVars
<1>2. ASSUME NEW f \in todo, LinkFile(f)
      PROVE  OnlyNamed'
  <2>1. f \in FileName
    BY DEF TypeOK
  <2>2. CASE HasPackageName(f)
    <3>1. f \in Named
      BY <1>2, <2>1, <2>2 DEF LinkFile, Named
    <3>2. linked' = [linked EXCEPT ![f] = build] /\ gathered' = gathered
      BY <1>2, <2>2 DEF LinkFile, buildVars
    <3> QED
      BY <2>1, <3>1, <3>2 DEF OnlyNamed, TypeOK
  <2>3. CASE ~ HasPackageName(f)
    BY <1>2, <2>3 DEF LinkFile, OnlyNamed, buildVars
  <2> QED
    BY <2>2, <2>3
<1>3. ASSUME NEW f \in todo, ReadFile(f)
      PROVE  OnlyNamed'
  <2>1. f \in FileName /\ linked[f] # 0
    BY <1>3 DEF ReadFile, Owner, Scanning, TypeOK
  <2>2. f \in Named
    BY <2>1 DEF OnlyNamed
  <2> QED
    BY <1>3, <2>2 DEF ReadFile, OnlyNamed, tree
<1>4. CASE Start
  BY <1>4 DEF Start, OnlyNamed, tree
<1>5. ASSUME NEW f \in todo, SkipFile(f)
      PROVE  OnlyNamed'
  BY <1>5 DEF SkipFile, OnlyNamed, tree
<1>6. CASE Make \/ Abort \/ UNCHANGED vars
  BY <1>6 DEF Make, Abort, OnlyNamed, vars, buildVars, tree
<1>7. CASE OpenMain \/ WriteMain \/ OpenLinks \/ WriteLinks
  BY <1>7 DEF OpenMain, WriteMain, OpenLinks, WriteLinks, OnlyNamed, buildVars
<1>8. ASSUME NEW n \in toWrite, OpenPage(n) \/ WritePage(n)
      PROVE  OnlyNamed'
  BY <1>8 DEF OpenPage, WritePage, OnlyNamed, buildVars
<1>9. ASSUME NEW f \in Changing, Put(f) \/ Delete(f)
      PROVE  OnlyNamed'
  BY <1>9 DEF Put, Delete, OnlyNamed, buildVars, tree
<1> QED
  BY <1>1, <1>2, <1>3, <1>4, <1>5, <1>6, <1>7, <1>8, <1>9 DEF Next, Step

\* A build makes simple/ only where nothing of it is left.
LEMMA NextOwner == TypeOK /\ Owner /\ [Next]_vars => Owner'
<1> SUFFICES ASSUME TypeOK, Owner, [Next]_vars PROVE Owner'
  OBVIOUS
<1> USE DEF Scanning, Writing, Paging
<1>0. build \in Nat
  BY IndexAssumption DEF TypeOK
<1>1. CASE Start
  BY <1>0, <1>1 DEF Start, Owner, tree, pageVars
<1>2. CASE RemoveTree
  <2>1. PICK files \in SUBSET {f \in FileName : linked[f] # 0},
             names \in SUBSET {n \in Page : pages[n] # NoPage},
             others \in SUBSET {"root", "main", "links"} :
          /\ linked' = [f \in FileName |-> IF f \in files THEN linked[f] ELSE 0]
          /\ pages' = [n \in Page |-> IF n \in names THEN pages[n] ELSE NoPage]
          /\ main' = IF "main" \in others THEN main ELSE NoPage
          /\ links' = IF "links" \in others THEN links ELSE NoPage
          /\ made' = IF files = {} /\ names = {} /\ others = {} THEN 0 ELSE made
    BY <1>2 DEF RemoveTree
  <2>2. pc' = "make" /\ build' = build /\ build # 0
    BY <1>2 DEF RemoveTree, Owner, buildVars
  <2>3. CASE files = {} /\ names = {} /\ others = {}
    BY <2>1, <2>2, <2>3, NoPageType DEF Owner
  <2>4. CASE ~ (files = {} /\ names = {} /\ others = {})
    BY <2>1, <2>2, <2>4, NoPageType DEF Owner
  <2> QED
    BY <2>3, <2>4
<1>3. CASE Make
  BY <1>3 DEF Make, Owner, pageVars
<1>4. ASSUME NEW f \in todo, LinkFile(f)
      PROVE  Owner'
  BY <1>4 DEF LinkFile, Owner, buildVars, pageVars
<1>5. ASSUME NEW f \in todo, SkipFile(f) \/ ReadFile(f)
      PROVE  Owner'
  BY <1>5 DEF SkipFile, ReadFile, Owner, tree, pageVars
<1>6. CASE OpenMain \/ WriteMain
  BY <1>6 DEF OpenMain, WriteMain, Owner, buildVars
<1>7. CASE OpenLinks \/ WriteLinks
  BY <1>7 DEF OpenLinks, WriteLinks, Owner, buildVars
<1>8. ASSUME NEW n \in toWrite, OpenPage(n) \/ WritePage(n)
      PROVE  Owner'
  BY <1>8 DEF OpenPage, WritePage, Owner, buildVars
<1>9. CASE Abort \/ UNCHANGED vars
  BY <1>9 DEF Abort, Owner, vars, buildVars, tree, pageVars
<1>10. ASSUME NEW f \in Changing, Put(f) \/ Delete(f)
       PROVE  Owner'
  BY <1>10 DEF Put, Delete, Owner, buildVars, tree, pageVars
<1> QED
  BY <1>1, <1>2, <1>3, <1>4, <1>5, <1>6, <1>7, <1>8, <1>9, <1>10 DEF Next, Step

LEMMA NextOneBuild == TypeOK /\ Owner /\ OneBuild /\ [Next]_vars => OneBuild'
<1> SUFFICES ASSUME TypeOK, Owner, OneBuild, [Next]_vars PROVE OneBuild'
  OBVIOUS
<1> USE DEF IsOfBuild, Scanning, Writing, Paging
<1>0. build \in 0..MaxBuilds
  BY DEF TypeOK
<1>1. CASE Start \/ Abort \/ UNCHANGED vars
  BY <1>1 DEF Start, Abort, OneBuild, vars, tree, pageVars
<1>2. CASE RemoveTree
  BY <1>2, NoPageType DEF RemoveTree, OneBuild, TypeOK
<1>3. CASE Make
  BY <1>3 DEF Make, Owner, OneBuild, pageVars
<1>4. ASSUME NEW f \in todo, LinkFile(f)
      PROVE  OneBuild'
  BY <1>4 DEF LinkFile, Owner, OneBuild, TypeOK, pageVars
<1>5. ASSUME NEW f \in todo, SkipFile(f) \/ ReadFile(f)
      PROVE  OneBuild'
  BY <1>5 DEF SkipFile, ReadFile, OneBuild, tree, pageVars
<1>6. CASE OpenMain
  BY <1>6 DEF OpenMain, Written, Owner, OneBuild, buildVars
<1>7. CASE WriteMain
  BY <1>7 DEF WriteMain, Written, Owner, OneBuild
<1>8. ASSUME NEW n \in toWrite, OpenPage(n)
      PROVE  OneBuild'
  BY <1>8 DEF OpenPage, Written, Owner, OneBuild, TypeOK
<1>9. ASSUME NEW n \in toWrite, WritePage(n)
      PROVE  OneBuild'
  <2>1. pages' = [pages EXCEPT ![n] = Written("whole", pages[n].entries)]
    BY <1>9 DEF WritePage
  <2> QED
    BY <1>9, <2>1 DEF WritePage, Written, Owner, OneBuild, TypeOK
<1>10. CASE OpenLinks \/ WriteLinks
  BY <1>10 DEF OpenLinks, WriteLinks, Written, Owner, OneBuild, buildVars
<1>11. ASSUME NEW f \in Changing, Put(f) \/ Delete(f)
       PROVE  OneBuild'
  BY <1>11 DEF Put, Delete, OneBuild, tree, pageVars
<1> QED
  BY <1>1, <1>2, <1>3, <1>4, <1>5, <1>6, <1>7, <1>8, <1>9, <1>10, <1>11 DEF Next, Step

--------------------------------------------------------------------------------
(***************************************************************************)
(* The files of the directory                                              *)
(***************************************************************************)

\* A change of one file keeps what agrees: that file no longer counts.
LEMMA ChangeAgrees ==
  ASSUME TypeOK, NEW f \in FileName, Put(f) \/ Delete(f), NEW entries, NEW files, NEW others,
         Agrees(entries, files), \A g \in FileName \ {f} : g \in others <=> g \in files
  PROVE  AgreesWith(entries, others, content', touched')
<1> SUFFICES ASSUME NEW e \in Entry, e.file \notin touched'
             PROVE  e \in entries <=> e.file \in others /\ e.checksum = content'[e.file]
  BY DEF AgreesWith
<1>1. e.file # f /\ e.file \notin touched
  BY DEF Put, Delete
<1>2. e.file \in FileName
  BY DEF Entry
<1>3. content'[e.file] = content[e.file]
  BY <1>1, <1>2 DEF Put, Delete, TypeOK
<1>4. e \in entries <=> e.file \in files /\ e.checksum = content[e.file]
  BY <1>1 DEF Agrees, AgreesWith
<1> QED
  BY <1>1, <1>2, <1>3, <1>4

LEMMA NextGatheredAgrees ==
  TypeOK /\ OnlyNamed /\ Owner /\ GatheredAgrees /\ [Next]_vars => GatheredAgrees'
<1> SUFFICES ASSUME TypeOK, OnlyNamed, Owner, GatheredAgrees, [Next]_vars
             PROVE  GatheredAgrees'
  OBVIOUS
<1> USE DEF Scanning, Writing, Paging
<1>1. CASE Start \/ RemoveTree \/ Abort
  BY <1>1 DEF Start, RemoveTree, Abort, GatheredAgrees, buildVars
<1>2. CASE Make
  <2>1. CASE made = 0
    <3>1. gathered' = {} /\ todo' = directory /\ directory' = directory /\ pc' = "scan"
      BY <1>2, <2>1 DEF Make, GatheredAgrees
    <3> QED
      BY <3>1 DEF GatheredAgrees, Agrees, AgreesWith
  <2>2. CASE made # 0
    BY <1>2, <2>2 DEF Make, GatheredAgrees
  <2> QED
    BY <2>1, <2>2
<1>3. ASSUME NEW f \in todo, SkipFile(f)
      PROVE  GatheredAgrees'
  <2>1. f \notin Named \cap directory
    BY <1>3 DEF SkipFile, Named
  <2>2. (Named \cap directory) \ (todo \ {f}) = (Named \cap directory) \ todo
    BY <2>1
  <2> QED
    BY <1>3, <2>2 DEF SkipFile, GatheredAgrees, Agrees, AgreesWith
<1>4. ASSUME NEW f \in todo, LinkFile(f)
      PROVE  GatheredAgrees'
  BY <1>4 DEF LinkFile, GatheredAgrees, Agrees, AgreesWith, buildVars
<1>5. ASSUME NEW f \in todo, ReadFile(f)
      PROVE  GatheredAgrees'
  <2>1. CASE f \in directory
    <3>1. f \in Named
      BY <1>5 DEF ReadFile, Owner, OnlyNamed, TypeOK
    <3>2. /\ gathered' = gathered \cup {[file |-> f, checksum |-> content[f]]}
          /\ todo' = todo \ {f} /\ pc' = "scan"
          /\ directory' = directory /\ content' = content /\ touched' = touched
      BY <1>5, <2>1 DEF ReadFile
    <3>3. Agrees(gathered, (Named \cap directory) \ todo)
      BY <1>5 DEF ReadFile, GatheredAgrees
    <3>4. ASSUME NEW e \in Entry, e.file \notin touched
          PROVE  e \in gathered' <=>
                   e.file \in (Named \cap directory) \ todo' /\ e.checksum = content[e.file]
      <4>1. CASE e.file = f
        <5>1. e \notin gathered
          BY <3>3, <3>4, <4>1 DEF Agrees, AgreesWith
        <5>2. e = [file |-> f, checksum |-> content[f]] <=> e.checksum = content[e.file]
          BY <4>1 DEF Entry
        <5> QED
          BY <2>1, <3>1, <3>2, <4>1, <5>1, <5>2
      <4>2. CASE e.file # f
        <5>1. e # [file |-> f, checksum |-> content[f]]
          BY <4>2
        <5>2. e \in gathered' <=> e \in gathered
          BY <3>2, <5>1
        <5>3. e.file \in todo' <=> e.file \in todo
          BY <3>2, <4>2
        <5>4. e \in gathered <=> e.file \in (Named \cap directory) \ todo
                                 /\ e.checksum = content[e.file]
          BY <3>3, <3>4 DEF Agrees, AgreesWith
        <5> QED
          BY <5>2, <5>3, <5>4
      <4> QED
        BY <4>1, <4>2
    <3> QED
      BY <3>2, <3>4 DEF GatheredAgrees, Agrees, AgreesWith
  <2>2. CASE f \notin directory
    BY <1>5, <2>2 DEF ReadFile, GatheredAgrees
  <2> QED
    BY <2>1, <2>2
<1>6. CASE OpenMain \/ WriteMain
  BY <1>6 DEF OpenMain, WriteMain, GatheredAgrees, Agrees, AgreesWith, buildVars
<1>7. CASE OpenLinks \/ WriteLinks
  BY <1>7 DEF OpenLinks, WriteLinks, GatheredAgrees, Agrees, AgreesWith, buildVars
<1>8. ASSUME NEW n \in toWrite, OpenPage(n) \/ WritePage(n)
      PROVE  GatheredAgrees'
  BY <1>8 DEF OpenPage, WritePage, GatheredAgrees, Agrees, AgreesWith, buildVars
<1>9. CASE UNCHANGED vars
  BY <1>9 DEF vars, GatheredAgrees, Agrees, AgreesWith, buildVars
<1>10. ASSUME NEW f \in Changing, Put(f) \/ Delete(f)
       PROVE  GatheredAgrees'
  <2>1. pc' = pc /\ gathered' = gathered /\ todo' = todo
    BY <1>10 DEF Put, Delete, buildVars
  <2>2. f \in FileName
    BY IndexAssumption
  <2>3. \A g \in FileName \ {f} : g \in directory' <=> g \in directory
    BY <1>10 DEF Put, Delete
  <2>4. CASE pc \in Scanning \cup Writing
    <3>1. Agrees(gathered, (Named \cap directory) \ todo)
      BY <2>4 DEF GatheredAgrees
    <3>2. \A g \in FileName \ {f} : g \in (Named \cap directory') \ todo
                                    <=> g \in (Named \cap directory) \ todo
      BY <2>3
    <3>3. AgreesWith(gathered, (Named \cap directory') \ todo, content', touched')
      BY <1>10, <2>2, <3>1, <3>2, ChangeAgrees
    <3> QED
      BY <2>1, <3>3 DEF GatheredAgrees, Agrees
  <2>5. CASE pc \notin Scanning \cup Writing
    BY <2>1, <2>5 DEF GatheredAgrees
  <2> QED
    BY <2>4, <2>5
<1> QED
  BY <1>1, <1>2, <1>3, <1>4, <1>5, <1>6, <1>7, <1>8, <1>9, <1>10 DEF Next, Step

\* The links of a package are those of its files.
LEMMA EntriesAgree ==
  ASSUME TypeOK, OnlyNamed, NEW n, Agrees(gathered, Named \cap directory)
  PROVE  /\ Agrees(EntriesOf(gathered, n), Owned(n))
         /\ \A e \in EntriesOf(gathered, n) : e.file \in Named /\ PackageName(e.file) = n
<1> QED
  BY DEF Agrees, AgreesWith, EntriesOf, Owned, OnlyNamed

LEMMA NextPagesAgree ==
  TypeOK /\ OnlyNamed /\ Owner /\ GatheredAgrees /\ PagesAgree /\ [Next]_vars => PagesAgree'
<1> SUFFICES ASSUME TypeOK, OnlyNamed, Owner, GatheredAgrees, PagesAgree, [Next]_vars
             PROVE  PagesAgree'
  OBVIOUS
<1>1. CASE Start \/ Abort \/ UNCHANGED vars
  BY <1>1 DEF Start, Abort, PagesAgree, Agrees, AgreesWith, Owned, vars, tree, pageVars
<1>2. CASE RemoveTree
  BY <1>2, NoPageType DEF RemoveTree, PagesAgree, Agrees, AgreesWith, Owned
<1>3. CASE Make
  <2>1. CASE made = 0
    BY <1>3, <2>1 DEF Make, Owner, PagesAgree, pageVars
  <2>2. CASE made # 0
    BY <1>3, <2>2 DEF Make, PagesAgree, Agrees, AgreesWith, Owned, pageVars
  <2> QED
    BY <2>1, <2>2
<1>4. ASSUME NEW f \in todo, SkipFile(f) \/ LinkFile(f) \/ ReadFile(f)
      PROVE  PagesAgree'
  BY <1>4 DEF SkipFile, LinkFile, ReadFile, PagesAgree, Agrees, AgreesWith, Owned, tree, pageVars
<1>5. CASE OpenMain \/ WriteMain \/ OpenLinks \/ WriteLinks
  BY <1>5 DEF OpenMain, WriteMain, OpenLinks, WriteLinks, PagesAgree, Agrees, AgreesWith, Owned
<1>6. ASSUME NEW n \in toWrite, OpenPage(n)
      PROVE  PagesAgree'
  <2>1. Agrees(gathered, Named \cap directory)
    BY <1>6 DEF OpenPage, GatheredAgrees, Writing, Paging
  <2>2. /\ Agrees(EntriesOf(gathered, n), Owned(n))
        /\ \A e \in EntriesOf(gathered, n) : e.file \in Named /\ PackageName(e.file) = n
    BY <2>1, EntriesAgree
  <2>3. /\ pages' = [pages EXCEPT ![n] = Written("partial", EntriesOf(gathered, n))]
        /\ directory' = directory /\ content' = content /\ touched' = touched
    BY <1>6 DEF OpenPage
  <2>4. Written("partial", EntriesOf(gathered, n)).entries = EntriesOf(gathered, n)
    BY DEF Written
  <2>5. ASSUME NEW m \in Page, pages'[m].status # "absent"
        PROVE  /\ Agrees(pages'[m].entries, Owned(m))
               /\ \A e \in pages'[m].entries : e.file \in Named /\ PackageName(e.file) = m
    <3>1. CASE m = n
      <4>1. pages'[m].entries = EntriesOf(gathered, n)
        BY <2>3, <2>4, <3>1 DEF TypeOK
      <4> QED
        BY <2>2, <3>1, <4>1
    <3>2. CASE m # n
      BY <2>3, <2>5, <3>2 DEF TypeOK, PagesAgree
    <3> QED
      BY <3>1, <3>2
  <2> QED
    BY <2>3, <2>5 DEF PagesAgree, Agrees, AgreesWith, Owned
<1>7. ASSUME NEW n \in toWrite, WritePage(n)
      PROVE  PagesAgree'
  <2>1. /\ pages' = [pages EXCEPT ![n] = Written("whole", pages[n].entries)]
        /\ directory' = directory /\ content' = content /\ touched' = touched
        /\ pages[n].status = "partial"
    BY <1>7 DEF WritePage
  <2>2. Written("whole", pages[n].entries).entries = pages[n].entries
    BY DEF Written
  <2>3. ASSUME NEW m \in Page, pages'[m].status # "absent"
        PROVE  pages'[m].entries = pages[m].entries /\ pages[m].status # "absent"
    BY <2>1, <2>2, <2>3 DEF TypeOK
  <2> QED
    BY <2>1, <2>3 DEF PagesAgree, Agrees, AgreesWith, Owned
<1>8. ASSUME NEW f \in Changing, Put(f) \/ Delete(f)
      PROVE  PagesAgree'
  <2>1. pages' = pages
    BY <1>8 DEF Put, Delete, tree, pageVars
  <2>2. f \in FileName
    BY IndexAssumption
  <2>3. ASSUME NEW n \in Page, pages[n].status # "absent"
        PROVE  Agrees(pages[n].entries, Owned(n))'
    <3>1. Agrees(pages[n].entries, Owned(n))
      BY <2>3 DEF PagesAgree
    <3>2. \A g \in FileName \ {f} : g \in Owned(n)' <=> g \in Owned(n)
      BY <1>8 DEF Owned, Put, Delete
    <3>3. AgreesWith(pages[n].entries, Owned(n)', content', touched')
      BY <1>8, <2>2, <3>1, <3>2, ChangeAgrees
    <3> QED
      BY <2>1, <3>3 DEF Agrees, AgreesWith
  <2> QED
    BY <2>1, <2>3 DEF PagesAgree
<1> QED
  BY <1>1, <1>2, <1>3, <1>4, <1>5, <1>6, <1>7, <1>8 DEF Next, Step

--------------------------------------------------------------------------------
(***************************************************************************)
(* The order of the pages                                                  *)
(***************************************************************************)

LEMMA NextInOrder == TypeOK /\ OnlyNamed /\ Owner /\ InOrder /\ [Next]_vars => InOrder'
<1> SUFFICES ASSUME TypeOK, OnlyNamed, Owner, InOrder, [Next]_vars PROVE InOrder'
  OBVIOUS
<1> USE DEF Scanning, Writing, Paging
<1>1. CASE Start \/ RemoveTree \/ WriteLinks \/ Abort
  BY <1>1 DEF Start, RemoveTree, WriteLinks, Abort, InOrder
<1>2. CASE Make
  BY <1>2 DEF Make, Owner, InOrder, pageVars
<1>3. ASSUME NEW f \in todo, SkipFile(f) \/ LinkFile(f) \/ ReadFile(f)
      PROVE  InOrder'
  BY <1>3 DEF SkipFile, LinkFile, ReadFile, InOrder, tree, pageVars
<1>4. CASE OpenMain
  <2>1. Written("partial", NamesOf(gathered)).entries = NamesOf(gathered)
    BY DEF Written
  <2> QED
    BY <1>4, <2>1 DEF OpenMain, InOrder, buildVars
<1>5. CASE WriteMain
  <2>1. /\ Written("whole", main.entries).entries = main.entries
        /\ Written("whole", main.entries).status = "whole"
    BY DEF Written
  <2>2. NamesOf(gathered) \in SUBSET Page
    BY NamesArePages DEF OnlyNamed
  <2> QED
    BY <1>5, <2>1, <2>2 DEF WriteMain, InOrder
<1>6. ASSUME NEW n \in toWrite, OpenPage(n)
      PROVE  InOrder'
  <2> DEFINE page == Written("partial", EntriesOf(gathered, n))
  <2>1. page.status = "partial" /\ page.entries = EntriesOf(gathered, n)
    BY DEF Written
  <2> HIDE DEF page
  <2>2. /\ pages' = [pages EXCEPT ![n] = page] /\ pc' = "page" /\ pc = "pages"
        /\ UNCHANGED <<main, links, gathered, toWrite>>
    BY <1>6 DEF OpenPage, buildVars, page
  <2>3. toWrite \subseteq NamesOf(gathered) /\ toWrite \subseteq Page
    BY <2>2 DEF InOrder, TypeOK
  <2>4. pages'[n] = page /\ \A m \in Page \ {n} : pages'[m] = pages[m]
    BY <2>2, <2>3 DEF TypeOK
  <2>5. NamesOf(gathered) \in SUBSET Page
    BY NamesArePages DEF OnlyNamed
  <2> QED
    BY <2>1, <2>2, <2>3, <2>4, <2>5 DEF InOrder
<1>7. ASSUME NEW n \in toWrite, WritePage(n)
      PROVE  InOrder'
  <2> DEFINE page == Written("whole", pages[n].entries)
  <2>1. page.status = "whole" /\ page.entries = pages[n].entries
    BY DEF Written
  <2> HIDE DEF page
  <2>2. /\ pages' = [pages EXCEPT ![n] = page] /\ pc' = "pages" /\ pc = "page"
        /\ toWrite' = toWrite \ {n} /\ pages[n].status = "partial"
        /\ UNCHANGED <<main, links, gathered>>
    BY <1>7 DEF WritePage, page
  <2>3. toWrite \subseteq NamesOf(gathered) /\ toWrite \subseteq Page
    BY <2>2 DEF InOrder, TypeOK
  <2>4. pages'[n] = page /\ \A m \in Page \ {n} : pages'[m] = pages[m]
    BY <2>2, <2>3 DEF TypeOK
  <2>5. pages[n].entries = EntriesOf(gathered, n)
    BY <2>2 DEF InOrder
  <2>6. NamesOf(gathered) \in SUBSET Page
    BY NamesArePages DEF OnlyNamed
  <2> QED
    BY <2>1, <2>2, <2>3, <2>4, <2>5, <2>6 DEF InOrder
<1>8. CASE OpenLinks
  <2>1. Written("partial", gathered).entries = gathered
    BY DEF Written
  <2> QED
    BY <1>8, <2>1 DEF OpenLinks, InOrder, buildVars
<1>9. CASE UNCHANGED vars
  BY <1>9 DEF vars, InOrder, buildVars, tree, pageVars
<1>10. ASSUME NEW f \in Changing, Put(f) \/ Delete(f)
       PROVE  InOrder'
  BY <1>10 DEF Put, Delete, InOrder, buildVars, tree, pageVars
<1> QED
  BY <1>1, <1>2, <1>3, <1>4, <1>5, <1>6, <1>7, <1>8, <1>9, <1>10 DEF Next, Step

--------------------------------------------------------------------------------
(***************************************************************************)
(* Finite pages                                                            *)
(***************************************************************************)

LEMMA NextFiniteEntries == TypeOK /\ FiniteEntries /\ [Next]_vars => FiniteEntries'
<1> SUFFICES ASSUME TypeOK, FiniteEntries, [Next]_vars PROVE FiniteEntries'
  OBVIOUS
<1>1. CASE RemoveTree
  <2>1. gathered' = gathered
    BY <1>1 DEF RemoveTree, buildVars
  <2>2. \A n \in Page : pages'[n] = pages[n] \/ pages'[n] = NoPage
    BY <1>1 DEF RemoveTree
  <2>3. IsFiniteSet(NoPage.entries)
    BY FS_EmptySet DEF NoPage
  <2> QED
    BY <2>1, <2>2, <2>3 DEF FiniteEntries
<1>2. ASSUME NEW f \in todo, ReadFile(f)
      PROVE  FiniteEntries'
  <2>1. \/ gathered' = gathered
        \/ gathered' = gathered \cup {[file |-> f, checksum |-> content[f]]}
    BY <1>2 DEF ReadFile
  <2>2. IsFiniteSet(gathered')
    BY <2>1, FS_AddElement DEF FiniteEntries
  <2>3. pages' = pages
    BY <1>2 DEF ReadFile, tree, pageVars
  <2> QED
    BY <2>2, <2>3 DEF FiniteEntries
<1>3. ASSUME NEW n \in toWrite, OpenPage(n)
      PROVE  FiniteEntries'
  <2>1. IsFiniteSet(EntriesOf(gathered, n))
    BY FS_Subset DEF EntriesOf, FiniteEntries
  <2>2. Written("partial", EntriesOf(gathered, n)).entries = EntriesOf(gathered, n)
    BY DEF Written
  <2>3. /\ pages' = [pages EXCEPT ![n] = Written("partial", EntriesOf(gathered, n))]
        /\ gathered' = gathered
    BY <1>3 DEF OpenPage, buildVars
  <2>4. ASSUME NEW m \in Page
        PROVE  IsFiniteSet(pages'[m].entries)
    <3>1. CASE m = n
      <4>1. pages'[m].entries = EntriesOf(gathered, n)
        BY <2>2, <2>3, <3>1 DEF TypeOK
      <4> QED
        BY <2>1, <4>1
    <3>2. CASE m # n
      BY <2>3, <3>2 DEF FiniteEntries, TypeOK
    <3> QED
      BY <3>1, <3>2
  <2> QED
    BY <2>3, <2>4 DEF FiniteEntries
<1>4. ASSUME NEW n \in toWrite, WritePage(n)
      PROVE  FiniteEntries'
  <2>1. /\ pages' = [pages EXCEPT ![n] = Written("whole", pages[n].entries)]
        /\ gathered' = gathered
    BY <1>4 DEF WritePage
  <2>2. Written("whole", pages[n].entries).entries = pages[n].entries
    BY DEF Written
  <2>3. \A m \in Page : pages'[m].entries = pages[m].entries
    BY <2>1, <2>2 DEF TypeOK
  <2> QED
    BY <2>1, <2>3 DEF FiniteEntries
<1>5. CASE Start
  BY <1>5, FS_EmptySet DEF Start, FiniteEntries, tree, pageVars
<1>6. CASE gathered' = gathered /\ pages' = pages
  BY <1>6 DEF FiniteEntries
<1>7. ASSUME NEW f \in todo, SkipFile(f) \/ LinkFile(f)
      PROVE  gathered' = gathered /\ pages' = pages
  BY <1>7 DEF SkipFile, LinkFile, buildVars, tree, pageVars
<1>8. CASE Make \/ OpenMain \/ WriteMain \/ OpenLinks \/ WriteLinks
  BY <1>6, <1>8 DEF Make, OpenMain, WriteMain, OpenLinks, WriteLinks, buildVars, pageVars
<1>9. CASE Abort \/ UNCHANGED vars
  BY <1>6, <1>9 DEF Abort, vars, buildVars, tree, pageVars
<1>10. ASSUME NEW f \in Changing, Put(f) \/ Delete(f)
       PROVE  gathered' = gathered /\ pages' = pages
  BY <1>10 DEF Put, Delete, buildVars, tree, pageVars
<1> QED
  BY <1>1, <1>2, <1>3, <1>4, <1>5, <1>6, <1>7, <1>8, <1>9, <1>10 DEF Next, Step

--------------------------------------------------------------------------------
(***************************************************************************)
(* The inductive invariant                                                 *)
(***************************************************************************)

LEMMA InitIInv == Init => IInv
<1> SUFFICES ASSUME Init PROVE IInv
  OBVIOUS
<1>1. TypeOK
  BY InitType
<1>2. OnlyNamed /\ Owner /\ OneBuild
  BY NoPageType DEF Init, OnlyNamed, Owner, OneBuild, IsOfBuild, Scanning, Writing, Paging
<1>3. GatheredAgrees /\ PagesAgree /\ InOrder
  BY NoPageType DEF Init, GatheredAgrees, PagesAgree, InOrder, Scanning, Writing, Paging
<1>4. FiniteEntries
  BY FS_EmptySet DEF Init, FiniteEntries, NoPage
<1> QED
  BY <1>1, <1>2, <1>3, <1>4 DEF IInv

LEMMA SpecIInv == Spec => []IInv
<1>1. IInv /\ [Next]_vars => IInv'
  BY NextType, NextOnlyNamed, NextOwner, NextOneBuild, NextGatheredAgrees, NextPagesAgree,
     NextInOrder, NextFiniteEntries DEF IInv
<1> QED
  BY <1>1, InitIInv, PTL DEF Spec

--------------------------------------------------------------------------------
(***************************************************************************)
(* What a reader finds                                                     *)
(***************************************************************************)

\* Of a distribution the generator and the repositories take the same name.
LEMMA SameName ==
  ASSUME NEW f \in FileName, IsDist(f)
  PROVE  PackageName(f) = NameOf(f)
<1>1. CASE IsWheel(f)
  BY <1>1 DEF IsWheel, PackageName, NameOf
<1>2. CASE ~ IsWheel(f)
  <2>1. f.extension \in {".zip", ".tar.gz"}
    BY <1>2 DEF IsDist, IsSdistName, IsWheelName
  <2> QED
    BY <1>2, <2>1 DEF PackageName, NameOf
<1> QED
  BY <1>1, <1>2

\* A read of a page gives some of its files.
LEMMA ReadIsOfPage ==
  ASSUME NEW page, NEW files \in Read(page)
  PROVE  \A f \in files : \E e \in page.entries : e.file = f
<1>1. CASE page.status = "absent"
  BY <1>1 DEF Read
<1>2. CASE page.status = "whole"
  BY <1>2 DEF Read
<1>3. CASE page.status \notin {"absent", "whole"}
  BY <1>3 DEF Read
<1> QED
  BY <1>1, <1>2, <1>3

LEMMA PackagesAreOwn ==
  ASSUME NEW files \in SUBSET FileName, NEW n, \A f \in files : PackageName(f) = n,
         NEW p \in PackagesFrom(files, Rank)
  PROVE  p.name = n
<1> DEFINE dists == {f \in files : IsDist(f)}
<1>1. PICK f \in dists :
        p = PackageFromDists({g \in dists : SortKey(g) = SortKey(f)}, Rank)
  BY DEF PackagesFrom
<1> DEFINE group == {g \in dists : SortKey(g) = SortKey(f)}
<1>2. group \in SUBSET FileName /\ group # {}
  OBVIOUS
<1>3. First(group, Rank) \in group
  BY <1>2, FirstIsIn, IndexAssumption
<1>4. NameOf(First(group, Rank)) = n
  BY <1>3, SameName
<1> HIDE DEF group
<1>5. p.name = NameOf(First(group, Rank))
  BY <1>1 DEF PackageFromDists, group
<1> QED
  BY <1>4, <1>5

\* A distribution that did not change is on the page of its name when that is whole.
LEMMA KeptIsOnPage ==
  ASSUME IInv, NEW n \in Page, pages[n].status = "whole", NEW f \in Kept(n)
  PROVE  f \in {e.file : e \in pages[n].entries}
<1>1. /\ f \in FileName /\ f \in directory /\ f \notin touched
      /\ IsDist(f) /\ ~ f.hidden /\ NameOf(f) = n
  BY DEF Kept, IInv, TypeOK
<1>2. f \in Named
  BY <1>1 DEF Named, IsIndexed, HasPackageName, SdistExtensions, IsDist, IsWheelName,
              IsSdistName, IsWheel
<1>3. f \in Owned(n)
  BY <1>1, <1>2, SameName DEF Owned
<1> DEFINE e == [file |-> f, checksum |-> content[f]]
<1>4. e \in Entry /\ e.file = f /\ e.checksum = content[f]
  BY <1>1 DEF Entry, IInv, TypeOK
<1>5. Agrees(pages[n].entries, Owned(n))
  BY DEF IInv, PagesAgree
<1> HIDE DEF e
<1>6. e \in pages[n].entries
  BY <1>1, <1>3, <1>4, <1>5 DEF Agrees, AgreesWith
<1> QED
  BY <1>4, <1>6

\* A read of a whole page gives its files, which are finitely many, and those that
\* are distributions have its name.
LEMMA WholeRead ==
  ASSUME IInv, NEW n \in Page, pages[n].status = "whole", NEW files \in Read(pages[n])
  PROVE  /\ files = {e.file : e \in pages[n].entries}
         /\ files \in SUBSET FileName /\ IsFiniteSet(files)
         /\ \A f \in files : IsDist(f) => NameOf(f) = n
<1>1. files = {e.file : e \in pages[n].entries}
  BY DEF Read
<1>2. pages[n].entries \in SUBSET Entry
  BY PageFields DEF IInv, TypeOK
<1>3. files \in SUBSET FileName
  BY <1>1, <1>2 DEF Entry
<1>4. IsFiniteSet(files)
  <2> DEFINE entries == pages[n].entries
             file == [e \in entries |-> e.file]
  <2>1. IsFiniteSet(entries)
    BY DEF IInv, FiniteEntries
  <2>2. file \in Surjection(entries, files)
    BY <1>1 DEF Surjection
  <2> HIDE DEF entries, file
  <2> QED
    BY <2>1, <2>2, FS_Surjection
<1>5. \A f \in files : PackageName(f) = n
  BY <1>1 DEF IInv, PagesAgree
<1> QED
  BY <1>1, <1>3, <1>4, <1>5, SameName

--------------------------------------------------------------------------------
(***************************************************************************)
(* Theorems                                                                *)
(***************************************************************************)

\* The directory, the build and simple/ have their types, whatever fails.
THEOREM IndexTypes == Spec => []TypeOK
<1>1. IInv => TypeOK
  BY DEF IInv
<1> QED
  BY <1>1, SpecIInv, PTL

\* simple/ never mixes two builds.
THEOREM IndexIsOfOneBuild == Spec => []OneBuild
<1>1. IInv => OneBuild
  BY DEF IInv
<1> QED
  BY <1>1, SpecIInv, PTL

\* A whole page has every file of its package, with its checksum, and no other,
\* but for files that changed since simple/ was made.
THEOREM WholePagesAreComplete == Spec => []PagesComplete
<1>1. IInv => PagesComplete
  <2> SUFFICES ASSUME IInv, NEW n \in Page, pages[n].status = "whole"
               PROVE  {e \in pages[n].entries : e.file \notin touched} =
                        {[file |-> f, checksum |-> content[f]] :
                           f \in {f \in (Named \cap directory) \ touched : PackageName(f) = n}}
    BY DEF PagesComplete
  <2> DEFINE kept == {f \in (Named \cap directory) \ touched : PackageName(f) = n}
  <2>1. Agrees(pages[n].entries, Owned(n)) /\ pages[n].entries \in SUBSET Entry
    BY PageFields DEF IInv, PagesAgree, TypeOK
  <2>2. ASSUME NEW e \in pages[n].entries, e.file \notin touched
        PROVE  e.file \in kept /\ e = [file |-> e.file, checksum |-> content[e.file]]
    <3>1. e \in Entry /\ e.file \in Owned(n) /\ e.checksum = content[e.file]
      BY <2>1, <2>2 DEF Agrees, AgreesWith
    <3> QED
      BY <2>2, <3>1 DEF Entry, Owned
  <2>3. ASSUME NEW f \in kept
        PROVE  /\ [file |-> f, checksum |-> content[f]] \in pages[n].entries
               /\ f \notin touched
    <3> DEFINE e == [file |-> f, checksum |-> content[f]]
    <3>1. f \in FileName /\ content[f] \in 1..MaxContent /\ f \notin touched
      BY DEF IInv, TypeOK
    <3>2. e \in Entry /\ e.file = f /\ e.checksum = content[f]
      BY <3>1 DEF Entry
    <3>3. f \in Owned(n)
      BY DEF Owned
    <3> HIDE DEF e
    <3>4. e \in pages[n].entries
      BY <2>1, <3>1, <3>2, <3>3 DEF Agrees, AgreesWith
    <3> QED
      BY <3>1, <3>4 DEF e
  <2> HIDE DEF kept
  <2>4. {e \in pages[n].entries : e.file \notin touched} =
          {[file |-> f, checksum |-> content[f]] : f \in kept}
    BY <2>2, <2>3
  <2> QED
    BY <2>4 DEF kept
<1> QED
  BY <1>1, SpecIInv, PTL

\* What is read from a page, whole or in part, are packages of its name.
THEOREM PagesHaveTheirOwn == Spec => []PagesAreOwn
<1>1. IInv => PagesAreOwn
  <2> SUFFICES ASSUME IInv, NEW n \in Page, NEW files \in Read(pages[n]),
                      NEW p \in PackagesFrom(files, Rank)
               PROVE  p.name = n
    BY DEF PagesAreOwn, Offers
  <2>1. pages[n].entries \in SUBSET Entry
    BY PageFields DEF IInv, TypeOK
  <2>2. \A f \in files : \E e \in pages[n].entries : e.file = f
    BY ReadIsOfPage
  <2>3. files \in SUBSET FileName
    BY <2>1, <2>2 DEF Entry
  <2>4. CASE pages[n].status # "absent"
    <3>1. \A f \in files : PackageName(f) = n
      BY <2>2, <2>4 DEF IInv, PagesAgree
    <3> QED
      BY <2>3, <3>1, PackagesAreOwn
  <2>5. CASE pages[n].status = "absent"
    BY <2>5 DEF Read
  <2> QED
    BY <2>4, <2>5
<1> QED
  BY <1>1, SpecIInv, PTL

\* When links.html is written, the main page and all others are there, and
\* their links are its links.
THEOREM LinksComeLast == Spec => LinksLast
<1>1. IInv /\ [Next]_vars => LinksComplete
  <2> SUFFICES ASSUME IInv, [Next]_vars, links'.status = "whole", links.status # "whole"
               PROVE  LinksComplete
    BY DEF LinksComplete
  <2>1. WriteLinks
    <3>1. CASE RemoveTree
      BY <3>1, NoPageType DEF RemoveTree
    <3>2. CASE OpenLinks
      BY <3>2 DEF OpenLinks, Written
    <3>3. CASE links' = links
      BY <3>3
    <3>4. \/ RemoveTree \/ OpenLinks \/ WriteLinks \/ links' = links
      <4>1. CASE Step
        BY <4>1 DEF Step, Make, SkipFile, LinkFile, ReadFile, OpenMain, WriteMain, OpenPage,
                    WritePage, tree, pageVars
      <4>2. CASE ~ Step
        BY <4>2 DEF Next, Start, Abort, Put, Delete, vars, tree, pageVars
      <4> QED
        BY <4>1, <4>2
    <3> QED
      BY <3>1, <3>2, <3>3, <3>4
  <2>2. /\ main' = main /\ pages' = pages /\ pc = "links"
        /\ links' = Written("whole", links.entries)
    BY <2>1 DEF WriteLinks
  <2>3. /\ main.status = "whole" /\ main.entries = NamesOf(gathered)
        /\ links.entries = gathered
        /\ \A n \in NamesOf(gathered) :
             pages[n].status = "whole" /\ pages[n].entries = EntriesOf(gathered, n)
    BY <2>2 DEF IInv, InOrder, Writing, Paging
  <2>4. links'.entries = gathered
    BY <2>2, <2>3 DEF Written
  <2>5. UNION {pages[n].entries : n \in NamesOf(gathered)} = gathered
    <3>1. {pages[n].entries : n \in NamesOf(gathered)} =
            {EntriesOf(gathered, n) : n \in NamesOf(gathered)}
      BY <2>3
    <3> QED
      BY <3>1, UnionOfEntries
  <2> QED
    BY <2>2, <2>3, <2>4, <2>5 DEF LinksComplete
<1> QED
  BY <1>1, SpecIInv, PTL DEF Spec, LinksLast

\* A page that is whole stays as it is, until it goes with simple/.
THEOREM WholePagesStayWhole == Spec => WholePagesStay
<1>1. IInv /\ [Next]_vars => \A n \in Page : WholeStays(n)
  <2> SUFFICES ASSUME IInv, [Next]_vars, NEW m \in Page, pages[m].status = "whole"
               PROVE  pages'[m] = pages[m] \/ pages'[m].status = "absent"
    BY DEF WholeStays
  <2>1. CASE RemoveTree
    BY <2>1, NoPageType DEF RemoveTree
  <2>2. ASSUME NEW n \in toWrite, OpenPage(n) \/ WritePage(n)
        PROVE  pages'[m] = pages[m]
    <3>1. pc \in Paging
      BY <2>2 DEF OpenPage, WritePage, Paging
    <3>2. m # n
      BY <3>1 DEF IInv, InOrder
    <3> QED
      BY <2>2, <3>2 DEF OpenPage, WritePage, IInv, TypeOK
  <2>3. CASE pages' = pages
    BY <2>3
  <2>4. \/ RemoveTree \/ pages' = pages
        \/ \E n \in toWrite : OpenPage(n) \/ WritePage(n)
    <3>1. CASE Step
      BY <3>1 DEF Step, Make, SkipFile, LinkFile, ReadFile, OpenMain, WriteMain, OpenLinks,
                  WriteLinks, tree, pageVars
    <3>2. CASE ~ Step
      BY <3>2 DEF Next, Start, Abort, Put, Delete, vars, tree, pageVars
    <3> QED
      BY <3>1, <3>2
  <2> QED
    BY <2>1, <2>2, <2>3, <2>4
<1> QED
  BY <1>1, SpecIInv, PTL DEF Spec, WholePagesStay

\* Looked up by their version, exactly the wheels of the directory that fit the
\* environment are found, when equal versions on the page have one text.
THEOREM KeptWheelsAreServed == Spec => []WheelsAreServed
<1>1. IInv => WheelsAreServed
  <2> SUFFICES ASSUME IInv, NEW n \in Page, NEW environment \in Environment,
                      pages[n].status = "whole", OneText(n),
                      NEW f \in Kept(n), IsWheel(f), NEW files \in Read(pages[n])
               PROVE  f \in UNION {SupportedWheels(p, environment) :
                                   p \in PackageVersion(PackagesFrom(files, Rank), VersionOf(f))}
                        <=> \E tag \in WheelTags(f) : Fits(tag, environment)
    BY DEF WheelsAreServed, Offers
  <2> DEFINE packages == PackagesFrom(files, Rank)
             own == PackageOf(f, files, Rank)
             fits == \E tag \in WheelTags(f) : Fits(tag, environment)
  <2>0. Rank \in [FileName -> Nat] /\ files \in SUBSET FileName
    BY WholeRead, IndexAssumption
  <2>1. /\ files = {e.file : e \in pages[n].entries}
        /\ files \in SUBSET FileName /\ IsFiniteSet(files)
    BY WholeRead
  <2>2. f \in files /\ IsDist(f) /\ f \in FileName /\ IsWheelName(f)
    BY <2>1, KeptIsOnPage DEF Kept, IsDist, IsSdistName, IsWheel
  <2>3. is_supported_by_tags(f, EnvironmentTags[environment]) <=> fits
    BY <2>2, SupportedFits
  <2>4. own \in packages /\ f \in own.wheels
    BY <2>1, <2>2, NoDistributionIsDropped, IndexAssumption
  <2>5. own.version = VersionOf(f)
    <3>1. PICK g \in SameKey(f, files) : own.version = VersionOf(g)
      BY <2>0, <2>2, PackageOfFile
    <3>2. g \in files /\ IsDist(g) /\ SortKey(g) = SortKey(f)
      BY DEF SameKey
    <3>3. VersionOf(g) = VersionOf(f)
      BY <2>1, <2>2, <3>2 DEF OneText
    <3> QED
      BY <3>1, <3>3
  <2> HIDE DEF own, packages, fits
  <2>6. own \in PackageVersion(packages, VersionOf(f))
    BY <2>4, <2>5 DEF PackageVersion
  <2>7. f \in SupportedWheels(own, environment) <=> fits
    BY <2>3, <2>4 DEF SupportedWheels
  <2>8. \A p \in packages : f \in SupportedWheels(p, environment) => fits
    BY <2>3 DEF SupportedWheels
  <2>9. f \in UNION {SupportedWheels(p, environment) : p \in PackageVersion(packages, VersionOf(f))}
          <=> fits
    BY <2>6, <2>7, <2>8 DEF PackageVersion
  <2> QED
    BY <2>9 DEF packages, fits
<1> QED
  BY <1>1, SpecIInv, PTL

\* The latest version is one package, with all the newest wheels of the directory
\* and with an sdist when one of the newest files is one, in any spelling.
THEOREM LatestVersionIsServed == Spec => []LatestIsServed
<1>1. IInv => LatestIsServed
  <2> SUFFICES ASSUME IInv, NEW n \in Page, pages[n].status = "whole",
                      NEW files \in Read(pages[n]), NEW f \in Kept(n),
                      \A e \in pages[n].entries : IsDist(e.file) =>
                        Ordinal[VersionOf(e.file)] <= Ordinal[VersionOf(f)]
               PROVE  \E p \in LatestVersion(PackagesFrom(files, Rank)) :
                        /\ LatestVersion(PackagesFrom(files, Rank)) = {p}
                        /\ IsWheel(f) => f \in p.wheels
                        /\ ~ IsWheel(f) => p.sdist # {}
    BY DEF LatestIsServed, Offers
  <2> DEFINE packages == PackagesFrom(files, Rank)
             own == PackageOf(f, files, Rank)
  <2>0. Rank \in [FileName -> Nat] /\ files \in SUBSET FileName
    BY WholeRead, IndexAssumption
  <2>1. /\ files = {e.file : e \in pages[n].entries}
        /\ files \in SUBSET FileName /\ IsFiniteSet(files)
        /\ \A g \in files : IsDist(g) => NameOf(g) = n
    BY WholeRead
  <2>2. f \in files /\ IsDist(f) /\ NameOf(f) = n
    BY <2>1, KeptIsOnPage DEF Kept
  <2>3. /\ own \in packages
        /\ IsWheel(f) => f \in own.wheels
        /\ ~ IsWheel(f) => own.sdist # {}
    BY <2>1, <2>2, NoDistributionIsDropped, IndexAssumption
  <2>4. own.name = n /\ Ordinal[own.version] = Ordinal[VersionOf(f)]
    BY <2>0, <2>2, PackageOfFile
  <2>5. ASSUME NEW q \in packages
        PROVE  /\ q.name = n
               /\ Ordinal[q.version] \in Nat /\ Ordinal[q.version] <= Ordinal[own.version]
    <3>1. PICK g \in files : IsDist(g) /\ q = PackageOf(g, files, Rank)
      BY PackagesAreOfFiles
    <3>2. q.name = NameOf(g) /\ Ordinal[q.version] = Ordinal[VersionOf(g)]
      BY <2>0, <3>1, PackageOfFile
    <3>3. Ordinal[VersionOf(g)] <= Ordinal[VersionOf(f)]
      BY <2>1, <3>1
    <3>4. Ordinal[VersionOf(g)] \in Nat
      BY <2>1, <3>1, VersionsAreOrdered
    <3> QED
      BY <2>1, <2>4, <3>1, <3>2, <3>3, <3>4
  <2>6. own \in LatestVersion(packages)
    BY <2>3, <2>5 DEF LatestVersion
  <2>7. ASSUME NEW q \in LatestVersion(packages)
        PROVE  q = own
    <3>1. q \in packages /\ Ordinal[own.version] <= Ordinal[q.version]
      BY <2>3, <2>7 DEF LatestVersion
    <3>2. Ordinal[q.version] = Ordinal[own.version]
      BY <2>3, <2>5, <3>1
    <3> QED
      BY <2>1, <2>3, <2>4, <2>5, <3>1, <3>2, OnePackagePerVersion, IndexAssumption
  <2> HIDE DEF own, packages
  <2>8. LatestVersion(packages) = {own}
    BY <2>6, <2>7
  <2> QED
    BY <2>3, <2>6, <2>8 DEF packages
<1> QED
  BY <1>1, SpecIInv, PTL
--------------------------------------------------------------------------------
(***************************************************************************)
(* An index that was built to its end                                      *)
(***************************************************************************)

\* After a build that ends, and until the next one starts, the index is whole: every
\* page is, the pages are those that the main one lists, every link leads to a file that
\* is linked, and every distribution that did not change since is linked and is on the
\* page of its package and in links.html, with its checksum.
IndexIsWhole ==
  pc = "done" =>
    /\ main.status = "whole" /\ links.status = "whole"
    /\ \A n \in Page : pages[n].status = IF n \in main.entries THEN "whole" ELSE "absent"
    /\ links.entries = UNION {pages[n].entries : n \in main.entries}
    /\ \A e \in links.entries : linked[e.file] = made
    /\ \A f \in (Named \cap directory) \ touched :
         LET entry == [file |-> f, checksum |-> content[f]]
         IN  /\ linked[f] = made /\ entry \in links.entries
             /\ PackageName(f) \in main.entries /\ entry \in pages[PackageName(f)].entries

\* What a build has read it has linked.
ReadIsLinked ==
  pc \in Scanning \cup Writing \cup {"done"} => \A e \in gathered : linked[e.file] = made

\* At its end everything that was read is on its page and in links.html.
Finished ==
  pc = "done" =>
    /\ Agrees(gathered, Named \cap directory)
    /\ main.status = "whole" /\ main.entries = NamesOf(gathered)
    /\ links.status = "whole" /\ links.entries = gathered
    /\ \A n \in NamesOf(gathered) :
         pages[n].status = "whole" /\ pages[n].entries = EntriesOf(gathered, n)
    /\ \A n \in Page : n \notin NamesOf(gathered) => pages[n].status = "absent"

LEMMA NextReadIsLinked == IInv /\ ReadIsLinked /\ [Next]_vars => ReadIsLinked'
<1> SUFFICES ASSUME IInv, ReadIsLinked, [Next]_vars PROVE ReadIsLinked'
  OBVIOUS
<1> USE DEF Scanning, Writing, Paging
<1>1. TypeOK /\ \A e \in gathered : e.file \in FileName
  BY DEF IInv, TypeOK, Entry
<1>2. CASE Start \/ RemoveTree \/ Abort
  BY <1>2 DEF Start, RemoveTree, Abort, ReadIsLinked
<1>3. CASE Make
  BY <1>3 DEF Make, IInv, GatheredAgrees, ReadIsLinked
<1>4. ASSUME NEW f \in todo, SkipFile(f)
      PROVE  ReadIsLinked'
  BY <1>4 DEF SkipFile, ReadIsLinked, tree
<1>5. ASSUME NEW f \in todo, LinkFile(f)
      PROVE  ReadIsLinked'
  <2>1. /\ pc = "scan" /\ UNCHANGED <<gathered, made>> /\ made = build
        /\ linked' = linked \/ linked' = [linked EXCEPT ![f] = build]
    BY <1>5 DEF LinkFile, buildVars, IInv, Owner
  <2> QED
    BY <1>1, <2>1 DEF ReadIsLinked, TypeOK
<1>6. ASSUME NEW f \in todo, ReadFile(f)
      PROVE  ReadIsLinked'
  <2>1. /\ pc = "read" /\ linked[f] = build /\ UNCHANGED <<linked, made>> /\ made = build
        /\ gathered' \subseteq gathered \cup {[file |-> f, checksum |-> content[f]]}
    BY <1>6 DEF ReadFile, tree, IInv, Owner
  <2> QED
    BY <2>1 DEF ReadIsLinked
<1>7. CASE OpenMain \/ WriteMain \/ OpenLinks \/ WriteLinks
  BY <1>7 DEF OpenMain, WriteMain, OpenLinks, WriteLinks, ReadIsLinked, buildVars
<1>8. ASSUME NEW n \in toWrite, OpenPage(n) \/ WritePage(n)
      PROVE  ReadIsLinked'
  BY <1>8 DEF OpenPage, WritePage, ReadIsLinked, buildVars
<1>9. CASE UNCHANGED vars \/ \E f \in Changing : Put(f) \/ Delete(f)
  BY <1>9 DEF vars, Put, Delete, ReadIsLinked, buildVars, tree
<1> QED
  BY <1>2, <1>3, <1>4, <1>5, <1>6, <1>7, <1>8, <1>9 DEF Next, Step

LEMMA NextFinished == IInv /\ Finished /\ [Next]_vars => Finished'
<1> SUFFICES ASSUME IInv, Finished, [Next]_vars, pc' = "done" PROVE Finished'
  BY DEF Finished
<1>1. CASE WriteLinks
  <2>1. /\ pc = "links" /\ UNCHANGED <<directory, content, touched, gathered, main, pages>>
        /\ links' = Written("whole", links.entries)
    BY <1>1 DEF WriteLinks, buildVars
  <2>2. links'.status = "whole" /\ links'.entries = links.entries
    BY <2>1 DEF Written
  <2>3. todo = {} /\ toWrite = {} /\ Agrees(gathered, (Named \cap directory) \ todo)
    BY <2>1 DEF IInv, GatheredAgrees, InOrder, Writing, Paging
  <2>4. Agrees(gathered, Named \cap directory)
    BY <2>3, (Named \cap directory) \ {} = Named \cap directory
  <2>5. Agrees(gathered, Named \cap directory)'
    BY <2>1, <2>4 DEF Agrees, AgreesWith
  <2>6. /\ main.status = "whole" /\ main.entries = NamesOf(gathered)
        /\ links.entries = gathered
        /\ \A n \in NamesOf(gathered) :
             pages[n].status = "whole" /\ pages[n].entries = EntriesOf(gathered, n)
        /\ \A n \in Page : n \notin NamesOf(gathered) => pages[n].status = "absent"
    BY <2>1, <2>3 DEF IInv, InOrder, Writing, Paging
  <2> QED
    BY <2>1, <2>2, <2>5, <2>6 DEF Finished
<1>2. ASSUME NEW f \in Changing, Put(f) \/ Delete(f)
      PROVE  Finished'
  <2>1. f \in FileName /\ TypeOK
    BY IndexAssumption DEF IInv
  <2>2. UNCHANGED <<pc, gathered, main, pages, links>>
    BY <1>2 DEF Put, Delete, buildVars, tree, pageVars
  <2>3. \A g \in FileName \ {f} : g \in Named \cap directory' <=> g \in Named \cap directory
    BY <1>2 DEF Put, Delete
  <2>4. AgreesWith(gathered, Named \cap directory', content', touched')
    BY <1>2, <2>1, <2>2, <2>3, ChangeAgrees DEF Finished
  <2>5. Agrees(gathered, Named \cap directory)'
    BY <2>2, <2>4 DEF Agrees
  <2> QED
    BY <2>2, <2>5 DEF Finished
<1>3. CASE UNCHANGED vars
  BY <1>3 DEF vars, buildVars, tree, pageVars, Finished, Agrees, AgreesWith
<1>4. CASE Start \/ Abort \/ (Step /\ ~ WriteLinks)
  BY <1>4 DEF Start, Abort, Step, RemoveTree, Make, SkipFile, LinkFile, ReadFile, OpenMain,
              WriteMain, OpenPage, WritePage, OpenLinks
<1> QED
  BY <1>1, <1>2, <1>3, <1>4 DEF Next

\* A build that ends leaves a whole index, whatever was left by earlier ones and
\* whatever comes, goes and changes in the directory meanwhile.
THEOREM FinishedIndexIsWhole == Spec => []IndexIsWhole
<1>1. Init => ReadIsLinked /\ Finished
  BY DEF Init, ReadIsLinked, Finished
<1>2. IInv /\ ReadIsLinked /\ Finished => IndexIsWhole
  <2> SUFFICES ASSUME IInv, ReadIsLinked, Finished, pc = "done" PROVE IndexIsWhole
    BY DEF IndexIsWhole
  <2>1. /\ Agrees(gathered, Named \cap directory)
        /\ main.status = "whole" /\ main.entries = NamesOf(gathered)
        /\ links.status = "whole" /\ links.entries = gathered
        /\ \A n \in NamesOf(gathered) :
             pages[n].status = "whole" /\ pages[n].entries = EntriesOf(gathered, n)
        /\ \A n \in Page : n \notin NamesOf(gathered) => pages[n].status = "absent"
        /\ \A e \in gathered : linked[e.file] = made
    BY DEF Finished, ReadIsLinked
  <2>2. links.entries = UNION {pages[n].entries : n \in main.entries}
    <3>1. {pages[n].entries : n \in NamesOf(gathered)} =
            {EntriesOf(gathered, n) : n \in NamesOf(gathered)}
      BY <2>1
    <3> QED
      BY <2>1, <3>1, UnionOfEntries
  <2>3. ASSUME NEW f \in (Named \cap directory) \ touched,
               NEW entry, entry = [file |-> f, checksum |-> content[f]]
        PROVE  /\ linked[f] = made /\ entry \in links.entries
               /\ PackageName(f) \in main.entries /\ entry \in pages[PackageName(f)].entries
    <3>1. entry \in Entry /\ entry.file = f /\ entry.checksum = content[f]
      BY <2>3 DEF IInv, TypeOK, Entry, Named
    <3>2. entry \in gathered
      BY <2>1, <3>1 DEF Agrees, AgreesWith
    <3>3. PackageName(f) \in NamesOf(gathered) /\ entry \in EntriesOf(gathered, PackageName(f))
      BY <3>1, <3>2 DEF NamesOf, EntriesOf
    <3> QED
      BY <2>1, <3>1, <3>2, <3>3
  <2>4. \A n \in Page : pages[n].status = IF n \in main.entries THEN "whole" ELSE "absent"
    BY <2>1
  <2> QED
    BY <2>1, <2>2, <2>3, <2>4 DEF IndexIsWhole
<1> QED
  BY <1>1, <1>2, SpecIInv, NextReadIsLinked, NextFinished, PTL DEF Spec
================================================================================
