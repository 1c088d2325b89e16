------------------------------ MODULE SimpleIndex ------------------------------
(***************************************************************************)
(* etc/scripts/gen_pypi_simple.py: build_pypi_index deletes the simple/    *)
(* tree of a directory of distributions and builds it again, while files   *)
(* come and go in the directory, and PypiSimpleRepository.fetch_links      *)
(* reads pages of it.  A build fails or is killed at any statement; the    *)
(* next one starts with what is left.                                      *)
(*                                                                         *)
(* What a file holds is a number that is never used again for its name,    *)
(* so that it stands for the checksum; a part of a download is one of the  *)
(* things that it holds.  A page is written in two steps, since write_text *)
(* empties it first; while it is partial a read gets some first part of    *)
(* its links.  The directory of a package is there with its first link.    *)
(***************************************************************************)
EXTENDS Packages

CONSTANTS
  Directories,   \* what the directory may hold at first
  Changing,      \* the files that come, go and are replaced meanwhile
  Rank,          \* of each filename: its place in the sorted order
  MaxContent,    \* bound: how often a file is replaced
  MaxBuilds      \* bound: how often an index is built

ASSUME IndexAssumption ==
  /\ Directories \subseteq SUBSET FileName /\ Changing \subseteq FileName
  /\ Rank \in [FileName -> Nat]
  /\ \A f, g \in FileName : Rank[f] = Rank[g] => f = g
  /\ MaxContent \in Nat \ {0} /\ MaxBuilds \in Nat

VARIABLES
  directory,   \* the files in the directory
  content,     \* of each file: what it holds, or held last
  pc,          \* where the build is
  build,       \* its number
  todo,        \* the files of the listing that it has not dealt with
  gathered,    \* packages_by_package_name: the files it has read, with checksums
  toWrite,     \* the names whose page it has not written
  made,        \* the build that made simple/, or 0 when there is none
  linked,      \* of each file: the build that linked it in simple/, or 0
  main,        \* simple/index.html
  pages,       \* of each name: simple/<name>/index.html
  links,       \* simple/links.html
  touched      \* the files that changed since simple/ was made

buildVars == <<build, todo, gathered, toWrite>>
pageVars == <<main, pages, links>>
tree == <<made, linked, pageVars>>
vars == <<directory, content, pc, buildVars, tree, touched>>

--------------------------------------------------------------------------------
\* dist_exts: sdists, wheels and applications.
SdistExtensions == {".tar.gz", ".tar.bz2", ".zip", ".tar.xz"}
IsIndexed(f) == f.extension \in SdistExtensions \cup {".whl", ".pyz"} /\ ~ f.hidden

\* What get_package_name_from_filename does not raise for.
HasPackageName(f) ==
  CASE f.extension = ".whl" -> Len(f.parts) >= 5
    [] f.extension = ".pyz" -> TRUE
    [] OTHER -> Len(f.parts) >= 2

\* Mutant: the name of an sdist ends at its first dash.
NameToFirstDash(f) ==
  normalize_name(IF Len(f.parts) = 1 THEN f.parts ELSE <<f.parts[1]>>)

PackageName(f) ==
  normalize_name(CASE f.extension = ".whl" -> <<f.parts[1]>>
                   [] f.extension = ".pyz" /\ Len(f.parts) = 1 -> f.parts
                   [] OTHER -> Front(f.parts))

Named == {f \in FileName : IsIndexed(f) /\ HasPackageName(f)}
Page == {PackageName(f) : f \in Named}

\* The link of a file on a page: the file and its checksum.
Entry == [file : FileName, checksum : 1..MaxContent]
PageFile(entries) ==
  [status : {"absent", "partial", "whole"}, build : 0..MaxBuilds, entries : SUBSET entries]
NoPage == [status |-> "absent", build |-> 0, entries |-> {}]

EntriesOf(entries, name) == {e \in entries : PackageName(e.file) = name}
NamesOf(entries) == {PackageName(e.file) : e \in entries}

Init ==
  /\ directory \in Directories
  /\ content = [f \in FileName |-> 1]
  /\ pc = "idle" /\ build = 0
  /\ todo = {} /\ gathered = {} /\ toWrite = {}
  /\ made = 0
  /\ linked = [f \in FileName |-> 0]
  /\ main = NoPage /\ pages = [n \in Page |-> NoPage] /\ links = NoPage
  /\ touched = {}

Busy == pc \notin {"idle", "done", "ended"}

--------------------------------------------------------------------------------
\* build_pypi_index up to the test for an old index.
Start ==
  /\ ~ Busy /\ build < MaxBuilds
  /\ build' = build + 1
  /\ todo' = {} /\ gathered' = {} /\ toWrite' = {}
  /\ pc' = IF made # 0 THEN "remove" ELSE "make"
  /\ UNCHANGED <<directory, content, tree, touched>>

\* shutil.rmtree with ignore_errors: what cannot be removed stays, and simple/
\* with it.
RemoveTree ==
  /\ pc = "remove"
  /\ \E files \in SUBSET {f \in FileName : linked[f] # 0},
        names \in SUBSET {n \in Page : pages[n] # NoPage},
        others \in SUBSET {"root", "main", "links"} :
       /\ linked' = [f \in FileName |-> IF f \in files THEN linked[f] ELSE 0]
       /\ pages' = [n \in Page |-> IF n \in names THEN pages[n] ELSE NoPage]
       /\ main' = IF "main" \in others THEN main ELSE NoPage
       /\ links' = IF "links" \in others THEN links ELSE NoPage
       /\ made' = IF files = {} /\ names = {} /\ others = {} THEN 0 ELSE made
  /\ pc' = "make"
  /\ UNCHANGED <<directory, content, buildVars, touched>>

\* Mutant: simple/ may exist already.
MakeIfMissing ==
  /\ pc = "make"
  /\ pc' = "scan" /\ made' = build /\ todo' = directory /\ touched' = {}
  /\ UNCHANGED <<directory, content, build, gathered, toWrite, linked, pageVars>>

\* index_dir.mkdir, which fails when something was left, and the listing.
Make ==
  /\ pc = "make"
  /\ IF made # 0
     THEN pc' = "ended" /\ UNCHANGED <<made, todo, touched>>
     ELSE pc' = "scan" /\ made' = build /\ todo' = directory /\ touched' = {}
  /\ UNCHANGED <<directory, content, build, gathered, toWrite, linked, pageVars>>

\* A file that is gone, or is no distribution.
SkipFile(f) ==
  /\ pc = "scan" /\ f \in todo
  /\ ~ (f \in directory /\ IsIndexed(f))
  /\ todo' = todo \ {f}
  /\ UNCHANGED <<directory, content, pc, build, gathered, toWrite, tree, touched>>

\* A file is linked before it is read; one without a valid name ends the build.
LinkFile(f) ==
  /\ pc = "scan" /\ f \in todo
  /\ f \in directory /\ IsIndexed(f)
  /\ IF HasPackageName(f)
     THEN pc' = "read" /\ linked' = [linked EXCEPT ![f] = build]
     ELSE pc' = "ended" /\ UNCHANGED linked
  /\ UNCHANGED <<directory, content, buildVars, made, pageVars, touched>>

\* Mutant: a file that is gone is listed without a checksum.
ReadGone(f) ==
  /\ pc = "read" /\ f \in todo /\ linked[f] = build
  /\ gathered' = gathered \cup
       {[file |-> f, checksum |-> IF f \in directory THEN content[f] ELSE 0]}
  /\ todo' = todo \ {f}
  /\ pc' = "scan"
  /\ UNCHANGED <<directory, content, build, toWrite, tree, touched>>

\* Mutant: a name keeps the last file that was read for it.
ReadOverOthers(f) ==
  /\ pc = "read" /\ f \in todo /\ linked[f] = build
  /\ IF f \in directory
     THEN /\ gathered' = {e \in gathered : PackageName(e.file) # PackageName(f)}
                          \cup {[file |-> f, checksum |-> content[f]]}
          /\ todo' = todo \ {f}
          /\ pc' = "scan"
     ELSE pc' = "ended" /\ UNCHANGED <<gathered, todo>>
  /\ UNCHANGED <<directory, content, build, toWrite, tree, touched>>

\* Package.from_file of the file that was linked; one that is gone by now ends
\* the build.
ReadFile(f) ==
  /\ pc = "read" /\ f \in todo /\ linked[f] = build
  /\ IF f \in directory
     THEN /\ gathered' = gathered \cup {[file |-> f, checksum |-> content[f]]}
          /\ todo' = todo \ {f}
          /\ pc' = "scan"
     ELSE pc' = "ended" /\ UNCHANGED <<gathered, todo>>
  /\ UNCHANGED <<directory, content, build, toWrite, tree, touched>>

--------------------------------------------------------------------------------
Written(status, entries) == [status |-> status, build |-> build, entries |-> entries]

OpenMain ==
  /\ pc = "scan" /\ todo = {}
  /\ main' = Written("partial", NamesOf(gathered))
  /\ pc' = "main"
  /\ UNCHANGED <<directory, content, buildVars, made, linked, pages, links, touched>>

WriteMain ==
  /\ pc = "main"
  /\ main' = Written("whole", main.entries)
  /\ toWrite' = NamesOf(gathered)
  /\ pc' = "pages"
  /\ UNCHANGED <<directory, content, build, todo, gathered, made, linked, pages, links,
                 touched>>

OpenPage(n) ==
  /\ pc = "pages" /\ n \in toWrite
  /\ pages' = [pages EXCEPT ![n] = Written("partial", EntriesOf(gathered, n))]
  /\ pc' = "page"
  /\ UNCHANGED <<directory, content, buildVars, made, linked, main, links, touched>>

\* The page that was opened.
WritePage(n) ==
  /\ pc = "page" /\ n \in toWrite /\ pages[n].status = "partial"
  /\ pages' = [pages EXCEPT ![n] = Written("whole", @.entries)]
  /\ toWrite' = toWrite \ {n}
  /\ pc' = "pages"
  /\ UNCHANGED <<directory, content, build, todo, gathered, made, linked, main, links,
                 touched>>

\* Mutant: the page with all links is written before those of the packages.
OpenLinksFirst ==
  /\ pc = "pages"
  /\ links' = Written("partial", gathered)
  /\ pc' = "links"
  /\ UNCHANGED <<directory, content, buildVars, made, linked, main, pages, touched>>

OpenLinks ==
  /\ pc = "pages" /\ toWrite = {}
  /\ links' = Written("partial", gathered)
  /\ pc' = "links"
  /\ UNCHANGED <<directory, content, buildVars, made, linked, main, pages, touched>>

WriteLinks ==
  /\ pc = "links"
  /\ links' = Written("whole", links.entries)
  /\ pc' = "done"
  /\ UNCHANGED <<directory, content, buildVars, made, linked, main, pages, touched>>

\* An error of the file system, or the end of the process.
Abort ==
  /\ Busy
  /\ pc' = "ended"
  /\ UNCHANGED <<directory, content, buildVars, tree, touched>>

--------------------------------------------------------------------------------
\* A file comes, or another one takes its place.
Put(f) ==
  /\ content[f] < MaxContent
  /\ content' = [content EXCEPT ![f] = @ + 1]
  /\ directory' = directory \cup {f}
  /\ touched' = touched \cup {f}
  /\ UNCHANGED <<pc, buildVars, tree>>

Delete(f) ==
  /\ f \in directory
  /\ directory' = directory \ {f}
  /\ touched' = touched \cup {f}
  /\ UNCHANGED <<content, pc, buildVars, tree>>

Step ==
  \/ RemoveTree \/ Make
  \/ \E f \in todo : SkipFile(f) \/ LinkFile(f) \/ ReadFile(f)
  \/ OpenMain \/ WriteMain
  \/ \E n \in toWrite : OpenPage(n) \/ WritePage(n)
  \/ OpenLinks \/ WriteLinks

Next ==
  \/ Start
  \/ Step
  \/ Abort
  \/ \E f \in Changing : Put(f) \/ Delete(f)

Spec == Init /\ [][Next]_vars

--------------------------------------------------------------------------------
\* fetch_links, without the checksums: what a read of a page may get now.
Read(page) ==
  {{e.file : e \in entries} : entries \in
     CASE page.status = "absent" -> {}
       [] page.status = "whole" -> {page.entries}
       [] OTHER -> {s \in SUBSET page.entries :
                      \A e \in s, d \in page.entries :
                        Rank[d.file] < Rank[e.file] => d \in s}}

Offers(n) == {PackagesFrom(files, Rank) : files \in Read(pages[n])}

TypeOK ==
  /\ directory \in SUBSET FileName
  /\ content \in [FileName -> 1..MaxContent]
  /\ pc \in {"idle", "remove", "make", "scan", "read", "main", "pages", "page", "links",
             "done", "ended"}
  /\ build \in 0..MaxBuilds
  /\ todo \in SUBSET FileName
  /\ gathered \in SUBSET Entry
  /\ toWrite \in SUBSET Page
  /\ made \in 0..MaxBuilds
  /\ linked \in [FileName -> 0..MaxBuilds]
  /\ main \in PageFile(Page)
  /\ pages \in [Page -> PageFile(Entry)]
  /\ links \in PageFile(Entry)
  /\ touched \in SUBSET FileName

IsOfBuild(page, number) == page.status = "absent" \/ page.build = number

\* "The directory/simple/ directory is removed if it exists"
\* (gen_pypi_simple.py:183): simple/ never mixes two builds, whatever was left by
\* one that was cut short or by a removal that failed.
OneBuild ==
  /\ \A f \in FileName : linked[f] \in {0, made}
  /\ \A n \in Page : IsOfBuild(pages[n], made)
  /\ IsOfBuild(main, made) /\ IsOfBuild(links, made)

\* A whole page lists the files of its package as the directory had them when
\* simple/ was made: of those that did not change since, none is missing, none is
\* too much, and the checksums are those of today.  It is so in an index that was
\* cut short, too.
PagesComplete ==
  \A n \in Page : pages[n].status = "whole" =>
    {e \in pages[n].entries : e.file \notin touched} =
      {[file |-> f, checksum |-> content[f]] :
         f \in {f \in (Named \cap directory) \ touched : PackageName(f) = n}}

\* links.html comes last ("a links.html index file ... which is suitable to use
\* with pip's --find-links", gen_pypi_simple.py:184): when it gets whole, the whole
\* index is there, and it has the links of all pages.
LinksComplete ==
  links'.status = "whole" /\ links.status # "whole" =>
    /\ main'.status = "whole" /\ main'.entries = NamesOf(links'.entries)
    /\ \A n \in main'.entries : pages'[n].status = "whole"
    /\ links'.entries = UNION {pages'[n].entries : n \in main'.entries}
LinksLast == [][LinksComplete]_vars

\* A page that readers have seen whole does not change; it may only go.
WholeStays(n) ==
  pages[n].status = "whole" => pages'[n] = pages[n] \/ pages'[n].status = "absent"
WholePagesStay == [][\A n \in Page : WholeStays(n)]_vars

\* The name that the generator files a distribution under is the one that
\* PypiSimpleRepository asks for: every package read from a page, whole or in
\* part, has the name of the page.
PagesAreOwn == \A n \in Page : \A packages \in Offers(n) : \A p \in packages : p.name = n

\* The distributions of a name in the directory that did not change.
Kept(n) == {f \in directory \ touched : IsDist(f) /\ ~ f.hidden /\ NameOf(f) = n}

\* The files on the page that have equal versions have one text for it.
OneText(n) ==
  \A d, e \in pages[n].entries :
    IsDist(d.file) /\ IsDist(e.file) /\ SortKey(d.file) = SortKey(e.file)
      => VersionOf(d.file) = VersionOf(e.file)

\* From the directory to download_wheel: a lookup by version finds every wheel of
\* that version that fits the environment, when equal versions have one text.
WheelsAreServed ==
  \A n \in Page, environment \in Environment :
    pages[n].status = "whole" /\ OneText(n) =>
      \A f \in {f \in Kept(n) : IsWheel(f)}, packages \in Offers(n) :
        LET found == UNION {SupportedWheels(p, environment) :
                            p \in PackageVersion(packages, VersionOf(f))}
        IN  f \in found <=> \E tag \in WheelTags(f) : Fits(tag, environment)

\* With --latest-version, in any spelling of versions: one package, and it holds
\* every wheel of the directory that no other file there is newer than.
LatestIsServed ==
  \A n \in Page : pages[n].status = "whole" /\ pages[n].entries # {} =>
    \A packages \in Offers(n) :
      LET newest == {f \in Kept(n) : \A e \in pages[n].entries : IsDist(e.file) =>
                       Ordinal[VersionOf(e.file)] <= Ordinal[VersionOf(f)]}
      IN  \A f \in newest : \E p \in LatestVersion(packages) :
            /\ LatestVersion(packages) = {p}
            /\ IsWheel(f) => f \in p.wheels
            /\ ~ IsWheel(f) => p.sdist # {}
================================================================================
