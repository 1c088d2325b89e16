------------------------- MODULE FetchThirdpartyProofs -------------------------
(***************************************************************************)
(* What FetchThirdparty keeps true for any packages, repositories and      *)
(* command lines.                                                          *)
(***************************************************************************)
EXTENDS FetchThirdparty, WellFoundedInduction, TLAPS

\* The files of a name that the pages read in this run list.
Listed(r, n) == {f \in packages[r] : f.name = n}

\* The name whose page is asked for.
PageOf(nv) == Normalize[nv[1]]

\* A repository knows no file of a name whose page it was not asked for.
OnlyFetched == \A r \in Repo : \A f \in packages[r] : f.name \in fetched[r]

\* The indexes lose nothing while a run goes on.
IndexGrows == \A r \in Repo : before[r] \subseteq index[r]

\* What was fetched for a package and a dist, and is still there.
Got(nv, dist) ==
  \E o \in obtained : o.nv = nv /\ o.file.dist = dist /\ o.file \in dest

\* What a run was asked for is still to do, or done, or missing.
Accounted ==
  \A nv \in required :
    /\ command.wheels => \A e \in Environment :
         <<nv, e>> \in wheelsToGet \/ <<nv, e>> \in missing \/ Got(nv, e)
    /\ command.sdists =>
         nv \in sdistsToGet \/ <<nv, Sdist>> \in missing \/ Got(nv, Sdist)

\* A run that is done has nothing left and nothing missing.
DoneIsEmpty ==
  pc = "done" => wheelsToGet = {} /\ sdistsToGet = {} /\ MissingInAction = {}

--------------------------------------------------------------------------------
(***************************************************************************)
(* Types                                                                   *)
(***************************************************************************)

LEMMA InitType == Init => TypeOK
<1> SUFFICES ASSUME Init PROVE TypeOK
  OBVIOUS
<1>1. index \in [Repo -> SUBSET File] /\ run \in 0..MaxRuns
  BY ReposAssumption DEF Init
<1>2. /\ fetched \in [Repo -> SUBSET Name] /\ packages \in [Repo -> SUBSET File]
      /\ cached \in [Repo -> SUBSET Name] /\ cachedFiles \in [Repo -> SUBSET File]
      /\ before \in [Repo -> SUBSET File]
  BY <1>1 DEF Init
<1> QED
  BY <1>1, <1>2 DEF Init, TypeOK

\* The names and versions of a command, and those of the destination, are what
\* a run can require.
LEMMA RequiredType ==
  ASSUME TypeOK, NEW c \in Commands
  PROVE  Required(c) \in SUBSET (Spelling \X (0..MaxVersion))
<1> DEFINE Pair == Spelling \X (0..MaxVersion)
           Specs == c.specifiers \cup AcceptedLines(c.lines, c.latest_version)
           Parsed == {get_required_name_version(q, c.latest_version) : q \in Specs}
<1>1. 0 \in 0..MaxVersion
  BY ReposAssumption
<1>2. Specs \subseteq Requirement
  BY CommandsAssumption DEF Command, AcceptedLines
<1>3. Parsed \subseteq Pair
  <2>1. ASSUME NEW q \in Specs
        PROVE  get_required_name_version(q, c.latest_version) \in Pair
    <3>1. q.name \in Spelling /\ q.version \in 0..MaxVersion
      BY <1>2 DEF Requirement
    <3> QED
      BY <1>1, <3>1 DEF get_required_name_version
  <2> HIDE DEF Specs, Pair
  <2> QED
    BY <2>1
<1>4. LocalPackages \subseteq Pair
  <2>1. Name \subseteq Spelling
    BY NamesAssumption DEF Name
  <2>2. \A f \in dest : f.name \in Name /\ f.version \in 0..MaxVersion
    BY ReposAssumption DEF TypeOK, File
  <2> QED
    BY <2>1, <2>2 DEF LocalPackages
<1>5. {<<nv[1], 0>> : nv \in LocalPackages \cup Parsed} \subseteq Pair
  BY <1>1, <1>3, <1>4
<1>6. Required(c) = IF c.latest_version THEN {<<nv[1], 0>> : nv \in LocalPackages \cup Parsed}
                    ELSE LocalPackages \cup Parsed
  BY DEF Required
<1> HIDE DEF Parsed
<1> QED
  BY <1>3, <1>4, <1>5, <1>6

\* The name of a required package is one that has a page.
LEMMA PageType ==
  ASSUME TypeOK, NEW nv \in required
  PROVE  PageOf(nv) \in Name /\ nv[2] \in 0..MaxVersion
BY DEF TypeOK, PageOf, Name

\* Writing pages into the cache keeps its types.
LEMMA CacheType ==
  ASSUME TypeOK, NEW n \in Name, NEW repos \in SUBSET Repo,
         NEW links \in [Repo -> SUBSET File], CachePages(n, repos, links)
  PROVE  cached' \in [Repo -> SUBSET Name] /\ cachedFiles' \in [Repo -> SUBSET File]
BY DEF CachePages, TypeOK

\* What is known of a page is known of files.
LEMMA KnownType ==
  ASSUME TypeOK, NEW r \in Repo, NEW n, NEW failing
  PROVE  Known(r, n, failing) \in SUBSET File /\ Page(r, n) \in SUBSET File
BY DEF Known, Page, CachedPage, TypeOK

\* What RecordVersions does to what a run knows of the indexes.
LEMMA RecordType ==
  ASSUME TypeOK, NEW nv \in required, NEW consulted \in SUBSET Repo,
         NEW failing \in SUBSET Repo, RecordVersions(PageOf(nv), consulted, failing)
  PROVE  /\ fetched' \in [Repo -> SUBSET Name]
         /\ packages' \in [Repo -> SUBSET File]
         /\ cached' \in [Repo -> SUBSET Name]
         /\ cachedFiles' \in [Repo -> SUBSET File]
<1> DEFINE n == PageOf(nv)
           new == {r \in consulted : n \notin fetched[r]}
<1>1. n \in Name
  BY PageType
<1>2. /\ fetched' = [r \in Repo |-> fetched[r] \cup (IF r \in new THEN {n} ELSE {})]
      /\ packages' = [r \in Repo |-> packages[r] \cup
                       (IF r \in new THEN Known(r, n, failing) ELSE {})]
      /\ CachePages(n, new \cap (Asked(n) \ failing), WholePages(n))
  BY DEF RecordVersions
<1>3. new \cap (Asked(n) \ failing) \in SUBSET Repo
  OBVIOUS
<1>4. WholePages(n) \in [Repo -> SUBSET File]
  BY KnownType DEF WholePages
<1> HIDE DEF n, new
<1>5. fetched' \in [Repo -> SUBSET Name]
  BY <1>1, <1>2 DEF TypeOK
<1>6. packages' \in [Repo -> SUBSET File]
  BY <1>2, KnownType DEF TypeOK
<1>7. cached' \in [Repo -> SUBSET Name] /\ cachedFiles' \in [Repo -> SUBSET File]
  BY <1>1, <1>2, <1>3, <1>4, CacheType
<1> QED
  BY <1>5, <1>6, <1>7

\* A download consults repositories.
LEMMA ConsultedType ==
  ASSUME NEW nv, NEW dist, NEW failing
  PROVE  Consulted(nv, dist, failing) \in SUBSET Repo
BY DEF Consulted, Repo

\* Only repositories fail.
LEMMA FailingType ==
  ASSUME NEW n, NEW failing \in SUBSET Asked(n)
  PROVE  failing \in SUBSET Repo
BY DEF Asked

\* The files that a download takes.
LEMMA DownloadType ==
  ASSUME TypeOK, NEW nv \in required, NEW dist \in Dist, NEW failing \in SUBSET Repo,
         Download(nv, dist, failing)
  PROVE  /\ fetched' \in [Repo -> SUBSET Name]
         /\ packages' \in [Repo -> SUBSET File]
         /\ cached' \in [Repo -> SUBSET Name]
         /\ cachedFiles' \in [Repo -> SUBSET File]
         /\ dest' \in SUBSET File
         /\ obtained' \in SUBSET [nv : required, repo : Repo, file : File]
         /\ missing' \in SUBSET (required \X Dist)
<1> DEFINE consulted == Consulted(nv, dist, failing)
           found == {r \in consulted : Suitable(r, nv, dist, failing) # {}}
<1>1. consulted \in SUBSET Repo
  BY DEF Consulted, Repo
<1>2. \A r \in Repo : Suitable(r, nv, dist, failing) \in SUBSET File
  BY KnownType DEF Suitable, PackageVersion
<1>3. /\ fetched' \in [Repo -> SUBSET Name]
      /\ packages' \in [Repo -> SUBSET File]
      /\ cached' \in [Repo -> SUBSET Name]
      /\ cachedFiles' \in [Repo -> SUBSET File]
  BY <1>1, RecordType DEF Download, PageOf
<1>4. dest' \in SUBSET File
  <2>1. dest' = dest \cup UNION {Suitable(r, nv, dist, failing) : r \in found}
    BY DEF Download
  <2>2. found \subseteq Repo
    BY <1>1
  <2> HIDE DEF found
  <2> QED
    BY <1>2, <2>1, <2>2 DEF TypeOK
<1>5. obtained' \in SUBSET [nv : required, repo : Repo, file : File]
  <2> DEFINE Taken(r) == {[nv |-> nv, repo |-> r, file |-> f] :
                            f \in Suitable(r, nv, dist, failing)}
  <2>1. obtained' = obtained \cup UNION {Taken(r) : r \in found}
    BY DEF Download
  <2>2. \A r \in found : Taken(r) \in SUBSET [nv : required, repo : Repo, file : File]
    BY <1>1, <1>2
  <2> HIDE DEF found, Taken
  <2> QED
    BY <2>1, <2>2 DEF TypeOK
<1>6. missing' \in SUBSET (required \X Dist)
  <2>1. missing' = missing \cup (IF found = {} THEN {<<nv, dist>>} ELSE {})
    BY DEF Download
  <2> HIDE DEF found
  <2> QED
    BY <2>1 DEF TypeOK
<1> QED
  BY <1>3, <1>4, <1>5, <1>6

\* What is downloaded is downloaded for a required package.
LEMMA PendingType ==
  ASSUME TypeOK, NEW w \in Pending
  PROVE  w[1] \in required
BY DEF Pending, TypeOK

\* A run that stops leaves files in the destination and pages in the cache.
LEMMA StopType ==
  ASSUME TypeOK, NEW nv \in required, NEW dist, StopIn(nv, dist)
  PROVE  /\ dest' \in SUBSET File
         /\ cached' \in [Repo -> SUBSET Name] /\ cachedFiles' \in [Repo -> SUBSET File]
<1> DEFINE n == PageOf(nv)
           Read(failing, i) == {Repos[j] : j \in 1..i} \cap (Asked(n) \ failing)
<1>1. n \in Name
  BY PageType
<1>2. PICK failing \in SUBSET Asked(n), i \in DOMAIN Repos :
        \/ /\ \E links \in SUBSET Page(Repos[i], n) :
                CachePages(n, Read(failing, i), [WholePages(n) EXCEPT ![Repos[i]] = links])
           /\ UNCHANGED dest
        \/ /\ CachePages(n, Read(failing, i), WholePages(n))
           /\ \E f \in Suitable(Repos[i], nv, dist, failing) : dest' = dest \cup {f}
  BY DEF StopIn, PageOf
<1>3. Read(failing, i) \in SUBSET Repo
  BY DEF Asked
<1>4. WholePages(n) \in [Repo -> SUBSET File]
  BY KnownType DEF WholePages
<1>5. Repos[i] \in Repo
  BY DEF Repo
<1>6. Suitable(Repos[i], nv, dist, failing) \in SUBSET File
  BY <1>5, KnownType DEF Suitable, PackageVersion
<1> HIDE DEF n, Read
<1>7. CASE /\ \E links \in SUBSET Page(Repos[i], n) :
                CachePages(n, Read(failing, i), [WholePages(n) EXCEPT ![Repos[i]] = links])
           /\ UNCHANGED dest
  <2>1. PICK links \in SUBSET Page(Repos[i], n) :
               CachePages(n, Read(failing, i), [WholePages(n) EXCEPT ![Repos[i]] = links])
    BY <1>7
  <2>2. [WholePages(n) EXCEPT ![Repos[i]] = links] \in [Repo -> SUBSET File]
    BY <1>4, <1>5, KnownType
  <2> QED
    BY <1>1, <1>3, <1>7, <2>1, <2>2, CacheType DEF TypeOK
<1>8. CASE /\ CachePages(n, Read(failing, i), WholePages(n))
           /\ \E f \in Suitable(Repos[i], nv, dist, failing) : dest' = dest \cup {f}
  BY <1>1, <1>3, <1>4, <1>6, <1>8, CacheType DEF TypeOK
<1> QED
  BY <1>2, <1>7, <1>8

\* Every step keeps the types.
LEMMA NextType ==
  ASSUME TypeOK, [Next]_vars
  PROVE  TypeOK'
<1>1. ASSUME NEW c \in Commands, Start(c)
      PROVE  TypeOK'
  <2>1. Required(c) \in SUBSET (Spelling \X (0..MaxVersion))
    BY RequiredType
  <2>2. required' \in SUBSET (Spelling \X (0..MaxVersion))
    BY <1>1, <2>1 DEF Start
  <2>3. /\ wheelsToGet' \in SUBSET (required' \X Environment)
        /\ sdistsToGet' \in SUBSET required'
    BY <1>1 DEF Start
  <2>4. /\ fetched' \in [Repo -> SUBSET Name] /\ packages' \in [Repo -> SUBSET File]
        /\ obtained' = {} /\ missing' = {}
    BY <1>1 DEF Start, NewProcess
  <2>5. run' \in 0..MaxRuns
    BY <1>1, ReposAssumption DEF Start, TypeOK
  <2>6. /\ pc' \in {"fetching", "done", "missing", "ended"} /\ command' \in Commands
        /\ UNCHANGED <<index, dest, cached, cachedFiles>> /\ before' = index
    BY <1>1 DEF Start, cacheVars
  <2> QED
    BY <2>2, <2>3, <2>4, <2>5, <2>6 DEF TypeOK
<1>2. ASSUME NEW nv \in required, NEW e \in Environment, DownloadWheel(nv, e)
      PROVE  TypeOK'
  <2>1. PICK failing \in SUBSET Repo : Download(nv, e, failing)
    BY <1>2, FailingType DEF DownloadWheel
  <2>2. e \in Dist
    BY DEF Dist
  <2> QED
    BY <1>2, <2>1, <2>2, DownloadType DEF DownloadWheel, TypeOK
<1>3. ASSUME NEW nv \in required, DownloadSdist(nv)
      PROVE  TypeOK'
  <2>1. CASE WantsSdist(nv)
    <3>1. PICK failing \in SUBSET Repo : Download(nv, Sdist, failing)
      BY <1>3, <2>1, FailingType DEF DownloadSdist
    <3>2. Sdist \in Dist
      BY DEF Dist
    <3> QED
      BY <1>3, <3>1, <3>2, DownloadType DEF DownloadSdist, TypeOK
  <2>2. CASE ~ WantsSdist(nv)
    BY <1>3, <2>2 DEF DownloadSdist, TypeOK, repoVars, cacheVars
  <2> QED
    BY <2>1, <2>2
<1>4. CASE Report
  BY <1>4 DEF Report, TypeOK, workVars, repoVars, cacheVars
<1>5. ASSUME NEW r \in Repo, NEW file \in Releasable[r], Release(r, file)
      PROVE  TypeOK'
  BY <1>5, ReposAssumption DEF Release, TypeOK, workVars, repoVars, cacheVars
<1>6. CASE Abort
  <2>1. /\ fetched' \in [Repo -> SUBSET Name] /\ packages' \in [Repo -> SUBSET File]
        /\ obtained' = {} /\ missing' = {}
    BY <1>6 DEF Abort, NewProcess
  <2>2. /\ dest' \in SUBSET File
        /\ cached' \in [Repo -> SUBSET Name] /\ cachedFiles' \in [Repo -> SUBSET File]
    <3>1. CASE UNCHANGED <<dest, cacheVars>>
      BY <3>1 DEF cacheVars, TypeOK
    <3>2. ASSUME NEW w \in Pending, StopIn(w[1], w[2])
          PROVE  /\ dest' \in SUBSET File
                 /\ cached' \in [Repo -> SUBSET Name] /\ cachedFiles' \in [Repo -> SUBSET File]
      BY <3>2, PendingType, StopType
    <3> QED
      BY <1>6, <3>1, <3>2 DEF Abort
  <2>3. /\ required' = {} /\ wheelsToGet' = {} /\ sdistsToGet' = {} /\ pc' = "ended"
        /\ UNCHANGED <<index, run, command, before>>
    BY <1>6 DEF Abort
  <2> QED
    BY <2>1, <2>2, <2>3 DEF TypeOK
<1>7. CASE UNCHANGED vars
  BY <1>7 DEF vars, TypeOK, workVars, repoVars, cacheVars
<1> QED
  BY <1>1, <1>2, <1>3, <1>4, <1>5, <1>6, <1>7 DEF Next, Step

\* Every reachable state has the types that TypeOK gives.
THEOREM TypeCorrect == Spec => []TypeOK
<1> QED
  BY InitType, NextType, PTL DEF Spec

--------------------------------------------------------------------------------
(***************************************************************************)
(* What a run knows of the indexes                                         *)
(***************************************************************************)

\* A page that was read is not read again and stays as it was; the pages that
\* are consulted are read then.
LEMMA Recorded ==
  ASSUME TypeOK, OnlyFetched, NEW nv \in required,
         NEW consulted \in SUBSET Repo, NEW failing \in SUBSET Repo,
         RecordVersions(PageOf(nv), consulted, failing)
  PROVE  /\ OnlyFetched'
         /\ \A r \in Repo : fetched[r] \subseteq fetched'[r]
         /\ \A r \in Repo : \A m \in fetched[r] : Listed(r, m)' = Listed(r, m)
         /\ \A r \in consulted :
              /\ PageOf(nv) \in fetched'[r]
              /\ Listed(r, PageOf(nv))' = Known(r, PageOf(nv), failing)
         /\ \A r \in Repo : \A m \in fetched'[r] :
              m \in fetched[r] \/ (r \in consulted /\ m = PageOf(nv))
<1> DEFINE n == PageOf(nv)
           new == {r \in consulted : n \notin fetched[r]}
<1>1. /\ fetched' = [r \in Repo |-> fetched[r] \cup (IF r \in new THEN {n} ELSE {})]
      /\ packages' = [r \in Repo |-> packages[r] \cup
                       (IF r \in new THEN Known(r, n, failing) ELSE {})]
  BY DEF RecordVersions
<1>2. \A r \in new : r \in consulted /\ n \notin fetched[r]
  OBVIOUS
<1>3. \A r \in consulted : r \notin new => n \in fetched[r]
  OBVIOUS
<1>4. \A r \in Repo : \A f \in Known(r, n, failing) : f.name = n
  BY DEF Known, Page, CachedPage
<1>5. \A r \in Repo : n \in fetched[r] => Known(r, n, failing) = Listed(r, n)
  BY DEF Known, Listed
<1> HIDE DEF n, new
<1>6. \A r \in Repo : fetched'[r] = fetched[r] \cup (IF r \in new THEN {n} ELSE {})
  BY <1>1
<1>7. \A r \in Repo : packages'[r] = packages[r] \cup
                        (IF r \in new THEN Known(r, n, failing) ELSE {})
  BY <1>1
<1>8. OnlyFetched'
  BY <1>4, <1>6, <1>7 DEF OnlyFetched
<1>9. \A r \in Repo : fetched[r] \subseteq fetched'[r]
  BY <1>6
<1>10. \A r \in Repo : \A m \in fetched[r] : Listed(r, m)' = Listed(r, m)
  BY <1>2, <1>4, <1>7 DEF Listed
<1>11. ASSUME NEW r \in consulted
       PROVE  n \in fetched'[r] /\ Listed(r, n)' = Known(r, n, failing)
  <2>1. CASE r \in new
    BY <1>2, <1>4, <1>6, <1>7, <2>1 DEF Listed, OnlyFetched
  <2>2. CASE r \notin new
    BY <1>3, <1>5, <1>6, <1>10, <2>2
  <2> QED
    BY <2>1, <2>2
<1>12. \A r \in Repo : \A m \in fetched'[r] : m \in fetched[r] \/ (r \in consulted /\ m = n)
  BY <1>2, <1>6
<1> QED
  BY <1>8, <1>9, <1>10, <1>11, <1>12 DEF n

\* Every step keeps that.
LEMMA NextOnlyFetched ==
  ASSUME TypeOK, OnlyFetched, [Next]_vars
  PROVE  OnlyFetched'
<1>1. ASSUME NEW c \in Commands, Start(c)
      PROVE  OnlyFetched'
  BY <1>1 DEF Start, NewProcess, OnlyFetched
<1>2. ASSUME NEW nv \in required, NEW dist, NEW failing \in SUBSET Repo,
             Download(nv, dist, failing)
      PROVE  OnlyFetched'
  BY <1>2, ConsultedType, Recorded DEF Download, PageOf
<1>3. CASE UNCHANGED repoVars
  BY <1>3 DEF repoVars, OnlyFetched
<1>4. ASSUME NEW nv \in required, NEW e \in Environment, DownloadWheel(nv, e)
      PROVE  OnlyFetched'
  BY <1>2, <1>4, FailingType DEF DownloadWheel
<1>5. ASSUME NEW nv \in required, DownloadSdist(nv)
      PROVE  OnlyFetched'
  BY <1>2, <1>3, <1>5, FailingType DEF DownloadSdist
<1>6. CASE Abort
  BY <1>6 DEF Abort, NewProcess, OnlyFetched
<1> QED
  BY <1>1, <1>3, <1>4, <1>5, <1>6 DEF Next, Step, Report, Release, vars

LEMMA AlwaysOnlyFetched == Spec => []OnlyFetched
<1>1. Init => OnlyFetched
  BY DEF Init, OnlyFetched
<1> QED
  BY <1>1, NextOnlyFetched, TypeCorrect, PTL DEF Spec

\* What a run that does not use the cache knows of a page is nothing or at least what
\* the index had at its start.
Fresh ==
  ~ command.use_cached_index =>
    \A r \in Repo : \A n \in fetched[r] :
      Listed(r, n) = {} \/ {f \in before[r] : f.name = n} \subseteq Listed(r, n)

LEMMA DownloadFresh ==
  ASSUME TypeOK, OnlyFetched, IndexGrows, Fresh, NEW nv \in required, NEW dist,
         NEW failing \in SUBSET Repo, Download(nv, dist, failing),
         UNCHANGED <<command, before>>
  PROVE  Fresh'
<1> DEFINE consulted == Consulted(nv, dist, failing)
<1> SUFFICES ASSUME ~ command.use_cached_index, NEW r \in Repo, NEW m \in fetched'[r]
             PROVE  \/ Listed(r, m)' = {}
                    \/ {f \in before[r] : f.name = m} \subseteq Listed(r, m)'
  BY DEF Fresh
<1>1. /\ \A m_1 \in fetched[r] : Listed(r, m_1)' = Listed(r, m_1)
      /\ r \in consulted => Listed(r, PageOf(nv))' = Known(r, PageOf(nv), failing)
      /\ m \in fetched[r] \/ (r \in consulted /\ m = PageOf(nv))
  BY ConsultedType, Recorded DEF Download, PageOf
<1> HIDE DEF consulted
<1>2. CASE m \in fetched[r]
  BY <1>1, <1>2 DEF Fresh
<1>3. CASE m \notin fetched[r]
  <2>1. Known(r, m, failing) = IF r \in failing THEN {} ELSE Page(r, m)
    BY <1>3 DEF Known, IsCached
  <2>2. {f \in before[r] : f.name = m} \subseteq Page(r, m)
    BY DEF IndexGrows, Page
  <2> QED
    BY <1>1, <1>3, <2>1, <2>2
<1> QED
  BY <1>2, <1>3

LEMMA NextFresh ==
  ASSUME TypeOK, OnlyFetched, IndexGrows, Fresh, [Next]_vars
  PROVE  IndexGrows' /\ Fresh'
<1>1. ASSUME NEW c \in Commands, Start(c)
      PROVE  IndexGrows' /\ Fresh'
  BY <1>1 DEF Start, NewProcess, IndexGrows, Fresh
<1>2. CASE UNCHANGED <<index, before, command, repoVars>>
  BY <1>2 DEF repoVars, IndexGrows, Fresh, Listed
<1>3. ASSUME NEW nv \in required, NEW e \in Environment, DownloadWheel(nv, e)
      PROVE  IndexGrows' /\ Fresh'
  BY <1>3, DownloadFresh, FailingType DEF DownloadWheel, IndexGrows
<1>4. ASSUME NEW nv \in required, DownloadSdist(nv)
      PROVE  IndexGrows' /\ Fresh'
  BY <1>2, <1>4, DownloadFresh, FailingType DEF DownloadSdist, IndexGrows
<1>5. CASE Abort
  BY <1>5 DEF Abort, NewProcess, IndexGrows, Fresh
<1>6. ASSUME NEW r \in Repo, NEW file \in Releasable[r], Release(r, file)
      PROVE  IndexGrows' /\ Fresh'
  <2>1. \A q \in Repo : index[q] \subseteq index'[q]
    BY <1>6 DEF Release, TypeOK
  <2> QED
    BY <1>6, <2>1 DEF Release, repoVars, IndexGrows, Fresh, Listed
<1> QED
  BY <1>1, <1>2, <1>3, <1>4, <1>5, <1>6 DEF Next, Step, Report, vars

\* What a run without --use-cached-index knows of the indexes is no older than the
\* run, whatever earlier runs left in the cache and wherever they stopped.
THEOREM NothingStale == Spec => []PagesAreFresh
<1>1. Init => IndexGrows /\ Fresh
  BY DEF Init, IndexGrows, Fresh
<1>2. Fresh => PagesAreFresh
  BY DEF Fresh, Listed, PagesAreFresh
<1> QED
  BY <1>1, <1>2, NextFresh, AlwaysOnlyFetched, TypeCorrect, PTL DEF Spec

--------------------------------------------------------------------------------
(***************************************************************************)
(* Where files come from                                                   *)
(***************************************************************************)

\* The files of a package that a dist and the version asked for select.
Matching(files, nv, dist) == {f \in PackageVersion(files, nv[2]) : f.dist = dist}

\* Nothing that matches was on the page of a repository.
Lacks(r, nv, dist) ==
  PageOf(nv) \in fetched[r] /\ Matching(Listed(r, PageOf(nv)), nv, dist) = {}

\* A file that was fetched, on the page of the first repository that has one.
IsTraced(o) ==
  /\ PageOf(o.nv) \in fetched[o.repo]
  /\ o.file \in PackageVersion(Listed(o.repo, PageOf(o.nv)), o.nv[2])
  /\ o.file \in dest
  /\ \A i, j \in DOMAIN Repos :
       i < j /\ Repos[j] = o.repo => Lacks(Repos[i], o.nv, o.file.dist)

Traced == \A o \in obtained : IsTraced(o)

\* Of the repositories consulted, those before one with a suitable file have none.
LEMMA ConsultedInOrder ==
  ASSUME NEW nv, NEW dist, NEW failing, NEW i \in DOMAIN Repos, NEW j \in DOMAIN Repos,
         i < j, Repos[j] \in Consulted(nv, dist, failing)
  PROVE  Repos[i] \in Consulted(nv, dist, failing) /\ Suitable(Repos[i], nv, dist, failing) = {}
<1>1. DOMAIN Repos = 1..Len(Repos) /\ Len(Repos) \in Nat
  BY ReposAssumption
<1>2. PICK k \in DOMAIN Repos :
        /\ Repos[k] = Repos[j]
        /\ \A l \in 1..(k - 1) : Suitable(Repos[l], nv, dist, failing) = {}
  BY DEF Consulted
<1>3. k = j
  BY <1>2, ReposAssumption
<1>4. \A l \in 1..(j - 1) : Suitable(Repos[l], nv, dist, failing) = {}
  BY <1>2, <1>3
<1>5. i \in 1..(j - 1) /\ 1..(i - 1) \subseteq 1..(j - 1)
  BY <1>1
<1> QED
  BY <1>4, <1>5 DEF Consulted

\* A download keeps what was traced, and what it takes is traced.
LEMMA DownloadTraced ==
  ASSUME TypeOK, OnlyFetched, Traced, NEW nv \in required, NEW dist \in Dist,
         NEW failing \in SUBSET Repo, Download(nv, dist, failing)
  PROVE  Traced'
<1> DEFINE consulted == Consulted(nv, dist, failing)
           found == {r \in consulted : Suitable(r, nv, dist, failing) # {}}
           Taken(r) == {[nv |-> nv, repo |-> r, file |-> f] :
                          f \in Suitable(r, nv, dist, failing)}
<1>1. /\ \A r \in Repo : fetched[r] \subseteq fetched'[r]
      /\ \A r \in Repo : \A m \in fetched[r] : Listed(r, m)' = Listed(r, m)
      /\ \A r \in consulted :
           /\ PageOf(nv) \in fetched'[r]
           /\ Listed(r, PageOf(nv))' = Known(r, PageOf(nv), failing)
  BY ConsultedType, Recorded DEF Download, PageOf
<1>2. \A i \in DOMAIN Repos : Repos[i] \in Repo
  BY DEF Repo
<1>3. \A r : Suitable(r, nv, dist, failing)
               = Matching(Known(r, PageOf(nv), failing), nv, dist)
  BY DEF Suitable, Matching, PageOf
<1>4. /\ obtained' = obtained \cup UNION {Taken(r) : r \in found}
      /\ dest' = dest \cup UNION {Suitable(r, nv, dist, failing) : r \in found}
  BY DEF Download
<1>5. ASSUME NEW o \in obtained
      PROVE  IsTraced(o)'
  <2>1. o.repo \in Repo
    BY DEF TypeOK
  <2>2. IsTraced(o)
    BY DEF Traced
  <2>3. ASSUME NEW r \in Repo, Lacks(r, o.nv, o.file.dist)
        PROVE  Lacks(r, o.nv, o.file.dist)'
    BY <1>1, <2>3 DEF Lacks
  <2> QED
    BY <1>1, <1>2, <1>4, <2>1, <2>2, <2>3 DEF IsTraced
<1>6. ASSUME NEW r \in found, NEW o \in Taken(r)
      PROVE  IsTraced(o)'
  <2>1. PICK f \in Suitable(r, nv, dist, failing) :
               o = [nv |-> nv, repo |-> r, file |-> f]
    OBVIOUS
  <2>2. o.nv = nv /\ o.repo = r /\ o.file = f
    BY <2>1
  <2>3. f.dist = dist /\ f \in PackageVersion(Known(r, PageOf(nv), failing), nv[2])
    BY <1>3, <2>1 DEF Matching
  <2>4. r \in consulted
    OBVIOUS
  <2>5. f \in dest'
    BY <1>4, <2>1
  <2>6. ASSUME NEW i \in DOMAIN Repos, NEW j \in DOMAIN Repos, i < j, Repos[j] = r
        PROVE  Lacks(Repos[i], nv, dist)'
    <3>1. Repos[i] \in consulted /\ Suitable(Repos[i], nv, dist, failing) = {}
      BY <2>4, <2>6, ConsultedInOrder
    <3> QED
      BY <1>1, <1>3, <3>1 DEF Lacks
  <2> HIDE DEF consulted, found, Taken
  <2> QED
    BY <1>1, <2>2, <2>3, <2>4, <2>5, <2>6 DEF IsTraced
<1> HIDE DEF found, Taken
<1> QED
  BY <1>4, <1>5, <1>6 DEF Traced

LEMMA NextTraced ==
  ASSUME TypeOK, OnlyFetched, Traced, [Next]_vars
  PROVE  Traced'
<1>1. ASSUME NEW c \in Commands, Start(c)
      PROVE  Traced'
  BY <1>1 DEF Start, NewProcess, Traced
<1>2. CASE UNCHANGED <<repoVars, obtained>> /\ dest \subseteq dest'
  BY <1>2 DEF repoVars, Traced, IsTraced, Lacks, Listed
<1>3. ASSUME NEW nv \in required, NEW e \in Environment, DownloadWheel(nv, e)
      PROVE  Traced'
  <2>1. e \in Dist
    BY DEF Dist
  <2> QED
    BY <1>3, <2>1, DownloadTraced, FailingType DEF DownloadWheel
<1>4. ASSUME NEW nv \in required, DownloadSdist(nv)
      PROVE  Traced'
  <2>1. Sdist \in Dist
    BY DEF Dist
  <2> QED
    BY <1>2, <1>4, <2>1, DownloadTraced, FailingType DEF DownloadSdist
<1>5. CASE Abort
  BY <1>5 DEF Abort, NewProcess, Traced
<1> QED
  BY <1>1, <1>2, <1>3, <1>4, <1>5 DEF Next, Step, Report, Release, vars

LEMMA AlwaysTraced == Spec => []Traced
<1>1. Init => Traced
  BY DEF Init, Traced
<1> QED
  BY <1>1, NextTraced, AlwaysOnlyFetched, TypeCorrect, PTL DEF Spec

\* Each file comes from the first repository that lists one, however many
\* repositories there are, whatever comes out and whatever fails meanwhile.
THEOREM FromFirst == Spec => []FirstRepository
<1>1. ASSUME Traced PROVE FirstRepository
  <2> SUFFICES ASSUME NEW o \in obtained, NEW i \in DOMAIN Repos, NEW j \in DOMAIN Repos,
                      i < j, Repos[j] = o.repo
               PROVE  /\ PageOf(o.nv) \in fetched[Repos[i]]
                      /\ Suitable(Repos[i], o.nv, o.file.dist, {}) = {}
    BY DEF FirstRepository, PageOf
  <2>1. Lacks(Repos[i], o.nv, o.file.dist)
    BY <1>1 DEF Traced, IsTraced
  <2> QED
    BY <2>1 DEF Lacks, Suitable, Known, Page, Matching, Listed, PageOf
<1> QED
  BY <1>1, AlwaysTraced, PTL

\* Two files that a version or the latest version selects have the same version.
LEMMA SameVersion ==
  ASSUME NEW files \in SUBSET File, NEW version,
         NEW f \in PackageVersion(files, version), NEW g \in PackageVersion(files, version)
  PROVE  f.version = g.version
<1>1. f.version \in Int /\ g.version \in Int
  BY ReposAssumption DEF PackageVersion, File
<1> QED
  BY <1>1 DEF PackageVersion

\* A run mixes no versions of one package from one repository.
THEOREM NoMixedVersions == Spec => []OneVersion
<1>1. ASSUME TypeOK, Traced PROVE OneVersion
  <2> SUFFICES ASSUME NEW o \in obtained, NEW p \in obtained, o.nv = p.nv, o.repo = p.repo
               PROVE  o.file.version = p.file.version
    BY DEF OneVersion
  <2> DEFINE files == Listed(o.repo, PageOf(o.nv))
  <2>1. files \in SUBSET File
    BY <1>1 DEF Listed, TypeOK
  <2>2. /\ o.file \in PackageVersion(files, o.nv[2])
        /\ p.file \in PackageVersion(files, o.nv[2])
    BY <1>1 DEF Traced, IsTraced
  <2> HIDE DEF files
  <2> QED
    BY <2>1, <2>2, SameVersion
<1> QED
  BY <1>1, AlwaysTraced, TypeCorrect, PTL

--------------------------------------------------------------------------------
(***************************************************************************)
(* What a run has done                                                     *)
(***************************************************************************)

\* A download loses nothing, and leaves its package obtained or missing.
LEMMA DownloadAccounted ==
  ASSUME TypeOK, NEW nv \in required, NEW dist \in Dist, NEW failing \in SUBSET Repo,
         Download(nv, dist, failing)
  PROVE  /\ \A mv \in required, d \in Dist : Got(mv, d) => Got(mv, d)'
         /\ missing \subseteq missing'
         /\ <<nv, dist>> \in missing' \/ Got(nv, dist)'
<1> DEFINE consulted == Consulted(nv, dist, failing)
           found == {r \in consulted : Suitable(r, nv, dist, failing) # {}}
           Taken(r) == {[nv |-> nv, repo |-> r, file |-> f] :
                          f \in Suitable(r, nv, dist, failing)}
<1>1. /\ obtained' = obtained \cup UNION {Taken(r) : r \in found}
      /\ dest' = dest \cup UNION {Suitable(r, nv, dist, failing) : r \in found}
      /\ missing' = missing \cup (IF found = {} THEN {<<nv, dist>>} ELSE {})
  BY DEF Download
<1>2. \A mv \in required, d \in Dist : Got(mv, d) => Got(mv, d)'
  <2> HIDE DEF found, Taken
  <2> QED
    BY <1>1 DEF Got
<1>3. CASE found = {}
  BY <1>1, <1>2, <1>3
<1>4. CASE found # {}
  <2>1. PICK r \in found : TRUE
    BY <1>4
  <2>2. PICK f \in Suitable(r, nv, dist, failing) : TRUE
    BY <2>1
  <2> DEFINE o == [nv |-> nv, repo |-> r, file |-> f]
  <2>3. o \in Taken(r)
    BY <2>2
  <2>4. f.dist = dist
    BY <2>2 DEF Suitable
  <2>5. o.nv = nv /\ o.file = f
    OBVIOUS
  <2> HIDE DEF found, Taken, o
  <2>6. o \in obtained' /\ f \in dest'
    BY <1>1, <2>1, <2>2, <2>3
  <2>7. Got(nv, dist)'
    BY <2>4, <2>5, <2>6 DEF Got
  <2>8. missing \subseteq missing'
    BY <1>1
  <2> QED
    BY <1>2, <2>7, <2>8
<1> QED
  BY <1>3, <1>4

LEMMA NextAccounted ==
  ASSUME TypeOK, Accounted, DoneIsEmpty, [Next]_vars
  PROVE  Accounted' /\ DoneIsEmpty'
<1> Environment \subseteq Dist /\ Sdist \in Dist
  BY DEF Dist
<1>1. ASSUME NEW c \in Commands, Start(c)
      PROVE  Accounted' /\ DoneIsEmpty'
  <2>1. pc' # "done"
    BY <1>1 DEF Start
  <2>2. CASE required' = {}
    BY <2>1, <2>2 DEF Accounted, DoneIsEmpty
  <2>3. CASE required' # {}
    <3>1. /\ command' = c /\ sdistsToGet' = required'
          /\ c.wheels => wheelsToGet' = required' \X Environment
      BY <1>1, <2>3 DEF Start
    <3> QED
      BY <2>1, <3>1 DEF Accounted, DoneIsEmpty
  <2> QED
    BY <2>2, <2>3
<1>2. ASSUME NEW nv \in required, NEW e \in Environment, DownloadWheel(nv, e)
      PROVE  Accounted' /\ DoneIsEmpty'
  <2>1. PICK failing \in SUBSET Repo : Download(nv, e, failing)
    BY <1>2, FailingType DEF DownloadWheel
  <2>2. /\ \A mv \in required, d \in Dist : Got(mv, d) => Got(mv, d)'
        /\ missing \subseteq missing'
        /\ <<nv, e>> \in missing' \/ Got(nv, e)'
    BY <2>1, DownloadAccounted
  <2>3. /\ UNCHANGED <<pc, command, required, sdistsToGet>> /\ pc = "fetching"
        /\ wheelsToGet' = wheelsToGet \ {<<nv, e>>}
    BY <1>2 DEF DownloadWheel
  <2> QED
    BY <2>2, <2>3 DEF Accounted, DoneIsEmpty
<1>3. ASSUME NEW nv \in required, DownloadSdist(nv)
      PROVE  Accounted' /\ DoneIsEmpty'
  <2>1. /\ UNCHANGED <<pc, command, required, wheelsToGet>> /\ pc = "fetching"
        /\ sdistsToGet' = sdistsToGet \ {nv}
    BY <1>3 DEF DownloadSdist
  <2>2. CASE WantsSdist(nv)
    <3>1. PICK failing \in SUBSET Repo : Download(nv, Sdist, failing)
      BY <1>3, <2>2, FailingType DEF DownloadSdist
    <3>2. /\ \A mv \in required, d \in Dist : Got(mv, d) => Got(mv, d)'
          /\ missing \subseteq missing'
          /\ <<nv, Sdist>> \in missing' \/ Got(nv, Sdist)'
      BY <3>1, DownloadAccounted
    <3> QED
      BY <2>1, <3>2 DEF Accounted, DoneIsEmpty
  <2>3. CASE ~ WantsSdist(nv)
    <3>1. ~ command.sdists /\ UNCHANGED <<obtained, dest, missing>>
      BY <1>3, <2>3 DEF DownloadSdist, WantsSdist
    <3> QED
      BY <2>1, <3>1 DEF Accounted, DoneIsEmpty, Got
  <2> QED
    BY <2>2, <2>3
<1>4. CASE Report
  BY <1>4 DEF Report, Accounted, DoneIsEmpty, Got, workVars, MissingInAction,
              SdistMissing, WheelsMissing
<1>5. CASE Abort
  BY <1>5 DEF Abort, Accounted, DoneIsEmpty
<1>6. CASE UNCHANGED <<dest, pc, command, workVars, obtained, missing>>
  BY <1>6 DEF Accounted, DoneIsEmpty, Got, workVars, MissingInAction, SdistMissing,
              WheelsMissing
<1> QED
  BY <1>1, <1>2, <1>3, <1>4, <1>5, <1>6 DEF Next, Step, Release, vars

\* A run that reports nothing missing has put into the destination all it was
\* asked for and not excused from, for any packages, environments and commands.
THEOREM DoneComplete == Spec => []DoneIsComplete
<1>1. Init => Accounted /\ DoneIsEmpty
  BY DEF Init, Accounted, DoneIsEmpty
<1>2. Accounted /\ DoneIsEmpty => DoneIsComplete
  <2> SUFFICES ASSUME Accounted, DoneIsEmpty, pc = "done", NEW nv \in required
               PROVE  /\ command.wheels
                           /\ nv[1] \notin command.no_dist \cup command.sdist_only
                           => \A e \in Environment : Got(nv, e)
                      /\ command.sdists
                           /\ nv[1] \notin command.no_dist \cup command.wheel_only
                           => Got(nv, Sdist)
    BY DEF DoneIsComplete, Got
  <2> QED
    BY DEF Accounted, DoneIsEmpty, MissingInAction, SdistMissing, WheelsMissing
<1> QED
  BY <1>1, <1>2, NextAccounted, TypeCorrect, PTL DEF Spec

--------------------------------------------------------------------------------
(***************************************************************************)
(* What is reported missing                                                *)
(***************************************************************************)

\* What a run reports missing is on no page of any repository, as the run read them.
MissingIsNowhere ==
  \A nv \in required, dist \in Dist :
    <<nv, dist>> \in missing => \A r \in Repo : Lacks(r, nv, dist)

\* When no repository consulted has a suitable file, all were consulted: the first one
\* that has a suitable file would be among them.
LEMMA AllConsulted ==
  ASSUME NEW nv, NEW dist, NEW failing,
         \A r \in Consulted(nv, dist, failing) : Suitable(r, nv, dist, failing) = {}
  PROVE  \A r \in Repo :
           r \in Consulted(nv, dist, failing) /\ Suitable(r, nv, dist, failing) = {}
<1> DEFINE With == {i \in DOMAIN Repos : Suitable(Repos[i], nv, dist, failing) # {}}
<1>1. DOMAIN Repos = 1..Len(Repos) /\ Len(Repos) \in Nat
  BY ReposAssumption
<1>2. With = {}
  <2> SUFFICES ASSUME With # {} PROVE FALSE
    OBVIOUS
  <2>1. With \subseteq Nat
    BY <1>1
  <2>2. PICK i \in With : \A j \in With : ~ (<<j, i>> \in OpToRel(<, Nat))
    BY <2>1, NatLessThanWellFounded, WFMin
  <2>3. \A j \in With : i \in Nat /\ j \in Nat /\ ~ (j < i)
    BY <2>1, <2>2 DEF OpToRel
  <2>4. \A j \in 1..(i - 1) : j \in DOMAIN Repos /\ j \notin With
    BY <1>1, <2>3
  <2>5. Repos[i] \in Consulted(nv, dist, failing)
    BY <2>4 DEF Consulted
  <2> QED
    BY <2>5
<1>3. \A i \in DOMAIN Repos : 1..(i - 1) \subseteq DOMAIN Repos
  BY <1>1
<1> QED
  BY <1>2, <1>3 DEF Consulted, Repo

LEMMA DownloadMissing ==
  ASSUME TypeOK, OnlyFetched, MissingIsNowhere, NEW nv \in required, NEW dist \in Dist,
         NEW failing \in SUBSET Repo, Download(nv, dist, failing), UNCHANGED required
  PROVE  MissingIsNowhere'
<1> DEFINE consulted == Consulted(nv, dist, failing)
           found == {r \in consulted : Suitable(r, nv, dist, failing) # {}}
<1>1. /\ \A r \in Repo : fetched[r] \subseteq fetched'[r]
      /\ \A r \in Repo : \A m \in fetched[r] : Listed(r, m)' = Listed(r, m)
      /\ \A r \in consulted :
           /\ PageOf(nv) \in fetched'[r]
           /\ Listed(r, PageOf(nv))' = Known(r, PageOf(nv), failing)
  BY ConsultedType, Recorded DEF Download, PageOf
<1>2. missing' = missing \cup (IF found = {} THEN {<<nv, dist>>} ELSE {})
  BY DEF Download
<1>3. ASSUME NEW mv \in required, NEW d \in Dist, <<mv, d>> \in missing, NEW r \in Repo
      PROVE  Lacks(r, mv, d)'
  <2>1. Lacks(r, mv, d)
    BY <1>3 DEF MissingIsNowhere
  <2> QED
    BY <1>1, <2>1 DEF Lacks
<1>4. ASSUME found = {}, NEW r \in Repo
      PROVE  Lacks(r, nv, dist)'
  <2>1. r \in consulted /\ Suitable(r, nv, dist, failing) = {}
    BY <1>4, AllConsulted
  <2>2. Suitable(r, nv, dist, failing) = Matching(Known(r, PageOf(nv), failing), nv, dist)
    BY DEF Suitable, Matching, PageOf
  <2> QED
    BY <1>1, <2>1, <2>2 DEF Lacks
<1> HIDE DEF found
<1> QED
  BY <1>2, <1>3, <1>4 DEF MissingIsNowhere

\* A file is reported missing only when every repository was asked, and no page, as it
\* was read, has one that matches: for any list of repositories, whatever fails.
THEOREM MissingIsMissing == Spec => []MissingIsNowhere
<1>1. Init => MissingIsNowhere
  BY DEF Init, MissingIsNowhere
<1>2. ASSUME TypeOK, OnlyFetched, MissingIsNowhere, [Next]_vars
      PROVE  MissingIsNowhere'
  <2>1. ASSUME NEW c \in Commands, Start(c)
        PROVE  MissingIsNowhere'
    BY <2>1 DEF Start, NewProcess, MissingIsNowhere
  <2>2. CASE UNCHANGED <<fetched, packages, required, missing>>
    BY <1>2, <2>2 DEF MissingIsNowhere, Lacks, Listed
  <2>3. ASSUME NEW nv \in required, NEW e \in Environment, DownloadWheel(nv, e)
        PROVE  MissingIsNowhere'
    BY <1>2, <2>3, DownloadMissing, FailingType DEF DownloadWheel, Dist
  <2>4. ASSUME NEW nv \in required, DownloadSdist(nv)
        PROVE  MissingIsNowhere'
    BY <1>2, <2>2, <2>4, DownloadMissing, FailingType DEF DownloadSdist, Dist, repoVars
  <2>5. CASE Abort
    BY <2>5 DEF Abort, NewProcess, MissingIsNowhere
  <2> QED
    BY <1>2, <2>1, <2>2, <2>3, <2>4, <2>5
       DEF Next, Step, Report, Release, vars, repoVars, workVars
<1> QED
  BY <1>1, <1>2, AlwaysOnlyFetched, TypeCorrect, PTL DEF Spec

--------------------------------------------------------------------------------
(***************************************************************************)
(* What the options promise, of the commands that are written for it       *)
(***************************************************************************)

\* Without --latest-version, every requirement that is not ignored has a version.
ExactSpecifiers ==
  \A c \in Commands : ~ c.latest_version =>
    \A q \in c.specifiers \cup AcceptedLines(c.lines, FALSE) : q.version # 0

\* A run without --latest-version fetches exact versions only, if its requirements
\* have them: the packages that it finds in the destination add no other.
THEOREM PinnedCommands == ExactSpecifiers => (Spec => []PinnedOnly)
<1> SUFFICES ASSUME ExactSpecifiers PROVE Spec => []PinnedOnly
  OBVIOUS
<1>1. Init => PinnedOnly
  BY DEF Init, PinnedOnly
<1>2. ASSUME TypeOK, PinnedOnly, [Next]_vars
      PROVE  PinnedOnly'
  <2>1. ASSUME NEW c \in Commands, Start(c), ~ c.latest_version, NEW nv \in Required(c)
        PROVE  nv[2] # 0
    <3> DEFINE Specs == c.specifiers \cup AcceptedLines(c.lines, FALSE)
    <3>1. \/ nv \in LocalPackages
          \/ \E q \in Specs : nv = get_required_name_version(q, FALSE)
      <4>1. c.latest_version = FALSE
        BY <2>1, CommandsAssumption DEF Command
      <4> QED
        BY <4>1 DEF Required
    <3>2. CASE nv \in LocalPackages
      <4>1. PICK f \in dest : nv = <<f.name, f.version>>
        BY <3>2 DEF LocalPackages
      <4>2. f.version \in 1..MaxVersion
        BY <1>2 DEF TypeOK, File
      <4> QED
        BY <4>1, <4>2
    <3>3. ASSUME NEW q \in Specs, nv = get_required_name_version(q, FALSE)
          PROVE  nv[2] # 0
      <4>1. q.version # 0
        BY <2>1 DEF ExactSpecifiers
      <4> QED
        BY <3>3, <4>1 DEF get_required_name_version
    <3> QED
      BY <3>1, <3>2, <3>3
  <2>2. ASSUME NEW c \in Commands, Start(c)
        PROVE  PinnedOnly'
    <3>1. command' = c /\ required' \in {{}, Required(c)}
      BY <2>2 DEF Start
    <3> QED
      BY <2>1, <2>2, <3>1 DEF PinnedOnly
  <2>3. CASE UNCHANGED <<command, required>>
    BY <1>2, <2>3 DEF PinnedOnly
  <2>4. CASE Abort
    BY <2>4 DEF Abort, PinnedOnly
  <2> QED
    BY <1>2, <2>2, <2>3, <2>4
       DEF Next, Step, DownloadWheel, DownloadSdist, Report, Release, vars, workVars
<1> QED
  BY <1>1, <1>2, TypeCorrect, PTL DEF Spec

\* --sdist-only has each of its names in every spelling.
EverySpelling ==
  \A c \in Commands : \A s \in c.sdist_only, t \in Spelling :
    Normalize[s] = Normalize[t] => t \in c.sdist_only

\* A run that reports missing files has some to report.
ReportsMissing == pc = "missing" => MissingInAction # {}

\* A run without sdists does not fail for packages of --sdist-only, if that has each name
\* in every spelling: what fails it, then, is another package.
THEOREM SdistOnlyInEverySpelling == EverySpelling => (Spec => []SdistOnlyNeverFails)
<1> SUFFICES ASSUME EverySpelling PROVE Spec => []SdistOnlyNeverFails
  OBVIOUS
<1>1. Init => ReportsMissing
  BY DEF Init, ReportsMissing
<1>2. ASSUME ReportsMissing, [Next]_vars
      PROVE  ReportsMissing'
  <2>1. CASE Report
    BY <2>1 DEF Report, ReportsMissing, MissingInAction, SdistMissing, WheelsMissing, workVars
  <2>2. CASE UNCHANGED <<pc, command, required, missing>>
    BY <1>2, <2>2 DEF ReportsMissing, MissingInAction, SdistMissing, WheelsMissing
  <2>3. CASE pc' # "missing"
    BY <2>3 DEF ReportsMissing
  <2>4. \A nv \in required, e \in Environment :
          DownloadWheel(nv, e) \/ DownloadSdist(nv) => pc' # "missing"
    BY DEF DownloadWheel, DownloadSdist
  <2>5. Abort \/ (\E c \in Commands : Start(c)) => pc' # "missing"
    BY DEF Abort, Start
  <2>6. CASE Step
    BY <2>1, <2>3, <2>4, <2>6 DEF Step, DownloadSdist
  <2> QED
    BY <1>2, <2>2, <2>3, <2>5, <2>6 DEF Next, Release, vars, workVars
<1>3. ASSUME TypeOK, ReportsMissing
      PROVE  SdistOnlyNeverFails
  <2> SUFFICES ASSUME pc = "missing", ~ command.sdists
               PROVE  \E nv \in required :
                        Normalize[nv[1]] \notin {Normalize[s] : s \in command.sdist_only}
    BY DEF SdistOnlyNeverFails
  <2>1. PICK nv \in required : WheelsMissing(nv)
    BY <1>3 DEF ReportsMissing, MissingInAction, SdistMissing
  <2>2. nv[1] \in Spelling /\ command \in Commands
    BY <1>3 DEF TypeOK
  <2>3. nv[1] \notin command.sdist_only
    BY <2>1 DEF WheelsMissing
  <2> QED
    BY <2>2, <2>3 DEF EverySpelling
<1> QED
  BY <1>1, <1>2, <1>3, TypeCorrect, PTL DEF Spec
================================================================================
