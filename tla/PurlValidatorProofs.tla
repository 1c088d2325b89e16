-------------------------- MODULE PurlValidatorProofs --------------------------
(***************************************************************************)
(* What PurlValidator keeps true for any calls, validators, requests and   *)
(* PURLs.  The inductive invariant IInv says, of each call, how far its    *)
(* map has got, and of each location, to which call it belongs.            *)
(***************************************************************************)
EXTENDS PurlValidator, SequenceTheorems, TLAPS

\* The arguments of a call that got past the preparation are all valid.
ValidRequest(c) == \A arg \in request[c] : ~ IsRejected(arg)

\* Before the directory is made.
WithoutDirectory ==
  \A c \in Call : pc[c] \in {"start", "ValueError", "prepared"} => dir[c] = None

PreparedCalls ==
  \A c \in Call : pc[c] = "prepared" =>
    ValidRequest(c) /\ pending[c] = PreparedEntries(request[c])

\* What is written and what is pending make up the request, and every key that
\* is written comes before every key that is pending.
BuildingCalls ==
  \A c \in Call : pc[c] = "building" =>
    /\ dir[c] \in Dir
    /\ ValidRequest(c)
    /\ content[dir[c]] \cup pending[c] = PreparedEntries(request[c])
    /\ \A w \in content[dir[c]], p \in pending[c] : Rank[w[1]] < Rank[p[1]]

ReturnedCalls ==
  \A c \in Call : Returned(c) =>
    /\ dir[c] \in Dir
    /\ ValidRequest(c)
    /\ content[dir[c]] = PreparedEntries(request[c])

OneOwner ==
  \A c, o \in Call : dir[c] = dir[o] /\ dir[c] # None => c = o

\* A directory that no call has made yet is empty, and does not exist.
UnusedDirectories ==
  \A d \in Dir : (\A c \in Call : dir[c] # d) =>
    content[d] = {} /\ d \notin linked

LinkedDirectories ==
  \A c \in Call : dir[c] \in linked =>
    pc[c] \in {"building", "returned", "failed"} /\ ValidRequest(c)

PackagedMap == content[Packaged] = PreparedEntries(PackagedPurls)

CompleteMaps ==
  \A l \in complete : l = Packaged \/ \E c \in Call : Returned(c) /\ dir[c] = l

ReturnedMapsAreComplete ==
  /\ Packaged \in complete
  /\ \A c \in Call : Returned(c) => dir[c] \in complete

IInv ==
  /\ TypeOK
  /\ NeverOutOfOrder
  /\ WithoutDirectory /\ PreparedCalls /\ BuildingCalls /\ ReturnedCalls
  /\ OneOwner /\ UnusedDirectories /\ LinkedDirectories
  /\ PackagedMap /\ CompleteMaps /\ ReturnedMapsAreComplete
  /\ OnlyCompleteMapsAreRead

--------------------------------------------------------------------------------
(***************************************************************************)
(* Entries                                                                 *)
(***************************************************************************)

\* An argument that is not rejected has a package, and its entry is in Entry.
LEMMA ValidArgument ==
  ASSUME NEW arg \in Argument, ~ IsRejected(arg)
  PROVE  ToPackageURL(arg) \in PackageURLs /\ create_purl_map_entry(arg) \in Entry
BY FromStringAssumption, ArgumentsAssumption
   DEF Argument, IsRejected, ToPackageURL, create_purl_map_entry, Entry

\* What create_purl_map writes for valid arguments: entries with the value 1.
LEMMA PreparedEntriesType ==
  ASSUME NEW purls \in SUBSET Argument, \A arg \in purls : ~ IsRejected(arg)
  PROVE  PreparedEntries(purls) \in SUBSET (Entry \X {1})
BY ValidArgument DEF PreparedEntries

\* The PURLs of the package are arguments that are not rejected.
LEMMA PackagedAreValid ==
  /\ PackagedPurls \in SUBSET Argument
  /\ \A arg \in PackagedPurls : ~ IsRejected(arg)
BY RequestsAssumption, FromStringAssumption, ArgumentsAssumption
   DEF Argument, IsRejected, ToPackageURL

\* Every request, made or not, is a set of arguments.
LEMMA RequestsAreArguments ==
  ASSUME TypeOK, NEW c \in Call
  PROVE  request[c] \in SUBSET Argument
BY RequestsAssumption DEF TypeOK

\* Where the parts of a package stand in its entry.
LEMMA EntryShape ==
  ASSUME NEW p \in PackageURLs, Len(p.name) = 1
  PROVE  /\ Len(EntryOf(p)) = Len(p.namespace) + 2
         /\ EntryOf(p)[1] = p.type
         /\ \A i \in 1..Len(p.namespace) : EntryOf(p)[i + 1] = p.namespace[i]
         /\ EntryOf(p)[Len(p.namespace) + 2] = p.name[1]
<1> DEFINE ns == p.namespace
           nm == p.name
           head == <<p.type>> \o ns
<1>1. <<p.type>> \in Seq(Segment) /\ ns \in Seq(Segment) /\ nm \in Seq(Segment)
  BY PackageURLsAssumption
<1>2. EntryOf(p) = head \o nm
  BY <1>1, ConcatEmptySeq DEF EntryOf
<1>3. /\ head \in Seq(Segment)
      /\ Len(head) = Len(ns) + 1
      /\ head[1] = p.type
      /\ \A i \in 1..Len(ns) : head[i + 1] = ns[i]
  BY <1>1, ConcatProperties
<1> HIDE DEF head
<1>4. /\ Len(head \o nm) = Len(head) + Len(nm)
      /\ \A i \in 1..(Len(head) + Len(nm)) :
           (head \o nm)[i] = IF i <= Len(head) THEN head[i] ELSE nm[i - Len(head)]
  BY <1>1, <1>3, ConcatProperties
<1>5. Len(nm) = 1 /\ Len(ns) \in Nat
  BY <1>1
<1>6. /\ Len(head \o nm) = Len(ns) + 2
      /\ \A i \in 1..(Len(ns) + 1) : (head \o nm)[i] = head[i]
      /\ (head \o nm)[Len(ns) + 2] = nm[1]
  <2> HIDE DEF ns, nm
  <2> QED
    BY <1>3, <1>4, <1>5
<1> QED
  BY <1>2, <1>3, <1>5, <1>6

\* As long as no name holds a "/", the entry that create_purl_map_entry makes
\* tells any two base PURLs apart: it leaves out the version, the qualifiers and
\* the subpath and nothing else.
LEMMA EntryInjective ==
  ASSUME PlainNames, NEW p \in PackageURLs, NEW q \in PackageURLs
  PROVE  EntryOf(p) = EntryOf(q) <=> BasePurl(p) = BasePurl(q)
<1>1. Len(p.name) = 1 /\ Len(q.name) = 1
  BY DEF PlainNames
<1>2. /\ p.namespace \in Seq(Segment) /\ q.namespace \in Seq(Segment)
      /\ p.name \in Seq(Segment) /\ q.name \in Seq(Segment)
  BY PackageURLsAssumption
<1>3. ASSUME EntryOf(p) = EntryOf(q)
      PROVE  BasePurl(p) = BasePurl(q)
  <2>1. Len(p.namespace) = Len(q.namespace)
    BY <1>1, <1>2, <1>3, EntryShape
  <2>2. p.type = q.type
    BY <1>1, <1>3, EntryShape
  <2>3. p.namespace = q.namespace
    <3>1. \A i \in 1..Len(p.namespace) : p.namespace[i] = q.namespace[i]
      BY <1>1, <1>3, <2>1, EntryShape
    <3> QED
      BY <1>2, <2>1, <3>1, SeqEqual
  <2>4. p.name = q.name
    BY <1>1, <1>2, <1>3, <2>1, EntryShape, SeqEqual
  <2> QED
    BY <2>2, <2>3, <2>4 DEF BasePurl
<1> QED
  BY <1>3 DEF EntryOf, BasePurl

--------------------------------------------------------------------------------
(***************************************************************************)
(* TypeOK                                                                  *)
(***************************************************************************)

\* The initial state has the types, and so does the state after each step.
LEMMA InitType == Init => TypeOK
<1>1. PreparedEntries(PackagedPurls) \in SUBSET (Entry \X {1})
  BY PackagedAreValid, PreparedEntriesType
<1> QED
  BY <1>1 DEF Init, TypeOK, Location

\* Every step keeps the types; what a call that is building writes goes to its
\* directory.
LEMMA NextType ==
  ASSUME TypeOK, BuildingCalls, [Next]_vars
  PROVE  TypeOK'
<1> USE DEF TypeOK
<1>1. ASSUME NEW c \in Call, NEW purls \in Requests, PrepareEntries(c, purls)
      PROVE  TypeOK'
  <2>1. CASE \E arg \in purls : IsRejected(arg)
    BY <1>1, <2>1 DEF PrepareEntries, fileVars, validatorVars
  <2>2. CASE ~ \E arg \in purls : IsRejected(arg)
    <3>1. PreparedEntries(purls) \in SUBSET (Entry \X {1})
      BY <1>1, <2>2, PreparedEntriesType, RequestsAssumption
    <3> QED
      BY <1>1, <2>2, <3>1 DEF PrepareEntries, fileVars, validatorVars
  <2> QED
    BY <2>1, <2>2
<1>2. ASSUME NEW c \in Call, MakeTempDir(c)
      PROVE  TypeOK'
  BY <1>2 DEF MakeTempDir, validatorVars, Location
<1>3. ASSUME NEW c \in Call, WritePair(c)
      PROVE  TypeOK'
  BY <1>3 DEF BuildingCalls, WritePair, validatorVars
<1>4. ASSUME NEW c \in Call, ReturnMap(c)
      PROVE  TypeOK'
  BY <1>4 DEF BuildingCalls, ReturnMap, validatorVars, Location
<1>5. ASSUME NEW c \in Call, BuildFails(c)
      PROVE  TypeOK'
  BY <1>5 DEF BuildFails, fileVars, validatorVars
<1>6. ASSUME NEW c \in Call, DeleteMap(c)
      PROVE  TypeOK'
  BY <1>6 DEF DeleteMap, validatorVars
<1>7. ASSUME NEW v \in Validator, NEW location \in Location, Load(v, location)
      PROVE  TypeOK'
  BY <1>7 DEF Load, callVars, fileVars
<1>8. ASSUME NEW v \in Validator, NEW arg \in Argument, validate_purl(v, arg)
      PROVE  TypeOK'
  BY <1>8 DEF validate_purl, Lookup, callVars, fileVars
<1>9. ASSUME NEW v \in Validator, Release(v)
      PROVE  TypeOK'
  BY <1>9 DEF Release, callVars, fileVars
<1>10. CASE UNCHANGED vars
  BY <1>10 DEF vars
<1> QED
  BY <1>1, <1>2, <1>3, <1>4, <1>5, <1>6, <1>7, <1>8, <1>9, <1>10 DEF Next, Build

--------------------------------------------------------------------------------
(***************************************************************************)
(* The inductive invariant                                                 *)
(***************************************************************************)

LEMMA InitIInv == Init => IInv
<1> SUFFICES ASSUME Init PROVE IInv
  OBVIOUS
<1>1. TypeOK
  BY InitType
<1> QED
  BY <1>1, NamesAssumption DEF Init, IInv, NeverOutOfOrder, WithoutDirectory,
    PreparedCalls, BuildingCalls, ReturnedCalls, OneOwner, UnusedDirectories,
    LinkedDirectories, PackagedMap, CompleteMaps, ReturnedMapsAreComplete,
    OnlyCompleteMapsAreRead, Returned, Location

LEMMA NextIInv ==
  ASSUME IInv, [Next]_vars
  PROVE  IInv'
<1>0. TypeOK /\ TypeOK'
  BY NextType DEF IInv
<1> USE <1>0 DEF IInv, Returned
<1>1. ASSUME NEW c \in Call, NEW purls \in Requests, PrepareEntries(c, purls)
      PROVE  IInv'
  <2> USE <1>1, RequestsAssumption DEF PrepareEntries, fileVars, validatorVars, TypeOK
  <2>0. dir[c] = None /\ dir[c] \notin linked
    BY NamesAssumption DEF WithoutDirectory, Location
  <2>1. NeverOutOfOrder'
    BY DEF NeverOutOfOrder
  <2>2. WithoutDirectory' /\ OneOwner' /\ UnusedDirectories'
    BY <2>0 DEF WithoutDirectory, OneOwner, UnusedDirectories
  <2>3. PreparedCalls'
    BY DEF PreparedCalls, ValidRequest
  <2>4. BuildingCalls' /\ ReturnedCalls'
    BY DEF BuildingCalls, ReturnedCalls, ValidRequest
  <2>5. LinkedDirectories'
    BY <2>0 DEF LinkedDirectories, ValidRequest
  <2>6. PackagedMap' /\ CompleteMaps' /\ ReturnedMapsAreComplete'
    BY DEF PackagedMap, CompleteMaps, ReturnedMapsAreComplete
  <2>7. OnlyCompleteMapsAreRead'
    BY DEF OnlyCompleteMapsAreRead
  <2> QED
    BY <2>1, <2>2, <2>3, <2>4, <2>5, <2>6, <2>7
<1>2. ASSUME NEW c \in Call, MakeTempDir(c)
      PROVE  IInv'
  <2> USE <1>2 DEF MakeTempDir, validatorVars, TypeOK
  <2>0. PICK d \in Dir : /\ \A o \in Call : dir[o] # d
                         /\ dir' = [dir EXCEPT ![c] = d]
                         /\ linked' = linked \cup {d}
    <3>1. PICK d \in Dir \ {dir[o] : o \in Call} :
            dir' = [dir EXCEPT ![c] = d] /\ linked' = linked \cup {d}
      BY Zenon
    <3>2. d \in Dir /\ \A o \in Call : dir[o] # d
      BY ONLY <3>1, Zenon
    <3> QED
      BY <3>1, <3>2
  <2>1. NeverOutOfOrder'
    BY DEF NeverOutOfOrder
  <2>2. WithoutDirectory' /\ PreparedCalls'
    BY <2>0 DEF WithoutDirectory, PreparedCalls, ValidRequest
  <2>3. OneOwner' /\ UnusedDirectories'
    <3>1. OneOwner'
      BY <2>0 DEF OneOwner
    <3>2. UnusedDirectories'
      BY <2>0, NamesAssumption DEF WithoutDirectory, UnusedDirectories
    <3> QED
      BY <3>1, <3>2
  <2>4. BuildingCalls'
    BY <2>0 DEF BuildingCalls, PreparedCalls, UnusedDirectories, ValidRequest
  <2>5. ReturnedCalls'
    BY <2>0 DEF ReturnedCalls, ValidRequest
  <2>6. LinkedDirectories'
    BY <2>0 DEF LinkedDirectories, PreparedCalls, ValidRequest
  <2>7. PackagedMap' /\ CompleteMaps' /\ ReturnedMapsAreComplete'
    BY <2>0 DEF PackagedMap, CompleteMaps, ReturnedMapsAreComplete
  <2>8. OnlyCompleteMapsAreRead'
    BY DEF OnlyCompleteMapsAreRead
  <2> QED
    BY <2>1, <2>2, <2>3, <2>4, <2>5, <2>6, <2>7, <2>8
<1>3. ASSUME NEW c \in Call, WritePair(c)
      PROVE  IInv'
  <2> USE <1>3 DEF WritePair, validatorVars, TypeOK
  <2>0. PICK pair \in pending[c] :
          /\ NextPair(c, pair)
          /\ content' = [content EXCEPT ![dir[c]] = @ \cup {pair}]
          /\ pending' = [pending EXCEPT ![c] = @ \ {pair}]
          /\ UNCHANGED pc
    BY DEF BuildingCalls, Follows
  <2>1. dir[c] \in Dir /\ \A o \in Call : dir[o] = dir[c] => o = c
    BY NamesAssumption DEF BuildingCalls, OneOwner
  <2>2. pair \in Entry \X {1} /\ pair \in PreparedEntries(request[c])
    BY DEF BuildingCalls
  <2>3. \A p \in pending'[c] : Rank[pair[1]] < Rank[p[1]]
    <3> SUFFICES ASSUME NEW p \in pending[c], p # pair
                 PROVE  Rank[pair[1]] < Rank[p[1]]
      BY <2>0
    <3>1. p \in Entry \X {1} /\ Rank[pair[1]] <= Rank[p[1]]
      BY <2>0 DEF NextPair
    <3>2. Rank[pair[1]] # Rank[p[1]]
      BY <2>2, <3>1, RankAssumption
    <3>3. Rank[pair[1]] \in Nat /\ Rank[p[1]] \in Nat
      BY <2>2, <3>1, RankAssumption
    <3> QED
      BY ONLY <3>1, <3>2, <3>3
  <2>4. \A o \in Call \ {c} : dir[o] \in Dir =>
          content'[dir[o]] = content[dir[o]] /\ pending'[o] = pending[o]
    BY <2>0, <2>1
  <2>5. /\ content'[dir[c]] = content[dir[c]] \cup {pair}
        /\ pending'[c] = pending[c] \ {pair}
    BY <2>0, <2>1 DEF Location
  <2>6. BuildingCalls'
    <3> SUFFICES ASSUME NEW o \in Call, pc[o] = "building"
                 PROVE  /\ dir[o] \in Dir
                        /\ ValidRequest(o)'
                        /\ content'[dir[o]] \cup pending'[o]
                             = PreparedEntries(request[o])
                        /\ \A w \in content'[dir[o]], p \in pending'[o] :
                             Rank[w[1]] < Rank[p[1]]
      BY <2>0 DEF BuildingCalls, PreparedEntries
    <3>1. CASE o = c
      BY <2>2, <2>3, <2>5, <3>1 DEF BuildingCalls, ValidRequest
    <3>2. CASE o # c
      BY <2>4, <3>2 DEF BuildingCalls, ValidRequest
    <3> QED
      BY <3>1, <3>2
  <2>7. NeverOutOfOrder' /\ WithoutDirectory' /\ PreparedCalls'
    BY <2>0 DEF NeverOutOfOrder, WithoutDirectory, PreparedCalls, ValidRequest
  <2>8. ReturnedCalls'
    BY <2>0, <2>4 DEF ReturnedCalls, ValidRequest
  <2>9. OneOwner' /\ UnusedDirectories' /\ LinkedDirectories'
    BY <2>0 DEF OneOwner, UnusedDirectories, LinkedDirectories, ValidRequest
  <2>10. PackagedMap' /\ CompleteMaps' /\ ReturnedMapsAreComplete'
    BY <2>0, <2>1, NamesAssumption
       DEF PackagedMap, CompleteMaps, ReturnedMapsAreComplete
  <2>11. OnlyCompleteMapsAreRead'
    BY DEF OnlyCompleteMapsAreRead
  <2> QED
    BY <2>6, <2>7, <2>8, <2>9, <2>10, <2>11
<1>4. ASSUME NEW c \in Call, ReturnMap(c)
      PROVE  IInv'
  <2> USE <1>4 DEF ReturnMap, validatorVars, TypeOK
  <2>1. dir[c] \in Dir /\ content[dir[c]] = PreparedEntries(request[c])
    BY DEF BuildingCalls
  <2>2. NeverOutOfOrder' /\ WithoutDirectory' /\ PreparedCalls'
    BY DEF NeverOutOfOrder, WithoutDirectory, PreparedCalls, ValidRequest
  <2>3. BuildingCalls' /\ ReturnedCalls'
    BY <2>1 DEF BuildingCalls, ReturnedCalls, ValidRequest
  <2>4. OneOwner' /\ UnusedDirectories' /\ LinkedDirectories'
    BY DEF OneOwner, UnusedDirectories, LinkedDirectories, ValidRequest
  <2>5. PackagedMap' /\ CompleteMaps' /\ ReturnedMapsAreComplete'
    BY DEF PackagedMap, CompleteMaps, ReturnedMapsAreComplete
  <2>6. OnlyCompleteMapsAreRead'
    BY DEF OnlyCompleteMapsAreRead
  <2> QED
    BY <2>2, <2>3, <2>4, <2>5, <2>6
<1>5. ASSUME NEW c \in Call, BuildFails(c)
      PROVE  IInv'
  <2> USE <1>5 DEF BuildFails, fileVars, validatorVars, TypeOK
  <2>1. NeverOutOfOrder' /\ WithoutDirectory' /\ PreparedCalls'
    BY DEF NeverOutOfOrder, WithoutDirectory, PreparedCalls, ValidRequest
  <2>2. BuildingCalls' /\ ReturnedCalls'
    BY DEF BuildingCalls, ReturnedCalls, ValidRequest
  <2>3. OneOwner' /\ UnusedDirectories' /\ LinkedDirectories'
    BY DEF OneOwner, UnusedDirectories, LinkedDirectories, ValidRequest
  <2>4. PackagedMap' /\ CompleteMaps' /\ ReturnedMapsAreComplete'
    BY DEF PackagedMap, CompleteMaps, ReturnedMapsAreComplete
  <2>5. OnlyCompleteMapsAreRead'
    BY DEF OnlyCompleteMapsAreRead
  <2> QED
    BY <2>1, <2>2, <2>3, <2>4, <2>5
<1>6. ASSUME NEW c \in Call, DeleteMap(c)
      PROVE  IInv'
  <2> USE <1>6 DEF DeleteMap, validatorVars, TypeOK
  <2>0. dir[c] # None
    BY NamesAssumption DEF ReturnedCalls
  <2>1. NeverOutOfOrder' /\ WithoutDirectory' /\ PreparedCalls'
    BY DEF NeverOutOfOrder, WithoutDirectory, PreparedCalls, ValidRequest
  <2>2. BuildingCalls' /\ ReturnedCalls'
    BY DEF BuildingCalls, ReturnedCalls, ValidRequest
  <2>3. OneOwner' /\ UnusedDirectories' /\ LinkedDirectories'
    BY <2>0 DEF OneOwner, UnusedDirectories, LinkedDirectories, ValidRequest
  <2>4. PackagedMap' /\ CompleteMaps' /\ ReturnedMapsAreComplete'
    BY DEF PackagedMap, CompleteMaps, ReturnedMapsAreComplete
  <2>5. OnlyCompleteMapsAreRead'
    BY DEF OnlyCompleteMapsAreRead
  <2> QED
    BY <2>1, <2>2, <2>3, <2>4, <2>5
<1>7. ASSUME UNCHANGED <<callVars, fileVars>>,
             OnlyCompleteMapsAreRead'
      PROVE  IInv'
  BY <1>7 DEF callVars, fileVars, NeverOutOfOrder, WithoutDirectory, PreparedCalls,
    BuildingCalls, ReturnedCalls, OneOwner, UnusedDirectories, LinkedDirectories,
    PackagedMap, CompleteMaps, ReturnedMapsAreComplete, ValidRequest
<1>8. ASSUME NEW v \in Validator, NEW location \in Location, Load(v, location)
      PROVE  IInv'
  <2>1. location \in complete
    BY <1>8 DEF Load, ReturnedMapsAreComplete
  <2>2. OnlyCompleteMapsAreRead'
    BY <1>8, <2>1 DEF Load, OnlyCompleteMapsAreRead, TypeOK, fileVars
  <2> QED
    BY <1>7, <1>8, <2>2 DEF Load
<1>9. ASSUME NEW v \in Validator, NEW arg \in Argument, validate_purl(v, arg)
      PROVE  IInv'
  BY <1>7, <1>9 DEF validate_purl, OnlyCompleteMapsAreRead, fileVars
<1>10. ASSUME NEW v \in Validator, Release(v)
       PROVE  IInv'
  BY <1>7, <1>10 DEF Release, OnlyCompleteMapsAreRead, fileVars, TypeOK
<1>11. CASE UNCHANGED vars
  BY <1>7, <1>11 DEF vars, callVars, fileVars, OnlyCompleteMapsAreRead
<1> QED
  BY <1>1, <1>2, <1>3, <1>4, <1>5, <1>6, <1>8, <1>9, <1>10, <1>11 DEF Next, Build

\* IInv holds in every reachable state.
THEOREM Inductive == Spec => []IInv
<1> QED
  BY InitIInv, NextIInv, PTL DEF Spec

\* Every reachable state has the types that TypeOK gives.
THEOREM TypeCorrect == Spec => []TypeOK
<1>1. IInv => TypeOK
  BY DEF IInv
<1> QED
  BY <1>1, Inductive, PTL

\* No build is ever refused by ducer: the entries of a request are distinct and
\* reach it in increasing order.
THEOREM OrderKept == Spec => []NeverOutOfOrder
<1>1. IInv => NeverOutOfOrder
  BY DEF IInv
<1> QED
  BY <1>1, Inductive, PTL

\* No validator reads a map that is not complete.
THEOREM CompleteMapsRead == Spec => []OnlyCompleteMapsAreRead
<1>1. IInv => OnlyCompleteMapsAreRead
  BY DEF IInv
<1> QED
  BY <1>1, Inductive, PTL

\* Every directory that exists has one owner, a call with valid arguments.
THEOREM DirectoriesHaveOwners == Spec => []DirectoriesAreOwned
<1>1. IInv => DirectoriesAreOwned
  <2> SUFFICES ASSUME IInv, NEW d \in linked \ {Packaged}
               PROVE  \E c \in Call :
                        /\ dir[c] = d
                        /\ pc[c] \in {"building", "returned", "failed", "out_of_order"}
                        /\ \A arg \in request[c] : ~ IsRejected(arg)
                        /\ \A o \in Call \ {c} : dir[o] # d
    BY DEF DirectoriesAreOwned
  <2>1. d \in Dir
    BY DEF IInv, TypeOK, Location
  <2>2. PICK c \in Call : dir[c] = d
    BY <2>1 DEF IInv, UnusedDirectories
  <2>3. pc[c] \in {"building", "returned", "failed"} /\ ValidRequest(c)
    BY <2>2 DEF IInv, LinkedDirectories
  <2>4. \A o \in Call \ {c} : dir[o] # d
    BY <2>1, <2>2, NamesAssumption DEF IInv, OneOwner
  <2> QED
    BY <2>2, <2>3, <2>4 DEF ValidRequest
<1> QED
  BY <1>1, Inductive, PTL

--------------------------------------------------------------------------------
(***************************************************************************)
(* Answers                                                                 *)
(***************************************************************************)

\* A complete map holds the entries of the arguments it was made from.
LEMMA CompleteContent ==
  ASSUME IInv, NEW l \in complete
  PROVE  /\ PurlsAt(l) \in SUBSET Argument
         /\ \A arg \in PurlsAt(l) : ~ IsRejected(arg)
         /\ content[l] = PreparedEntries(PurlsAt(l))
         /\ \A c \in Call : dir[c] = l => PurlsAt(l) = request[c]
<1>1. CASE l = Packaged
  BY <1>1, PackagedAreValid, NamesAssumption
     DEF IInv, PackagedMap, PurlsAt, TypeOK
<1>2. CASE l # Packaged
  <2>1. PICK c \in Call : Returned(c) /\ dir[c] = l
    BY <1>2 DEF IInv, CompleteMaps
  <2>2. \A o \in Call : dir[o] = l <=> o = c
    BY <2>1, NamesAssumption DEF IInv, OneOwner, ReturnedCalls
  <2>3. {request[o] : o \in {o \in Call : dir[o] = l}} = {request[c]}
    BY <2>2
  <2>4. PurlsAt(l) = request[c]
    BY <1>2, <2>3 DEF PurlsAt
  <2> QED
    BY <2>1, <2>2, <2>4, RequestsAreArguments DEF IInv, ReturnedCalls, ValidRequest
<1> QED
  BY <1>1, <1>2

\* As long as no name holds a "/", a lookup in a map made from valid arguments
\* finds exactly the base PURLs of those arguments.
LEMMA LookupExact ==
  ASSUME PlainNames,
         NEW l, NEW purls \in SUBSET Argument, content[l] = PreparedEntries(purls),
         \A arg \in purls : ~ IsRejected(arg),
         NEW arg \in Argument, ~ IsRejected(arg)
  PROVE  InMap(l, create_purl_map_entry(arg))
           <=> BasePurl(ToPackageURL(arg)) \in BasePurls(purls)
<1> DEFINE entry == create_purl_map_entry(arg)
<1>1. InMap(l, entry) <=> \E a \in purls : create_purl_map_entry(a) = entry
  <2>1. ASSUME NEW a \in purls, create_purl_map_entry(a) = entry
        PROVE  InMap(l, entry)
    <3>1. <<entry, 1>> \in content[l]
      BY <2>1 DEF PreparedEntries
    <3> QED
      BY <3>1 DEF InMap
  <2>2. ASSUME NEW pair \in content[l], pair[1] = entry
        PROVE  \E a \in purls : create_purl_map_entry(a) = entry
    <3>1. PICK a \in purls : pair = <<create_purl_map_entry(a), 1>>
      BY <2>2 DEF PreparedEntries
    <3> QED
      BY <2>2, <3>1
  <2> QED
    BY <2>1, <2>2 DEF InMap
<1>2. \A a \in purls : create_purl_map_entry(a) = create_purl_map_entry(arg)
         <=> BasePurl(ToPackageURL(a)) = BasePurl(ToPackageURL(arg))
  BY ValidArgument, EntryInjective DEF create_purl_map_entry
<1> QED
  BY <1>1, <1>2 DEF BasePurls

\* As long as no name holds a "/", every answer is exact: there is no false
\* positive and no false negative, for any set of PURLs.
THEOREM AnswersAreExact == PlainNames => (Spec => []ExactAnswers)
<1> SUFFICES ASSUME PlainNames PROVE Spec => []ExactAnswers
  OBVIOUS
<1>1. IInv => ExactAnswers
  <2> SUFFICES ASSUME IInv, NEW v \in Validator, mapped[v] # None,
                      NEW arg \in Argument, ~ IsRejected(arg)
               PROVE  arg \in Recognised(v)
                 <=> BasePurl(ToPackageURL(arg)) \in BasePurls(PurlsAt(mapped[v]))
    BY DEF ExactAnswers
  <2>1. mapped[v] \in complete
    BY DEF IInv, OnlyCompleteMapsAreRead
  <2>2. arg \in Recognised(v) <=> InMap(mapped[v], create_purl_map_entry(arg))
    BY DEF Recognised, Lookup
  <2> QED
    BY <2>1, <2>2, CompleteContent, LookupExact
<1> QED
  BY <1>1, Inductive, PTL

\* For any PURLs, names with a "/" included, an open validator recognises exactly
\* the arguments with the entry of one that its map was made from: two packages that
\* share an entry are all that keeps the answers from being exact, and none of the
\* arguments that a map was made from is ever unknown to it.
AnswersByEntry ==
  \A v \in Validator : mapped[v] # None =>
    /\ \A arg \in {a \in Argument : ~ IsRejected(a)} :
         arg \in Recognised(v)
           <=> \E purl \in PurlsAt(mapped[v]) :
                 create_purl_map_entry(purl) = create_purl_map_entry(arg)
    /\ \A arg \in {a \in Argument : ~ IsRejected(a)} :
         BasePurl(ToPackageURL(arg)) \in BasePurls(PurlsAt(mapped[v]))
           => arg \in Recognised(v)

\* create_purl_map_entry reads the type, the namespace and the name only.
LEMMA EntryOfBase ==
  ASSUME NEW p, NEW q, BasePurl(p) = BasePurl(q)
  PROVE  EntryOf(p) = EntryOf(q)
<1>1. p.type = q.type /\ p.namespace = q.namespace /\ p.name = q.name
  BY DEF BasePurl
<1> QED
  BY <1>1 DEF EntryOf

\* There is no false negative and no false positive but by a shared entry, for any
\* set of PURLs.
THEOREM AnswersAreByEntry == Spec => []AnswersByEntry
<1>1. IInv => AnswersByEntry
  <2> SUFFICES ASSUME IInv, NEW v \in Validator, mapped[v] # None,
                      NEW arg \in Argument, ~ IsRejected(arg)
               PROVE  /\ arg \in Recognised(v)
                           <=> \E purl \in PurlsAt(mapped[v]) :
                                 create_purl_map_entry(purl) = create_purl_map_entry(arg)
                      /\ BasePurl(ToPackageURL(arg)) \in BasePurls(PurlsAt(mapped[v]))
                           => arg \in Recognised(v)
    BY DEF AnswersByEntry
  <2>1. content[mapped[v]] = PreparedEntries(PurlsAt(mapped[v]))
    BY CompleteContent DEF IInv, OnlyCompleteMapsAreRead
  <2>2. arg \in Recognised(v) <=> InMap(mapped[v], create_purl_map_entry(arg))
    BY DEF Recognised, Lookup
  <2>3. arg \in Recognised(v)
          <=> \E purl \in PurlsAt(mapped[v]) :
                create_purl_map_entry(purl) = create_purl_map_entry(arg)
    <3>1. ASSUME NEW purl \in PurlsAt(mapped[v]),
                 create_purl_map_entry(purl) = create_purl_map_entry(arg)
          PROVE  InMap(mapped[v], create_purl_map_entry(arg))
      <4>1. <<create_purl_map_entry(arg), 1>> \in content[mapped[v]]
        BY <2>1, <3>1 DEF PreparedEntries
      <4> QED
        BY <4>1 DEF InMap
    <3>2. ASSUME NEW pair \in content[mapped[v]], pair[1] = create_purl_map_entry(arg)
          PROVE  \E purl \in PurlsAt(mapped[v]) :
                   create_purl_map_entry(purl) = create_purl_map_entry(arg)
      <4>1. PICK purl \in PurlsAt(mapped[v]) : pair = <<create_purl_map_entry(purl), 1>>
        BY <2>1 DEF PreparedEntries
      <4> QED
        BY <3>2, <4>1
    <3> QED
      BY <2>2, <3>1, <3>2 DEF InMap
  <2>4. ASSUME BasePurl(ToPackageURL(arg)) \in BasePurls(PurlsAt(mapped[v]))
        PROVE  arg \in Recognised(v)
    <3>1. PICK purl \in PurlsAt(mapped[v]) :
            BasePurl(ToPackageURL(purl)) = BasePurl(ToPackageURL(arg))
      BY <2>4 DEF BasePurls
    <3>2. create_purl_map_entry(purl) = create_purl_map_entry(arg)
      BY <3>1, EntryOfBase DEF create_purl_map_entry
    <3> QED
      BY <2>3, <3>2
  <2> QED
    BY <2>3, <2>4
<1> QED
  BY <1>1, Inductive, PTL

\* A complete map is never written again, and a validator that is open before
\* and after a step reads the same map.
LEMMA CompleteIsFinal ==
  ASSUME IInv, [Next]_vars
  PROVE  /\ \A l \in complete : content'[l] = content[l] /\ l \in complete'
         /\ \A v \in Validator : mapped[v] # None /\ mapped'[v] # None
              => mapped'[v] = mapped[v]
         /\ \A c \in Call : Returned(c) =>
              Returned(c)' /\ dir'[c] = dir[c] /\ request'[c] = request[c]
<1> USE DEF IInv, TypeOK, Returned
<1>1. ASSUME NEW c \in Call, WritePair(c)
      PROVE  \A l \in complete : content'[l] = content[l]
  <2>1. dir[c] \in Dir /\ dir[c] \notin complete
    BY <1>1, NamesAssumption DEF WritePair, BuildingCalls, CompleteMaps, OneOwner
  <2> QED
    BY <1>1, <2>1 DEF WritePair
<1>2. CASE \E c \in Call : \E purls \in Requests : PrepareEntries(c, purls)
  BY <1>2 DEF PrepareEntries, fileVars, validatorVars
<1>3. CASE \E c \in Call : MakeTempDir(c)
  BY <1>3 DEF MakeTempDir, validatorVars
<1>4. CASE \E c \in Call : WritePair(c)
  BY <1>1, <1>4 DEF WritePair, validatorVars
<1>5. CASE \E c \in Call : ReturnMap(c)
  BY <1>5 DEF ReturnMap, validatorVars
<1>6. CASE \E c \in Call : BuildFails(c)
  BY <1>6 DEF BuildFails, fileVars, validatorVars
<1>7. CASE \E c \in Call : DeleteMap(c)
  BY <1>7 DEF DeleteMap, validatorVars
<1>8. CASE \E v \in Validator, location \in Location : Load(v, location)
  BY <1>8 DEF Load, callVars, fileVars
<1>9. CASE \E v \in Validator : \/ \E arg \in Argument : validate_purl(v, arg)
                                \/ Release(v)
  BY <1>9 DEF validate_purl, Release, callVars, fileVars
<1>10. CASE UNCHANGED vars
  BY <1>10 DEF vars
<1> QED
  BY <1>2, <1>3, <1>4, <1>5, <1>6, <1>7, <1>8, <1>9, <1>10 DEF Next, Build

\* An open validator goes on giving the same answers, though maps are built and
\* deleted, the one it reads included.
THEOREM StableAnswers == Spec => AnswersAreStable
<1>1. ASSUME IInv, [Next]_vars, NEW v \in Validator,
             mapped[v] # None, mapped'[v] # None
      PROVE  Recognised(v)' = Recognised(v)
  <2>1. mapped[v] \in complete
    BY <1>1 DEF IInv, OnlyCompleteMapsAreRead
  <2>2. mapped'[v] = mapped[v] /\ content'[mapped[v]] = content[mapped[v]]
    BY <1>1, <2>1, CompleteIsFinal
  <2>3. \A arg \in Argument : Lookup(mapped[v], arg)' = Lookup(mapped[v], arg)
    BY <2>2 DEF Lookup, InMap
  <2> QED
    BY <2>3 DEF Recognised
<1>2. IInv /\ [Next]_vars =>
        [\A v \in Validator : mapped[v] # None /\ mapped'[v] # None
           => Recognised(v)' = Recognised(v)]_vars
  BY <1>1
<1> QED
  BY <1>2, Inductive, PTL DEF Spec, AnswersAreStable

--------------------------------------------------------------------------------
(***************************************************************************)
(* Calls and validators implement PurlCatalog                              *)
(***************************************************************************)

\* The base PURLs of valid arguments are those of some packages: not None.
LEMMA BasePurlsNotNone ==
  ASSUME NEW purls \in SUBSET Argument, \A arg \in purls : ~ IsRejected(arg)
  PROVE  BasePurls(purls) # None
<1> DEFINE packages == {ToPackageURL(arg) : arg \in purls}
<1>1. packages \in SUBSET PackageURLs
  BY ValidArgument
<1>2. \A p \in packages : ToPackageURL(p) = p
  BY <1>1, ArgumentsAssumption DEF ToPackageURL
<1>3. BasePurls(purls) = BasePurls(packages)
  BY <1>2 DEF BasePurls
<1> QED
  BY <1>1, <1>3, NamesAssumption

\* The arguments behind a complete map are fixed.
LEMMA PurlsAtFinal ==
  ASSUME IInv, [Next]_vars, NEW l \in complete
  PROVE  PurlsAt(l)' = PurlsAt(l)
<1>1. IInv'
  BY NextIInv
<1>2. CASE l = Packaged
  BY <1>2 DEF PurlsAt
<1>3. CASE l # Packaged
  <2>1. PICK c \in Call : Returned(c) /\ dir[c] = l
    BY <1>3 DEF IInv, CompleteMaps
  <2>2. dir'[c] = l /\ request'[c] = request[c]
    BY <2>1, CompleteIsFinal
  <2>3. PurlsAt(l) = request[c]
    BY <2>1, CompleteContent
  <2>4. PurlsAt(l)' = request'[c]
    <3>1. \A o \in Call : dir'[o] = l <=> o = c
      BY <1>1, <2>1, <2>2, NamesAssumption DEF IInv, OneOwner, ReturnedCalls
    <3>2. {request'[o] : o \in {o \in Call : dir'[o] = l}} = {request'[c]}
      BY <3>1
    <3> QED
      BY <1>3, <3>2 DEF PurlsAt
  <2> QED
    BY <2>2, <2>3, <2>4
<1> QED
  BY <1>2, <1>3

\* A step that leaves the validators alone leaves their catalogs alone.
LEMMA CatalogsFinal ==
  ASSUME IInv, [Next]_vars, UNCHANGED mapped
  PROVE  UNCHANGED Catalogs
<1>1. \A v \in Validator : mapped[v] # None => mapped[v] \in complete
  BY DEF IInv, OnlyCompleteMapsAreRead
<1> QED
  BY <1>1, PurlsAtFinal DEF Catalogs

\* PurlCatalog reads PURLs and arguments as this module does.
LEMMA SameEntries ==
  /\ Catalog!Argument = Argument
  /\ \A arg : Catalog!ToPackageURL(arg) = ToPackageURL(arg)
  /\ \A arg : Catalog!IsRejected(arg) <=> IsRejected(arg)
  /\ \A p : Catalog!BasePurl(p) = BasePurl(p)
  /\ \A args : Catalog!BasePurls(args) = BasePurls(args)
BY DEF Catalog!Argument, Argument, Catalog!ToPackageURL, ToPackageURL,
       Catalog!IsRejected, IsRejected, Catalog!BasePurl, BasePurl,
       Catalog!BasePurls, BasePurls

\* The initial states of the library are initial states of PurlCatalog.
LEMMA InitCatalog == Init => Catalog!Init
BY NamesAssumption, SameEntries
   DEF Init, Catalog!Init, Catalog!Source, Publications, Catalogs, Returned

\* Every step of the library is a step of PurlCatalog or invisible in it: a
\* publication is the step that returns a map, and deleting a map is no step.
LEMMA NextCatalog ==
  ASSUME PlainNames, IInv, [Next]_vars
  PROVE  [Catalog!Next]_(Catalog!vars)
<1> USE DEF Catalog!vars
<1>1. ASSUME UNCHANGED <<mapped, answer>>, UNCHANGED Publications
      PROVE  UNCHANGED Catalog!vars
  BY <1>1, CatalogsFinal
<1>2. ASSUME UNCHANGED <<pc, request>>
      PROVE  UNCHANGED Publications
  BY <1>2 DEF Publications, Returned
<1>3. ASSUME NEW c \in Call, NEW purls \in Requests, PrepareEntries(c, purls)
      PROVE  UNCHANGED Catalog!vars
  <2>1. UNCHANGED Publications
    BY <1>3 DEF PrepareEntries, Publications, Returned, IInv, TypeOK
  <2> QED
    BY <1>1, <1>3, <2>1 DEF PrepareEntries, validatorVars
<1>4. ASSUME NEW c \in Call, \/ MakeTempDir(c) \/ WritePair(c)
                              \/ BuildFails(c) \/ DeleteMap(c)
      PROVE  UNCHANGED Catalog!vars
  <2>1. UNCHANGED Publications
    BY <1>4 DEF MakeTempDir, WritePair, BuildFails, DeleteMap, Publications,
                Returned, IInv, TypeOK
  <2> QED
    BY <1>1, <1>4, <2>1 DEF MakeTempDir, WritePair, BuildFails, DeleteMap, validatorVars
<1>5. ASSUME NEW c \in Call, ReturnMap(c)
      PROVE  Catalog!Next
  <2>1. request[c] \in SUBSET Argument /\ \A arg \in request[c] : ~ IsRejected(arg)
    BY <1>5, RequestsAreArguments DEF ReturnMap, IInv, BuildingCalls, ValidRequest
  <2>2. Publications[c] = None
    BY <1>5, NamesAssumption DEF ReturnMap, Publications, Returned
  <2>3. Publications' = [Publications EXCEPT ![c] = BasePurls(request[c])]
    BY <1>5, NamesAssumption DEF ReturnMap, Publications, Returned, IInv, TypeOK
  <2>4. UNCHANGED <<Catalogs, answer>>
    BY <1>5, CatalogsFinal DEF ReturnMap, validatorVars
  <2>5. Catalog!Publish(c, request[c])
    BY <2>1, <2>2, <2>3, <2>4, SameEntries DEF Catalog!Publish
  <2> QED
    BY <2>1, <2>5, SameEntries DEF Catalog!Next
<1>6. ASSUME NEW v \in Validator, NEW location \in Location, Load(v, location)
      PROVE  Catalog!Next
  <2>0. UNCHANGED Publications
    BY <1>2, <1>6 DEF Load, callVars
  <2>1. location \in complete /\ BasePurls(PurlsAt(location)) # None
    <3>1. location \in complete
      BY <1>6 DEF Load, IInv, ReturnedMapsAreComplete
    <3> QED
      BY <3>1, CompleteContent, BasePurlsNotNone
  <2>2. CASE location \notin linked
    <3>1. Catalogs' = [Catalogs EXCEPT ![v] = None]
      BY <1>6, <2>2, CatalogsFinal DEF Load, Catalogs
    <3>2. Catalog!NoAnswers(v, "FileNotFoundError")
      BY <1>6, <2>0, <2>2, <3>1 DEF Load, Catalog!NoAnswers
    <3> QED
      BY <3>2 DEF Catalog!Next
  <2>3. CASE location \in linked
    <3>1. PICK s \in Call \cup {Packaged} :
            Publications[s] # None /\ Publications[s] = BasePurls(PurlsAt(location))
      <4>1. CASE location = Packaged
        BY <2>1, <4>1 DEF Publications, PurlsAt
      <4>2. CASE location # Packaged
        <5>1. PICK c \in Call : Returned(c) /\ dir[c] = location
          BY <1>6, <4>2 DEF Load
        <5>2. PurlsAt(location) = request[c]
          BY <2>1, <5>1, CompleteContent
        <5> QED
          BY <2>1, <5>1, <5>2, NamesAssumption DEF Publications
      <4> QED
        BY <4>1, <4>2
    <3>2. Catalogs' = [Catalogs EXCEPT ![v] = BasePurls(PurlsAt(location))]
      <4>1. /\ mapped' = [mapped EXCEPT ![v] = location]
            /\ \A l : PurlsAt(l)' = PurlsAt(l)
        BY <1>6, <2>3 DEF Load, callVars, PurlsAt
      <4>2. location # None
        BY NamesAssumption DEF Location
      <4> QED
        BY <4>1, <4>2 DEF Catalogs, IInv, TypeOK
    <3>3. Catalog!Open(v, s)
      BY <1>6, <2>0, <2>3, <3>1, <3>2 DEF Load, Catalogs, Catalog!Open
    <3> QED
      BY <3>3 DEF Catalog!Next, Catalog!Source
  <2> QED
    BY <2>2, <2>3
<1>7. ASSUME NEW v \in Validator, NEW arg \in Argument, validate_purl(v, arg)
      PROVE  Catalog!Next
  <2>1. mapped[v] \in complete
    BY <1>7 DEF validate_purl, IInv, OnlyCompleteMapsAreRead
  <2>2. Lookup(mapped[v], arg) = Catalog!Answer(v, arg)
    <3>1. Catalogs[v] = BasePurls(PurlsAt(mapped[v]))
      BY <1>7 DEF validate_purl, Catalogs
    <3>2. ~ IsRejected(arg) =>
            (InMap(mapped[v], create_purl_map_entry(arg))
               <=> BasePurl(ToPackageURL(arg)) \in BasePurls(PurlsAt(mapped[v])))
      BY <2>1, CompleteContent, LookupExact
    <3>3. Catalog!Answer(v, arg) =
            IF IsRejected(arg) THEN "ValueError"
            ELSE IF BasePurl(ToPackageURL(arg)) \in Catalogs[v]
                 THEN "exists" ELSE "unknown"
      BY SameEntries, Zenon DEF Catalog!Answer
    <3> QED
      BY <3>1, <3>2, <3>3 DEF Lookup
  <2>3. Catalogs[v] # None
    BY <1>7, <2>1, CompleteContent, BasePurlsNotNone DEF validate_purl, Catalogs
  <2>4. UNCHANGED <<Publications, Catalogs>>
    BY <1>2, <1>7, CatalogsFinal DEF validate_purl, callVars
  <2>5. Catalog!Ask(v, arg)
    BY <1>7, <2>2, <2>3, <2>4 DEF validate_purl, Catalog!Ask
  <2> QED
    BY <2>5, SameEntries DEF Catalog!Next
<1>8. ASSUME NEW v \in Validator, Release(v)
      PROVE  Catalog!Next
  <2>1. UNCHANGED Publications
    BY <1>2, <1>8 DEF Release, callVars
  <2>2. Catalogs' = [Catalogs EXCEPT ![v] = None]
    <3>1. mapped' = [mapped EXCEPT ![v] = None] /\ \A l : PurlsAt(l)' = PurlsAt(l)
      BY <1>8 DEF Release, callVars, PurlsAt
    <3> QED
      BY <3>1 DEF Catalogs, IInv, TypeOK
  <2>3. Catalog!NoAnswers(v, None)
    BY <1>8, <2>1, <2>2 DEF Release, Catalog!NoAnswers
  <2> QED
    BY <2>3 DEF Catalog!Next
<1>9. CASE UNCHANGED vars
  BY <1>1, <1>2, <1>9 DEF vars
<1> QED
  BY <1>3, <1>4, <1>5, <1>6, <1>7, <1>8, <1>9 DEF Next, Build

\* As long as no name holds a "/", the library keeps the promise of PurlCatalog.
THEOREM Refinement == PlainNames => (Spec => ImplementsCatalog)
<1> SUFFICES ASSUME PlainNames PROVE Spec => ImplementsCatalog
  OBVIOUS
<1>1. IInv /\ [Next]_vars => [Catalog!Next]_(Catalog!vars)
  BY NextCatalog
<1> QED
  BY <1>1, InitCatalog, Inductive, PTL DEF Spec, ImplementsCatalog, Catalog!Spec

================================================================================
