----------------------------- MODULE PurlValidator -----------------------------
(***************************************************************************)
(* purl_validator/__init__.py: calls of create_purl_map, each building a   *)
(* map file in a temporary directory of its own; the callers that delete   *)
(* such directories; and PurlValidator objects that memory-map a map and   *)
(* look PURLs up in it.  Calls and validators interleave: they share the   *)
(* file system and nothing else.                                           *)
(*                                                                         *)
(* A map is a set of <<entry, value>> pairs, written by ducer.Map.build    *)
(* one pair at a time; ducer refuses a key that does not follow the        *)
(* previous one.  Rank is the order of the entries' bytes.  A directory    *)
(* that mkdtemp made is never made again, so it also names the map file    *)
(* in it, which a memory mapping keeps readable after its deletion.        *)
(***************************************************************************)
EXTENDS PurlEntry, FiniteSets

CONSTANTS
  Call,           \* calls of create_purl_map
  Validator,      \* PurlValidator objects
  Dir,            \* temporary directories (a bound: one for each call)
  Packaged,       \* PURL_MAP_LOCATION, the map shipped with the package
  PackagedPurls,  \* the PURLs it was made from
  Requests,       \* the collections of arguments create_purl_map is given
  Rank,
  None

ASSUME RequestsAssumption ==
  /\ Requests \subseteq SUBSET Argument
  /\ \A purls \in Requests : IsFiniteSet(purls)
  /\ PackagedPurls \subseteq PackageURLs

ASSUME RankAssumption ==
  /\ Rank \in [Entry -> Nat]
  /\ \A e, f \in Entry : Rank[e] = Rank[f] => e = f

ASSUME NamesAssumption ==
  /\ Packaged \notin Dir
  /\ Packaged \notin Call
  /\ None \notin Dir \cup {Packaged}
  /\ \A purls \in SUBSET PackageURLs : BasePurls(purls) # None

VARIABLES
  pc,          \* of each call: where it is in create_purl_map
  request,     \* of each call: its argument, purls
  pending,     \* of each call: prepared_purl_map_entries not yet written
  dir,         \* of each call: temp_dir, or None
  linked,      \* the locations that exist in the file system
  content,     \* of each location: the pairs in its map file
  complete,    \* the locations whose map file was written to its end
  mapped,      \* of each validator: the location behind purl_map, or None
  answer       \* of each validator: how its last call ended

vars == <<pc, request, pending, dir, linked, content, complete, mapped, answer>>
callVars == <<pc, request, pending, dir>>
fileVars == <<linked, content, complete>>
validatorVars == <<mapped, answer>>

Location == Dir \cup {Packaged}

\* A location with a complete map that create_purl_map has handed out.
Returned(c) == pc[c] \in {"returned", "deleted"}

\* Mutant: a value that bool() takes for a miss.
PreparedWithZero(purls) == {<<create_purl_map_entry(arg), 0>> : arg \in purls}

\* (purl_map_entry, 1) for each distinct entry.
PreparedEntries(purls) == {<<create_purl_map_entry(arg), 1>> : arg \in purls}

Init ==
  /\ pc = [c \in Call |-> "start"]
  /\ request = [c \in Call |-> {}]
  /\ pending = [c \in Call |-> {}]
  /\ dir = [c \in Call |-> None]
  /\ linked = {Packaged}
  /\ content = [l \in Location |-> IF l = Packaged
                                   THEN PreparedEntries(PackagedPurls) ELSE {}]
  /\ complete = {Packaged}
  /\ mapped = [v \in Validator |-> None]
  /\ answer = [v \in Validator |-> None]

--------------------------------------------------------------------------------
(***************************************************************************)
(* create_purl_map                                                         *)
(***************************************************************************)

\* Mutant: the temporary directory is made before the entries are.
PrepareInTempDir(c, purls) ==
  /\ pc[c] = "start"
  /\ request' = [request EXCEPT ![c] = purls]
  /\ IF \E arg \in purls : IsRejected(arg)
     THEN /\ pc' = [pc EXCEPT ![c] = "ValueError"]
          /\ \E d \in Dir \ {dir[o] : o \in Call} :
               /\ dir' = [dir EXCEPT ![c] = d]
               /\ linked' = linked \cup {d}
          /\ UNCHANGED pending
     ELSE /\ pc' = [pc EXCEPT ![c] = "prepared"]
          /\ pending' = [pending EXCEPT ![c] = PreparedEntries(purls)]
          /\ UNCHANGED <<dir, linked>>
  /\ UNCHANGED <<content, complete, validatorVars>>

\* Every entry is made before anything else is done.
PrepareEntries(c, purls) ==
  /\ pc[c] = "start"
  /\ request' = [request EXCEPT ![c] = purls]
  /\ IF \E arg \in purls : IsRejected(arg)
     THEN /\ pc' = [pc EXCEPT ![c] = "ValueError"]
          /\ UNCHANGED pending
     ELSE /\ pc' = [pc EXCEPT ![c] = "prepared"]
          /\ pending' = [pending EXCEPT ![c] = PreparedEntries(purls)]
  /\ UNCHANGED <<dir, fileVars, validatorVars>>

\* Mutant: a fixed directory in place of a fresh one.
ReuseTempDir(c) ==
  /\ pc[c] = "prepared"
  /\ \E d \in Dir : dir' = [dir EXCEPT ![c] = d] /\ linked' = linked \cup {d}
  /\ pc' = [pc EXCEPT ![c] = "building"]
  /\ UNCHANGED <<request, pending, content, complete, validatorVars>>

\* get_temp_dir, and the map file that ducer opens in the directory.
MakeTempDir(c) ==
  /\ pc[c] = "prepared"
  /\ \E d \in Dir \ {dir[o] : o \in Call} :
       /\ dir' = [dir EXCEPT ![c] = d]
       /\ linked' = linked \cup {d}
  /\ pc' = [pc EXCEPT ![c] = "building"]
  /\ UNCHANGED <<request, pending, content, complete, validatorVars>>

\* Mutant: the entries are written in the order of the set.
AnyPair(c, pair) == pair \in pending[c]

\* The pair that sorted() puts first among those not yet written.
NextPair(c, pair) ==
  /\ pair \in pending[c]
  /\ \A other \in pending[c] : Rank[pair[1]] <= Rank[other[1]]

\* ducer's own check of the order of the keys.
Follows(pair, pairs) == \A other \in pairs : Rank[other[1]] < Rank[pair[1]]

WritePair(c) ==
  /\ pc[c] = "building"
  /\ \E pair \in pending[c] :
       /\ NextPair(c, pair)
       /\ IF Follows(pair, content[dir[c]])
          THEN /\ content' = [content EXCEPT ![dir[c]] = @ \cup {pair}]
               /\ pending' = [pending EXCEPT ![c] = @ \ {pair}]
               /\ UNCHANGED pc
          ELSE /\ pc' = [pc EXCEPT ![c] = "out_of_order"]
               /\ UNCHANGED <<content, pending>>
  /\ UNCHANGED <<request, dir, linked, complete, validatorVars>>

\* Mutant: a map with no entry is never finished.
ReturnNonEmptyMap(c) ==
  /\ pc[c] = "building"
  /\ pending[c] = {} /\ content[dir[c]] # {}
  /\ complete' = complete \cup {dir[c]}
  /\ pc' = [pc EXCEPT ![c] = "returned"]
  /\ UNCHANGED <<request, pending, dir, linked, content, validatorVars>>

ReturnMap(c) ==
  /\ pc[c] = "building"
  /\ pending[c] = {}
  /\ complete' = complete \cup {dir[c]}
  /\ pc' = [pc EXCEPT ![c] = "returned"]
  /\ UNCHANGED <<request, pending, dir, linked, content, validatorVars>>

\* Mutant: an error of the build is caught and the location returned.
ReturnBrokenMap(c) ==
  /\ pc[c] = "building"
  /\ pc' = [pc EXCEPT ![c] = "returned"]
  /\ UNCHANGED <<request, pending, dir, fileVars, validatorVars>>

\* An error of the file system, or the end of the process: the directory, if it
\* was made, stays behind with what was written.
BuildFails(c) ==
  /\ pc[c] \in {"prepared", "building"}
  /\ pc' = [pc EXCEPT ![c] = "failed"]
  /\ UNCHANGED <<request, pending, dir, fileVars, validatorVars>>

\* The caller's fileutils.delete(purl_map.parent), as in the tests' tearDown.
DeleteMap(c) ==
  /\ pc[c] = "returned"
  /\ pc' = [pc EXCEPT ![c] = "deleted"]
  /\ linked' = linked \ {dir[c]}
  /\ UNCHANGED <<request, pending, dir, content, complete, validatorVars>>

--------------------------------------------------------------------------------
(***************************************************************************)
(* PurlValidator                                                           *)
(***************************************************************************)

\* PurlValidator(location): the file is opened, mapped and closed again.
Load(v, location) ==
  /\ mapped[v] = None
  /\ \/ location = Packaged
     \/ \E c \in Call : Returned(c) /\ dir[c] = location
  /\ IF location \in linked
     THEN /\ mapped' = [mapped EXCEPT ![v] = location]
          /\ UNCHANGED answer
     ELSE /\ answer' = [answer EXCEPT ![v] = "FileNotFoundError"]
          /\ UNCHANGED mapped
  /\ UNCHANGED <<callVars, fileVars>>

\* bool(purl_map.get(entry))
InMap(location, entry) ==
  \E pair \in content[location] : pair[1] = entry /\ pair[2] # 0

\* Mutant: an argument without a package is only unknown.
NoValueError(location, arg) ==
  IF ~ IsRejected(arg) /\ InMap(location, create_purl_map_entry(arg))
  THEN "exists" ELSE "unknown"

Lookup(location, arg) ==
  IF IsRejected(arg) THEN "ValueError"
  ELSE IF InMap(location, create_purl_map_entry(arg)) THEN "exists" ELSE "unknown"

validate_purl(v, arg) ==
  /\ mapped[v] # None
  /\ answer' = [answer EXCEPT ![v] = Lookup(mapped[v], arg)]
  /\ UNCHANGED <<mapped, callVars, fileVars>>

\* The last reference to the validator goes, and the mapping with it.
Release(v) ==
  /\ mapped[v] # None
  /\ mapped' = [mapped EXCEPT ![v] = None]
  /\ answer' = [answer EXCEPT ![v] = None]
  /\ UNCHANGED <<callVars, fileVars>>

--------------------------------------------------------------------------------
Build(c) == MakeTempDir(c) \/ WritePair(c) \/ ReturnMap(c)

Next ==
  \/ \E c \in Call : \/ \E purls \in Requests : PrepareEntries(c, purls)
                     \/ Build(c)
                     \/ BuildFails(c)
                     \/ DeleteMap(c)
  \/ \E v \in Validator : \/ \E location \in Location : Load(v, location)
                          \/ \E arg \in Argument : validate_purl(v, arg)
                          \/ Release(v)

Spec == Init /\ [][Next]_vars

\* A call that has started runs on to its end.
FairSpec == Spec /\ \A c \in Call : WF_vars(Build(c))

--------------------------------------------------------------------------------
(***************************************************************************)
(* Properties                                                              *)
(***************************************************************************)

TypeOK ==
  /\ pc \in [Call -> {"start", "ValueError", "prepared", "building", "returned",
                      "out_of_order", "failed", "deleted"}]
  /\ request \in [Call -> Requests \cup {{}}]
  /\ pending \in [Call -> SUBSET (Entry \X {1})]
  /\ dir \in [Call -> Dir \cup {None}]
  /\ linked \in SUBSET Location
  /\ content \in [Location -> SUBSET (Entry \X {1})]
  /\ complete \in SUBSET Location
  /\ mapped \in [Validator -> Location \cup {None}]
  /\ answer \in [Validator -> {None, "FileNotFoundError", "ValueError",
                               "exists", "unknown"}]

\* The arguments that the map at a location was made from.
PurlsAt(location) ==
  IF location = Packaged THEN PackagedPurls
  ELSE UNION {request[c] : c \in {o \in Call : dir[o] = location}}

\* The arguments that an open validator recognises.
Recognised(v) == {arg \in Argument : Lookup(mapped[v], arg) = "exists"}

\* "each validation is an exact membership check" (README.md:91), "without
\* false positives" (data-structure-rationale.rst:33): an open validator says
\* that a PURL exists exactly when a PURL with the same type, namespace and
\* name was given to the call that built its map.
ExactAnswers ==
  \A v \in Validator : mapped[v] # None =>
    \A arg \in {a \in Argument : ~ IsRejected(a)} :
      arg \in Recognised(v)
        <=> BasePurl(ToPackageURL(arg)) \in BasePurls(PurlsAt(mapped[v]))

\* What a validator recognises never changes while it stays open, whatever the
\* builders write and the callers delete meanwhile.
AnswersAreStable ==
  [][\A v \in Validator : mapped[v] # None /\ mapped'[v] # None
       => Recognised(v)' = Recognised(v)]_vars

\* No validator ever reads a map that is still being written, or whose build
\* was given up: the location is known to nobody before the build has ended.
OnlyCompleteMapsAreRead ==
  \A v \in Validator : mapped[v] # None => mapped[v] \in complete

\* The entries reach ducer strictly in order, each once, though different
\* arguments of a request can have the same entry: a build never fails on them.
NeverOutOfOrder == \A c \in Call : pc[c] # "out_of_order"

\* A call that raises ValueError leaves nothing in the file system; every
\* directory belongs to one call, and only a failed build or a caller that has
\* yet to delete its map has one left.
DirectoriesAreOwned ==
  \A d \in linked \ {Packaged} :
    \E c \in Call :
      /\ dir[c] = d
      /\ pc[c] \in {"building", "returned", "failed", "out_of_order"}
      /\ \A arg \in request[c] : ~ IsRejected(arg)
      /\ \A o \in Call \ {c} : dir[o] # d

\* A call whose arguments are valid ends, with a map or with an error.
BuildsEnd ==
  \A c \in Call : (pc[c] = "prepared") ~> (pc[c] \notin {"prepared", "building"})

--------------------------------------------------------------------------------
(***************************************************************************)
(* What the library promises: PurlCatalog.                                 *)
(***************************************************************************)

\* A call publishes when it returns a map.
Publications ==
  [s \in Call \cup {Packaged} |->
     IF s = Packaged THEN BasePurls(PackagedPurls)
     ELSE IF Returned(s) THEN BasePurls(request[s]) ELSE None]

\* The catalog of a validator is what the map it reads was made from.
Catalogs ==
  [v \in Validator |->
     IF mapped[v] = None THEN None ELSE BasePurls(PurlsAt(mapped[v]))]

Catalog == INSTANCE PurlCatalog
             WITH publication <- Publications, catalog <- Catalogs

\* Calls and validators implement PurlCatalog: a request is published whole or
\* not at all, and a validator answers from one publication as long as it is open.
ImplementsCatalog == Catalog!Spec
================================================================================
