------------------------------ MODULE PurlCatalog ------------------------------
(***************************************************************************)
(* What the library promises, with no map, no file and no memory mapping:  *)
(* a call of create_purl_map publishes the base PURLs of its arguments or  *)
(* nothing; a validator is opened on one publication and, for as long as   *)
(* it is open, answers TRUE exactly for the base PURLs of that publication. *)
(***************************************************************************)
EXTENDS PurlEntry

CONSTANTS Call, Validator, Packaged, PackagedPurls, None

VARIABLES
  publication,   \* of each call and of the package: a set of base PURLs
  catalog,       \* of each validator: a set of base PURLs, or None when closed
  answer         \* of each validator: its last answer

Source == Call \cup {Packaged}

Init ==
  /\ publication = [s \in Source |-> IF s = Packaged
                                     THEN BasePurls(PackagedPurls) ELSE None]
  /\ catalog = [v \in Validator |-> None]
  /\ answer = [v \in Validator |-> None]

Publish(c, purls) ==
  /\ publication[c] = None
  /\ \A arg \in purls : ~ IsRejected(arg)
  /\ publication' = [publication EXCEPT ![c] = BasePurls(purls)]
  /\ UNCHANGED <<catalog, answer>>

Open(v, s) ==
  /\ catalog[v] = None
  /\ publication[s] # None
  /\ catalog' = [catalog EXCEPT ![v] = publication[s]]
  /\ UNCHANGED <<publication, answer>>

\* A failed open, a close: the validator gives no answers any more.
NoAnswers(v, result) ==
  /\ catalog' = [catalog EXCEPT ![v] = None]
  /\ answer' = [answer EXCEPT ![v] = result]
  /\ UNCHANGED publication

Answer(v, arg) ==
  IF IsRejected(arg) THEN "ValueError"
  ELSE IF BasePurl(ToPackageURL(arg)) \in catalog[v] THEN "exists" ELSE "unknown"

Ask(v, arg) ==
  /\ catalog[v] # None
  /\ answer' = [answer EXCEPT ![v] = Answer(v, arg)]
  /\ UNCHANGED <<publication, catalog>>

Next ==
  \/ \E c \in Call : \E purls \in SUBSET Argument : Publish(c, purls)
  \/ \E v \in Validator, s \in Source : Open(v, s)
  \/ \E v \in Validator : \/ NoAnswers(v, "FileNotFoundError")
                          \/ NoAnswers(v, None)
                          \/ \E arg \in Argument : Ask(v, arg)

vars == <<publication, catalog, answer>>

Spec == Init /\ [][Next]_vars
================================================================================
