---------------------------- MODULE FileCacheProofs ----------------------------
(***************************************************************************)
(* What FileCache keeps true for any processes, URLs and versions.         *)
(***************************************************************************)
EXTENDS FileCache, TLAPS

--------------------------------------------------------------------------------
(***************************************************************************)
(* Retries                                                                 *)
(***************************************************************************)

\* Before each of the seven requests: _delay, the requests made, the seconds slept.
Schedule ==
  {<<0, 0, 0>>, <<1, 1, 0>>, <<2, 2, 1>>, <<4, 3, 3>>, <<8, 4, 7>>, <<16, 5, 15>>,
   <<32, 6, 31>>}

\* The retries of a call follow the schedule: while it asks, it is at one of its
\* points, and a call that gave up a throttled request was at the last one.
OnSchedule ==
  \A p \in Process :
    /\ pc[p] = "request" => <<delay[p], requests[p], slept[p]>> \in Schedule
    /\ requests[p] <= 7 /\ slept[p] <= 63
    /\ pc[p] = "raised" /\ throttled[p] => requests[p] = 7 /\ slept[p] = 63

--------------------------------------------------------------------------------
(***************************************************************************)
(* What the cache needs: calls that keep apart                             *)
(***************************************************************************)

\* No two calls for the same URL are under way.
Apart ==
  \A p, q \in Process : p # q /\ Busy(p) /\ Busy(q) => call[p].url # call[q].url

\* No process is killed between the opening and the closing of a file in the cache.
WritesEnd == [][\A p \in Process : pc[p] = "write_cached" => pc'[p] # "killed"]_vars

\* There is one process and it is not killed.
Alone == (\E p : Process = {p}) /\ ~ MayBeKilled

\* A process that has fetched holds a version; one that reads the cache, will.
Holding == {"open_cached", "write_cached", "open_saved", "write_saved", "returned"}

HoldsVersion ==
  \A p \in Process :
    /\ pc[p] \in Holding => content[p] \in 1..remote[call[p].url]
    /\ pc[p] = "read" => cached[call[p].url] \in 1..remote[call[p].url]

\* The file being written is empty.
WritesToEmpty ==
  \A p \in Process : pc[p] = "write_cached" => cached[call[p].url] = Empty

CacheInv == HoldsVersion /\ WritesToEmpty /\ CacheIsWhole

\* The file in the destination is empty while it is written, and then what the
\* call returns.
SaveInv ==
  /\ \A p \in Process : pc[p] = "write_saved" => saved[call[p].url] = Empty
  /\ SavedIsReturned

--------------------------------------------------------------------------------
(***************************************************************************)
(* Forced calls                                                            *)
(***************************************************************************)

\* A forced call does not read the cache, and what it holds once it has fetched
\* was fetched after it began, from a server that never goes back.
HoldsFresh ==
  \A p \in Process :
    /\ oldest[p] <= remote[call[p].url]
    /\ call[p].force =>
         /\ pc[p] # "read"
         /\ pc[p] \in {"open_cached", "write_cached", "open_saved", "write_saved",
                       "returned"} => content[p] >= oldest[p]

--------------------------------------------------------------------------------
\* The places of a call.
Steps == {"idle", "request", "read", "open_cached", "write_cached", "open_saved",
          "write_saved", "returned", "raised", "killed"}

LEMMA InitType == Init => TypeOK
<1> SUFFICES ASSUME Init PROVE TypeOK
  OBVIOUS
<1>1. call \in [Process -> [url : Url, force : BOOLEAN, save : BOOLEAN]]
  BY DEF Init
<1>2. oldest \in [Process -> Version \cup {Missing}]
  BY DEF Init, Missing
<1> QED
  BY <1>1, <1>2 DEF Init, TypeOK, File, Absent

\* Every step keeps the types.
LEMMA NextType ==
  ASSUME TypeOK, [Next]_vars
  PROVE  TypeOK'
<1> USE ConstantsAssumption
    DEF TypeOK, File, Version, Absent, Missing, Empty, Broken, Go, requestVars
<1>1. ASSUME NEW p \in Process, NEW url \in Url, NEW force \in BOOLEAN,
             NEW save \in {FALSE, MaySave}, Get(p, url, force, save)
      PROVE  TypeOK'
  <2>1. call' \in [Process -> [url : Url, force : BOOLEAN, save : BOOLEAN]]
    <3>1. [url |-> url, force |-> force, save |-> save]
            \in [url : Url, force : BOOLEAN, save : BOOLEAN]
      BY <1>1
    <3> QED
      BY <1>1, <3>1 DEF Get
  <2> QED
    BY <1>1, <2>1 DEF Get
<1>2. ASSUME NEW p \in Process, ReadCached(p)
      PROVE  TypeOK'
  BY <1>2 DEF ReadCached
<1>0. ASSUME NEW p \in Process, Request(p)
      PROVE  /\ slept' \in [Process -> Nat] /\ requests' \in [Process -> Nat]
  BY <1>0 DEF Request, UpTo, MaxRequests, MaxSlept
<1>3. ASSUME NEW p \in Process, Fetched(p)
      PROVE  TypeOK'
  <2>1. Request(p)
    BY <1>3 DEF Fetched
  <2> QED
    BY <1>0, <1>3, <2>1 DEF Fetched
<1>4. ASSUME NEW p \in Process, Throttled(p)
      PROVE  TypeOK'
  <2>1. NextDelay(delay[p]) \in Nat
    BY DEF NextDelay
  <2>2. delay' \in [Process -> Nat] /\ pc' \in [Process -> Steps]
    <3>1. CASE Retries(delay[p])
      BY <1>4, <2>1, <3>1 DEF Throttled, Steps
    <3>2. CASE ~ Retries(delay[p])
      BY <1>4, <3>2 DEF Throttled, Steps
    <3> QED
      BY <3>1, <3>2
  <2>3. requests' \in [Process -> Nat] /\ slept' \in [Process -> Nat]
    BY <1>0, <1>4 DEF Throttled
  <2>4. throttled' \in [Process -> BOOLEAN]
    BY <1>4 DEF Throttled
  <2> QED
    BY <1>4, <2>2, <2>3, <2>4 DEF Throttled, Steps
<1>5. ASSUME NEW p \in Process, NotFetched(p)
      PROVE  TypeOK'
  <2>1. Request(p)
    BY <1>5 DEF NotFetched
  <2> QED
    BY <1>0, <1>5, <2>1 DEF NotFetched
<1>6. ASSUME NEW p \in Process, OpenCached(p)
      PROVE  TypeOK'
  BY <1>6 DEF OpenCached
<1>7. ASSUME NEW p \in Process, WriteCached(p)
      PROVE  TypeOK'
  BY <1>7 DEF WriteCached, Written
<1>8. ASSUME NEW p \in Process, OpenSaved(p)
      PROVE  TypeOK'
  BY <1>8 DEF OpenSaved
<1>9. ASSUME NEW p \in Process, WriteSaved(p)
      PROVE  TypeOK'
  BY <1>9 DEF WriteSaved, Written
<1>10. ASSUME NEW p \in Process, Killed(p)
       PROVE  TypeOK'
  BY <1>10 DEF Killed
<1>11. ASSUME NEW url \in Url, Publish(url)
       PROVE  TypeOK'
  BY <1>11 DEF Publish
<1>12. CASE UNCHANGED vars
  BY <1>12 DEF vars
<1>13. ASSUME NEW p \in Process, Run(p)
       PROVE  TypeOK'
  BY <1>2, <1>3, <1>4, <1>5, <1>6, <1>7, <1>8, <1>9, <1>13 DEF Run
<1> HIDE DEF TypeOK
<1> QED
  BY <1>1, <1>10, <1>11, <1>12, <1>13 DEF Next

\* Every reachable state has the types that TypeOK gives.
THEOREM TypeCorrect == Spec => []TypeOK
<1> QED
  BY InitType, NextType, PTL DEF Spec

--------------------------------------------------------------------------------
\* Every step keeps to the schedule: only Get starts it, and only Throttled goes
\* on along it.
LEMMA NextSchedule ==
  ASSUME TypeOK, OnSchedule, [Next]_vars, LastDelay = 20
  PROVE  OnSchedule'
<1> USE DEF TypeOK, OnSchedule, Go, requestVars
<1>1. ASSUME NEW p \in Process, NEW url \in Url, NEW force \in BOOLEAN,
             NEW save \in {FALSE, MaySave}, Get(p, url, force, save)
      PROVE  OnSchedule'
  BY <1>1 DEF Get, Schedule
<1>2. ASSUME NEW p \in Process,
             \/ ReadCached(p) \/ OpenCached(p) \/ WriteCached(p)
             \/ OpenSaved(p) \/ WriteSaved(p)
      PROVE  OnSchedule'
  BY <1>2 DEF ReadCached, OpenCached, WriteCached, OpenSaved, WriteSaved
<1>3. ASSUME NEW p \in Process, pc[p] = "request", Request(p)
      PROVE  /\ requests'[p] <= 7 /\ slept'[p] <= 63
             /\ Retries(delay[p]) =>
                  <<NextDelay(delay[p]), requests'[p], slept'[p]>> \in Schedule
             /\ ~ Retries(delay[p]) => requests'[p] = 7 /\ slept'[p] = 63
  <2>1. /\ requests'[p] = UpTo(MaxRequests, requests[p] + 1)
        /\ slept'[p] = UpTo(MaxSlept, slept[p] + delay[p])
    BY <1>3 DEF Request
  <2>2. <<delay[p], requests[p], slept[p]>> \in Schedule
    BY <1>3
  <2> HIDE DEF TypeOK, OnSchedule
  <2> QED
    BY <2>1, <2>2 DEF Schedule, Retries, NextDelay, UpTo, MaxRequests, MaxSlept
<1>4. ASSUME NEW p \in Process, Fetched(p) \/ Throttled(p) \/ NotFetched(p)
      PROVE  OnSchedule'
  <2>1. pc[p] = "request" /\ Request(p)
    BY <1>4 DEF Fetched, Throttled, NotFetched, Request
  <2>2. ASSUME NEW q \in Process, q # p
        PROVE  /\ pc'[q] = pc[q] /\ delay'[q] = delay[q] /\ requests'[q] = requests[q]
               /\ slept'[q] = slept[q] /\ throttled'[q] = throttled[q]
    BY <1>4, <2>1, <2>2 DEF Fetched, Throttled, NotFetched, Request
  <2>3. \/ pc'[p] = "open_cached"
        \/ pc'[p] = "request" /\ Retries(delay[p]) /\ delay'[p] = NextDelay(delay[p])
        \/ pc'[p] = "raised" /\ ~ Retries(delay[p])
        \/ pc'[p] = "raised" /\ ~ throttled'[p]
    BY <1>4, <2>1 DEF Fetched, Throttled, NotFetched
  <2>4. /\ requests'[p] <= 7 /\ slept'[p] <= 63
        /\ pc'[p] = "request" => <<delay'[p], requests'[p], slept'[p]>> \in Schedule
        /\ pc'[p] = "raised" /\ throttled'[p] => requests'[p] = 7 /\ slept'[p] = 63
    BY ONLY <1>3, <2>1, <2>3, <1>4
  <2>5. ASSUME NEW q \in Process, q # p
        PROVE  /\ requests'[q] <= 7 /\ slept'[q] <= 63
               /\ pc'[q] = "request" =>
                    <<delay'[q], requests'[q], slept'[q]>> \in Schedule
               /\ pc'[q] = "raised" /\ throttled'[q] =>
                    requests'[q] = 7 /\ slept'[q] = 63
    BY <2>2, <2>5
  <2> QED
    BY <2>4, <2>5, Zenon
<1>5. ASSUME NEW p \in Process, Killed(p)
      PROVE  OnSchedule'
  BY <1>5 DEF Killed
<1>6. ASSUME NEW url \in Url, Publish(url)
      PROVE  OnSchedule'
  BY <1>6 DEF Publish
<1>7. CASE UNCHANGED vars
  BY <1>7 DEF vars
<1> HIDE DEF TypeOK, OnSchedule
<1> QED
  BY <1>1, <1>2, <1>4, <1>5, <1>6, <1>7 DEF Next, Run

\* Calls back off as get_remote_file_content says, however many processes are
\* throttled, killed and started again.
THEOREM BackOff == LastDelay = 20 => (Spec => []BacksOff)
<1> SUFFICES ASSUME LastDelay = 20 PROVE Spec => []BacksOff
  OBVIOUS
<1>1. Init => OnSchedule
  <2>1. ASSUME Init, NEW p \in Process
        PROVE  pc[p] = "idle" /\ requests[p] = 0 /\ slept[p] = 0
    BY <2>1 DEF Init
  <2>2. ASSUME Init, NEW p \in Process
        PROVE  /\ pc[p] # "request" /\ pc[p] # "raised"
               /\ requests[p] <= 7 /\ slept[p] <= 63
    BY <2>1, <2>2
  <2> QED
    BY <2>2, Zenon DEF OnSchedule
<1>2. TypeOK /\ OnSchedule /\ [Next]_vars => OnSchedule'
  BY NextSchedule
<1>3. OnSchedule => BacksOff
  BY DEF OnSchedule, BacksOff
<1> QED
  BY <1>1, <1>2, <1>3, TypeCorrect, PTL DEF Spec

--------------------------------------------------------------------------------
\* Every step keeps forced content fresh: only Get changes the first conjunct and
\* only Fetched changes what is held outside of "read".
LEMMA NextFresh ==
  ASSUME TypeOK, HoldsFresh, [Next]_vars
  PROVE  HoldsFresh'
<1> USE DEF TypeOK, HoldsFresh, Go, requestVars, Version, Missing
<1>1. ASSUME NEW p \in Process, NEW url \in Url, NEW force \in BOOLEAN,
             NEW save \in {FALSE, MaySave}, Get(p, url, force, save)
      PROVE  HoldsFresh'
  <2>1. call'[p] = [url |-> url, force |-> force, save |-> save]
    BY <1>1 DEF Get
  <2>2. pc'[p] \in {"read", "request"} /\ (force => pc'[p] = "request")
    BY <1>1 DEF Get, IsMiss
  <2>3. oldest'[p] <= remote'[call'[p].url]
    <3>1. remote[url] \in Int
      BY ConstantsAssumption
    <3>2. oldest'[p] = remote[url] /\ remote' = remote
      BY <1>1 DEF Get
    <3> QED
      BY <2>1, <3>1, <3>2
  <2>4. ASSUME NEW q \in Process, q # p
        PROVE  /\ pc'[q] = pc[q] /\ call'[q] = call[q] /\ content'[q] = content[q]
               /\ oldest'[q] = oldest[q] /\ remote' = remote
    BY <1>1, <2>4 DEF Get
  <2>5. call'[p].force = force
    BY <2>1
  <2>6. ASSUME NEW q \in Process
        PROVE  /\ oldest'[q] <= remote'[call'[q].url]
               /\ call'[q].force =>
                    /\ pc'[q] # "read"
                    /\ pc'[q] \in {"open_cached", "write_cached", "open_saved",
                                   "write_saved", "returned"} => content'[q] >= oldest'[q]
    <3>1. CASE q = p
      BY <2>2, <2>3, <2>5, <3>1
    <3>2. CASE q # p
      BY <2>4, <3>2
    <3> QED
      BY <3>1, <3>2
  <2> HIDE DEF TypeOK
  <2> QED
    BY <2>6
<1>2. ASSUME NEW p \in Process,
             \/ ReadCached(p) \/ OpenCached(p) \/ WriteCached(p)
             \/ OpenSaved(p) \/ WriteSaved(p)
      PROVE  HoldsFresh'
  BY <1>2 DEF ReadCached, OpenCached, WriteCached, OpenSaved, WriteSaved
<1>3. ASSUME NEW p \in Process, Fetched(p)
      PROVE  HoldsFresh'
  BY <1>3, ConstantsAssumption DEF Fetched, Request
<1>4. ASSUME NEW p \in Process, Throttled(p) \/ NotFetched(p)
      PROVE  HoldsFresh'
  BY <1>4 DEF Throttled, NotFetched, Request
<1>5. ASSUME NEW p \in Process, Killed(p)
      PROVE  HoldsFresh'
  BY <1>5 DEF Killed
<1>6. ASSUME NEW url \in Url, Publish(url)
      PROVE  HoldsFresh'
  <2>1. \A u \in Url : remote[u] <= remote'[u]
    BY <1>6, ConstantsAssumption DEF Publish
  <2>2. \A u \in Url : remote[u] \in Int /\ remote'[u] \in Int
    BY <1>6, ConstantsAssumption DEF Publish
  <2>3. \A p \in Process : call[p].url \in Url /\ oldest[p] \in Int
    BY ConstantsAssumption
  <2>4. \A p \in Process : oldest[p] <= remote'[call[p].url]
    BY <2>1, <2>2, <2>3
  <2> QED
    BY <1>6, <2>4 DEF Publish
<1>7. CASE UNCHANGED vars
  BY <1>7 DEF vars
<1> HIDE DEF TypeOK, HoldsFresh, Go, Version
<1> QED
  BY <1>1, <1>2, <1>3, <1>4, <1>5, <1>6, <1>7 DEF Next, Run

\* A forced call never returns what is older than the call, though other
\* processes write, empty and break the cached file at the same time.
THEOREM ForcedCallsAreFresh == Spec => []ForcedIsFresh
<1>1. Init => HoldsFresh
  <2> SUFFICES ASSUME Init, NEW p \in Process
               PROVE  /\ oldest[p] <= remote[call[p].url]
                      /\ pc[p] = "idle"
    BY DEF HoldsFresh
  <2>1. call[p].url \in Url /\ oldest[p] = 0
    BY DEF Init
  <2>2. remote \in [Url -> Version \cup {Missing}]
    BY DEF Init
  <2>3. oldest[p] <= remote[call[p].url]
    BY <2>1, <2>2, ConstantsAssumption DEF Version, Missing
  <2>4. pc[p] = "idle"
    BY DEF Init
  <2> QED
    BY <2>3, <2>4
<1>2. TypeOK /\ HoldsFresh /\ [Next]_vars => HoldsFresh'
  BY NextFresh
<1>3. HoldsFresh => ForcedIsFresh
  BY DEF HoldsFresh, ForcedIsFresh
<1> QED
  BY <1>1, <1>2, <1>3, TypeCorrect, PTL DEF Spec

--------------------------------------------------------------------------------
\* A step of process p changes at most the file of its call, and leaves it whole or
\* goes on writing it: the calls for other URLs do not notice.
LEMMA StepOfOne ==
  ASSUME TypeOK, CacheInv, Apart, NEW p \in Process, UNCHANGED remote,
         \A q \in Process \ {p} :
           pc'[q] = pc[q] /\ call'[q] = call[q] /\ content'[q] = content[q],
         \A u \in Url : cached'[u] = cached[u] \/ (Busy(p) /\ u = call[p].url),
         \A u \in Url :
           cached'[u] # cached[u] \/ (pc[p] = "write_cached" /\ u = call[p].url) =>
             \/ pc'[p] = "write_cached" /\ call'[p].url = u
             \/ cached'[u] \in 0..remote[u],
         pc'[p] \in Holding => content'[p] \in 1..remote[call'[p].url],
         pc'[p] = "read" => cached'[call'[p].url] \in 1..remote[call'[p].url],
         pc'[p] = "write_cached" => cached'[call'[p].url] = Empty
  PROVE  CacheInv'
<1>1. \A q \in Process : call[q].url \in Url
  BY DEF TypeOK
<1>2. ASSUME NEW q \in Process \ {p}, pc[q] \in {"read", "write_cached"}
      PROVE  cached'[call[q].url] = cached[call[q].url]
  BY <1>1, <1>2 DEF Apart, Busy
<1>3. HoldsVersion'
  BY <1>1, <1>2 DEF HoldsVersion, CacheInv
<1>4. WritesToEmpty'
  BY <1>1, <1>2 DEF WritesToEmpty, CacheInv
<1>5. ASSUME NEW u \in Url, \A q \in Process : ~ (pc'[q] = "write_cached" /\ call'[q].url = u)
      PROVE  cached'[u] \in 0..remote[u]
  <2>1. CASE cached'[u] # cached[u] \/ (pc[p] = "write_cached" /\ u = call[p].url)
    BY <1>5, <2>1
  <2>2. CASE cached'[u] = cached[u] /\ ~ (pc[p] = "write_cached" /\ u = call[p].url)
    <3>1. \A q \in Process : ~ (pc[q] = "write_cached" /\ call[q].url = u)
      BY <1>5, <2>2
    <3> QED
      BY <2>2, <3>1 DEF CacheInv, CacheIsWhole
  <2> QED
    BY <2>1, <2>2
<1>6. CacheIsWhole'
  BY <1>5 DEF CacheIsWhole
<1> QED
  BY <1>3, <1>4, <1>6 DEF CacheInv

\* Every step keeps the cache whole while calls for the same URL keep apart and no
\* process is killed while it writes to the cache.
LEMMA NextCache ==
  ASSUME TypeOK, CacheInv, Apart, Apart', [Next]_vars,
         \A p \in Process : pc[p] = "write_cached" => pc'[p] # "killed"
  PROVE  CacheInv'
<1> USE ConstantsAssumption
    DEF TypeOK, Go, requestVars, Version, Missing, Absent, Empty, Holding
<1>0. \A q \in Process : call[q].url \in Url /\ remote[call[q].url] \in Int
  OBVIOUS
<1>1. ASSUME NEW p \in Process, NEW url \in Url, NEW force \in BOOLEAN,
             NEW save \in {FALSE, MaySave}, Get(p, url, force, save)
      PROVE  CacheInv'
  <2>1. /\ UNCHANGED <<remote, cached>> /\ call'[p].url = url
        /\ \A q \in Process \ {p} :
             pc'[q] = pc[q] /\ call'[q] = call[q] /\ content'[q] = content[q]
        /\ pc[p] # "write_cached"
        /\ pc'[p] = "request" \/ (pc'[p] = "read" /\ cached[url] # Absent)
    BY <1>1 DEF Get, Busy, IsMiss
  <2>2. ASSUME NEW q \in Process PROVE ~ (pc[q] = "write_cached" /\ call[q].url = url)
    <3> HIDE DEF TypeOK
    <3>1. pc'[p] \notin {"idle", "returned", "raised", "killed"}
      BY <2>1
    <3> SUFFICES ASSUME pc[q] = "write_cached", call[q].url = url
                 PROVE  FALSE
      OBVIOUS
    <3>2. q \in Process \ {p}
      BY <2>1
    <3>3. pc'[q] = "write_cached" /\ call'[q].url = url
      BY <2>1, <3>2
    <3>4. Busy(p)' /\ Busy(q)'
      BY <3>1, <3>3 DEF Busy
    <3>5. call'[p].url # call'[q].url
      BY ONLY <1>1, <3>2, <3>4, Apart' DEF Apart
    <3> QED
      BY <2>1, <3>3, <3>5
  <2>3. cached[url] \in 0..remote[url]
    BY <2>2 DEF CacheInv, CacheIsWhole
  <2>4. pc'[p] = "read" => cached'[call'[p].url] \in 1..remote[call'[p].url]
    BY <2>1, <2>3
  <2> HIDE DEF TypeOK
  <2> QED
    BY <2>1, <2>4, StepOfOne
<1>2. ASSUME NEW p \in Process, ReadCached(p)
      PROVE  CacheInv'
  <2>1. cached[call[p].url] \in 1..remote[call[p].url]
    BY <1>2 DEF ReadCached, CacheInv, HoldsVersion
  <2>2. /\ UNCHANGED <<remote, cached, call>>
        /\ \A q \in Process \ {p} : pc'[q] = pc[q] /\ content'[q] = content[q]
        /\ pc[p] = "read" /\ pc'[p] \in {"open_saved", "returned"}
        /\ content'[p] = cached[call[p].url]
    BY <1>2 DEF ReadCached
  <2> HIDE DEF TypeOK
  <2> QED
    BY <2>1, <2>2, StepOfOne
<1>3. ASSUME NEW p \in Process, Fetched(p)
      PROVE  CacheInv'
  <2>1. remote[call[p].url] \in 1..remote[call[p].url]
    BY <1>0, <1>3 DEF Fetched
  <2>2. /\ UNCHANGED <<remote, cached, call>>
        /\ \A q \in Process \ {p} : pc'[q] = pc[q] /\ content'[q] = content[q]
        /\ pc[p] = "request" /\ pc'[p] = "open_cached"
        /\ content'[p] = remote[call[p].url]
    BY <1>3 DEF Fetched, Request
  <2> HIDE DEF TypeOK
  <2> QED
    BY <2>1, <2>2, StepOfOne
<1>4. ASSUME NEW p \in Process, UNCHANGED <<remote, cached, call, content>>,
             pc[p] # "write_cached", \A q \in Process \ {p} : pc'[q] = pc[q],
             \/ pc'[p] \in {"request", "raised", "killed"}
             \/ pc[p] \in Holding /\ pc'[p] \in {"write_saved", "returned"}
      PROVE  CacheInv'
  <2>1. pc[p] \in Holding => content[p] \in 1..remote[call[p].url]
    BY DEF CacheInv, HoldsVersion
  <2> HIDE DEF TypeOK
  <2> QED
    BY <1>4, <2>1, StepOfOne
<1>5. ASSUME NEW p \in Process,
             \/ Throttled(p) \/ NotFetched(p) \/ OpenSaved(p) \/ WriteSaved(p) \/ Killed(p)
      PROVE  CacheInv'
  <2>1. pc[p] # "write_cached" /\ UNCHANGED <<remote, cached, call, content>>
    BY <1>5 DEF Throttled, NotFetched, Request, OpenSaved, WriteSaved, Killed
  <2>2. \A q \in Process \ {p} : pc'[q] = pc[q]
    BY <1>5 DEF Throttled, NotFetched, Request, OpenSaved, WriteSaved, Killed
  <2>3. \/ pc'[p] \in {"request", "raised", "killed"}
        \/ pc[p] \in Holding /\ pc'[p] \in {"write_saved", "returned"}
    BY <1>5 DEF Throttled, NotFetched, Request, OpenSaved, WriteSaved, Killed
  <2> QED
    BY <1>4, <2>1, <2>2, <2>3
<1>6. ASSUME NEW p \in Process, OpenCached(p)
      PROVE  CacheInv'
  <2>1. content[p] \in 1..remote[call[p].url]
    BY <1>6 DEF OpenCached, CacheInv, HoldsVersion
  <2>2. /\ UNCHANGED <<remote, call, content>>
        /\ \A q \in Process \ {p} : pc'[q] = pc[q]
        /\ pc[p] = "open_cached" /\ pc'[p] = "write_cached"
        /\ \A u \in Url : u # call[p].url => cached'[u] = cached[u]
        /\ cached'[call[p].url] = Empty
    BY <1>6 DEF OpenCached
  <2> HIDE DEF TypeOK
  <2> QED
    BY <2>1, <2>2, StepOfOne DEF Busy
<1>7. ASSUME NEW p \in Process, WriteCached(p)
      PROVE  CacheInv'
  <2>1. content[p] \in 1..remote[call[p].url] /\ cached[call[p].url] = Empty
    BY <1>7 DEF WriteCached, CacheInv, HoldsVersion, WritesToEmpty
  <2>2. /\ UNCHANGED <<remote, call, content>>
        /\ \A q \in Process \ {p} : pc'[q] = pc[q]
        /\ pc[p] = "write_cached" /\ pc'[p] \in {"open_saved", "returned"}
        /\ \A u \in Url : u # call[p].url => cached'[u] = cached[u]
        /\ cached'[call[p].url] = content[p]
    BY <1>7, <2>1 DEF WriteCached, Written
  <2>3. content[p] \in 0..remote[call[p].url]
    BY <2>1
  <2> HIDE DEF TypeOK
  <2> QED
    BY <2>1, <2>2, <2>3, StepOfOne DEF Busy
<1>8. ASSUME NEW url \in Url, Publish(url)
      PROVE  CacheInv'
  <2>1. \A u \in Url : remote[u] \in Nat /\ remote'[u] \in Nat /\ remote[u] <= remote'[u]
    BY <1>8 DEF Publish
  <2>2. \A u \in Url : 0..remote[u] \subseteq 0..remote'[u]
                       /\ 1..remote[u] \subseteq 1..remote'[u]
    BY <2>1
  <2>3. UNCHANGED <<cached, pc, call, content>>
    BY <1>8 DEF Publish
  <2> HIDE DEF TypeOK
  <2> QED
    BY <1>0, <2>2, <2>3 DEF CacheInv, HoldsVersion, WritesToEmpty, CacheIsWhole
<1>9. CASE UNCHANGED vars
  BY <1>9 DEF vars, CacheInv, HoldsVersion, WritesToEmpty, CacheIsWhole
<1> HIDE DEF TypeOK
<1> QED
  BY <1>1, <1>2, <1>3, <1>5, <1>6, <1>7, <1>8, <1>9 DEF Next, Run

LEMMA InitCache == Init => CacheInv
<1> SUFFICES ASSUME Init PROVE CacheInv
  OBVIOUS
<1>1. \A p \in Process : pc[p] = "idle"
  BY DEF Init
<1>2. \A u \in Url : cached[u] \in 0..remote[u]
  BY ConstantsAssumption DEF Init, Version, Missing, Absent
<1> QED
  BY <1>1, <1>2 DEF CacheInv, HoldsVersion, Holding, WritesToEmpty, CacheIsWhole

LEMMA AlwaysCache == Spec /\ []Apart /\ WritesEnd => []CacheInv
<1> DEFINE Ends == \A p \in Process : pc[p] = "write_cached" => pc'[p] # "killed"
<1>1. TypeOK /\ CacheInv /\ Apart /\ Apart' /\ [Next]_vars /\ [Ends]_vars => CacheInv'
  <2> SUFFICES ASSUME TypeOK, CacheInv, Apart, Apart', [Next]_vars, [Ends]_vars
               PROVE  CacheInv'
    OBVIOUS
  <2>1. CASE Ends
    BY <2>1, NextCache
  <2>2. CASE UNCHANGED vars
    BY <2>2 DEF vars, CacheInv, HoldsVersion, WritesToEmpty, CacheIsWhole
  <2> QED
    BY <2>1, <2>2
<1>2. WritesEnd <=> [][Ends]_vars
  BY DEF WritesEnd
<1> HIDE DEF Ends
<1> QED
  BY <1>1, <1>2, InitCache, TypeCorrect, PTL DEF Spec

\* However many scripts share the cache, and wherever else they are killed: the files in
\* it are whole as long as no two calls for one URL overlap and no script is killed while
\* it writes to the cache.  There is no other way to spoil it.
THEOREM WholeCacheWhileApart == Spec /\ []Apart /\ WritesEnd => []CacheIsWhole
<1>1. CacheInv => CacheIsWhole
  BY DEF CacheInv
<1> QED
  BY <1>1, AlwaysCache, PTL

\* Then every call returns one whole version that the server held, too.
THEOREM WholeContentWhileApart == Spec /\ []Apart /\ WritesEnd => []ReturnsFetchedContent
<1>1. CacheInv => ReturnsFetchedContent
  BY DEF CacheInv, HoldsVersion, Holding, ReturnsFetchedContent
<1> QED
  BY <1>1, AlwaysCache, PTL

\* A script that has the cache for itself and is never killed keeps both conditions.
LEMMA AloneIsApart == Alone => (Spec => []Apart /\ WritesEnd)
<1> SUFFICES ASSUME Alone PROVE Spec => []Apart /\ WritesEnd
  OBVIOUS
<1> DEFINE Ends == \A p \in Process : pc[p] = "write_cached" => pc'[p] # "killed"
<1>1. Apart
  BY DEF Alone, Apart
<1>2. TypeOK /\ [Next]_vars => [Ends]_vars
  <2> SUFFICES ASSUME TypeOK, Next, NEW p \in Process, pc[p] = "write_cached"
               PROVE  pc'[p] # "killed"
    OBVIOUS
  <2>1. Process = {p} /\ ~ MayBeKilled
    BY DEF Alone
  <2> QED
    BY <2>1
    DEF Next, Run, Get, Busy, ReadCached, Fetched, Throttled, NotFetched, Request, OpenCached,
        WriteCached, OpenSaved, WriteSaved, Killed, Publish, Go, TypeOK
<1>3. WritesEnd <=> [][Ends]_vars
  BY DEF WritesEnd
<1> HIDE DEF Ends
<1> QED
  BY <1>1, <1>2, <1>3, TypeCorrect, PTL DEF Spec

\* Such a script leaves only whole files in the cache, whatever requests fail.
THEOREM WholeCache == Alone => (Spec => []CacheIsWhole)
BY AloneIsApart, WholeCacheWhileApart, PTL

\* Such a script gets one whole version of what it asks for, from the cache or
\* from the server.
THEOREM WholeContent == Alone => (Spec => []ReturnsFetchedContent)
BY AloneIsApart, WholeContentWhileApart, PTL

--------------------------------------------------------------------------------
\* Every step of a process that is alone saves what it returns.
LEMMA NextSave ==
  ASSUME TypeOK, SaveInv, Alone, [Next]_vars
  PROVE  SaveInv'
<1> PICK p : Process = {p}
  BY DEF Alone
<1> USE DEF TypeOK, SaveInv, SavedIsReturned, Go, requestVars
<1>1. ASSUME NEW url \in Url, NEW force \in BOOLEAN, NEW save \in {FALSE, MaySave},
             Get(p, url, force, save)
      PROVE  SaveInv'
  <2>1. pc'[p] \in {"request", "read"}
    BY <1>1 DEF Get
  <2> QED
    BY <2>1
<1>2. CASE ReadCached(p)
  BY <1>2 DEF ReadCached
<1>3. CASE Fetched(p) \/ Throttled(p) \/ NotFetched(p)
  <2>1. pc'[p] \in {"request", "open_cached", "raised"}
    BY <1>3 DEF Fetched, Throttled, NotFetched, Request
  <2> QED
    BY <2>1
<1>4. CASE OpenCached(p) \/ WriteCached(p)
  BY <1>4 DEF OpenCached, WriteCached
<1>5. CASE OpenSaved(p)
  BY <1>5 DEF OpenSaved
<1>6. CASE WriteSaved(p)
  BY <1>6 DEF WriteSaved, Written
<1>7. ASSUME NEW url \in Url, Publish(url)
      PROVE  SaveInv'
  BY <1>7 DEF Publish
<1>8. CASE UNCHANGED vars
  BY <1>8 DEF vars
<1>9. ~ Killed(p)
  BY DEF Killed, Alone
<1> HIDE DEF TypeOK, SaveInv
<1> QED
  BY <1>1, <1>2, <1>3, <1>4, <1>5, <1>6, <1>7, <1>8, <1>9 DEF Next, Run

\* What fetch_and_save of such a script leaves in the destination is what it
\* returned.
THEOREM SavedContent == Alone => (Spec => []SavedIsReturned)
<1> SUFFICES ASSUME Alone PROVE Spec => []SavedIsReturned
  OBVIOUS
<1>1. Init => SaveInv
  BY DEF Init, SaveInv, SavedIsReturned
<1>2. TypeOK /\ SaveInv /\ [Next]_vars => SaveInv'
  BY NextSave
<1>3. SaveInv => SavedIsReturned
  BY DEF SaveInv
<1> QED
  BY <1>1, <1>2, <1>3, TypeCorrect, PTL DEF Spec
================================================================================
