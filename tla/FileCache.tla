------------------------------- MODULE FileCache -------------------------------
(***************************************************************************)
(* etc/scripts/utils_thirdparty.py: Cache.get, the fetching with retries   *)
(* behind it and fetch_and_save.  The cache is a directory that outlives   *)
(* the scripts: a file is a hit as soon as it exists.                      *)
(*                                                                         *)
(* Process is a script, started again after it ends or is killed.  What a  *)
(* server holds at a URL is a version number, or 0 for nothing; it changes *)
(* at any time.  A file holds one version, or is empty, or holds a part or *)
(* a mix of versions.  URLs that differ only by slashes at their ends have *)
(* the same file in the cache, and stand for one another here.             *)
(***************************************************************************)
EXTENDS Integers

CONSTANTS
  Process, Url,
  MaxVersion,     \* bound: how often the content of a URL changes
  LastDelay,      \* no retry after a delay as long as this: 20
  MayBeKilled,    \* whether a process may end at any point
  MaySave         \* whether processes call fetch_and_save or only Cache.get

ASSUME ConstantsAssumption ==
  /\ MaxVersion \in Nat
  /\ LastDelay \in Nat
  /\ MayBeKilled \in BOOLEAN
  /\ MaySave \in BOOLEAN

VARIABLES
  remote,      \* of each URL: the version its server holds
  cached,      \* of each URL: the state of its file in the cache directory
  saved,       \* of each URL: the state of its file in the destination
  pc,          \* of each process: where it is in the call below
  call,        \* of each process: its url, force, and save for fetch_and_save
  delay,       \* of each process: _delay of its request
  requests,    \* of each process: the requests of its call so far
  slept,       \* of each process: the seconds its call has slept so far
  throttled,   \* of each process: whether the last answer was a 429
  content,     \* of each process: what it holds, and returns in the end
  oldest       \* of each process: the version its server had at the call

vars == <<remote, cached, saved, pc, call, delay, requests, slept, throttled,
          content, oldest>>
requestVars == <<delay, requests, slept, throttled>>

Version == 1..MaxVersion
Absent == 0
Empty == -1
Broken == -2     \* a part of a version, or a mix of two
File == Version \cup {Absent, Empty, Broken}
Missing == 0

Init ==
  /\ remote \in [Url -> Version \cup {Missing}]
  /\ cached = [u \in Url |-> Absent]
  /\ saved = [u \in Url |-> Absent]
  /\ pc = [p \in Process |-> "idle"]
  /\ call \in [Process -> [url : Url, force : {FALSE}, save : {FALSE}]]
  /\ delay = [p \in Process |-> 0]
  /\ requests = [p \in Process |-> 0]
  /\ slept = [p \in Process |-> 0]
  /\ throttled = [p \in Process |-> FALSE]
  /\ content = [p \in Process |-> Absent]
  /\ oldest = [p \in Process |-> 0]

Busy(p) == pc[p] \notin {"idle", "returned", "raised", "killed"}
Go(p, step) == pc' = [pc EXCEPT ![p] = step]

--------------------------------------------------------------------------------
\* Mutant: the file is opened for writing before the content is fetched.
OpenThenFetch(p, url, force, save) ==
  /\ ~ Busy(p)
  /\ call' = [call EXCEPT ![p] = [url |-> url, force |-> force, save |-> save]]
  /\ IF force \/ cached[url] = Absent
     THEN Go(p, "request") /\ cached' = [cached EXCEPT ![url] = Empty]
     ELSE Go(p, "read") /\ UNCHANGED cached
  /\ delay' = [delay EXCEPT ![p] = 0]
  /\ requests' = [requests EXCEPT ![p] = 0]
  /\ slept' = [slept EXCEPT ![p] = 0]
  /\ throttled' = [throttled EXCEPT ![p] = FALSE]
  /\ content' = [content EXCEPT ![p] = Absent]
  /\ oldest' = [oldest EXCEPT ![p] = remote[url]]
  /\ UNCHANGED <<remote, saved>>

\* Mutant: force is ignored.
IsMissWithoutForce(url, force) == cached[url] = Absent

\* A hit is a file that exists, unless the caller wants no hit.
IsMiss(url, force) == force \/ cached[url] = Absent

\* Cache.get, up to the decision between a hit and a miss.
Get(p, url, force, save) ==
  /\ ~ Busy(p)
  /\ call' = [call EXCEPT ![p] = [url |-> url, force |-> force, save |-> save]]
  /\ Go(p, IF IsMiss(url, force) THEN "request" ELSE "read")
  /\ delay' = [delay EXCEPT ![p] = 0]
  /\ requests' = [requests EXCEPT ![p] = 0]
  /\ slept' = [slept EXCEPT ![p] = 0]
  /\ throttled' = [throttled EXCEPT ![p] = FALSE]
  /\ content' = [content EXCEPT ![p] = Absent]
  /\ oldest' = [oldest EXCEPT ![p] = remote[url]]
  /\ UNCHANGED <<remote, cached, saved>>

\* Mutant: what the cache held is returned and not saved.
ReadAndReturn(p) ==
  /\ pc[p] = "read"
  /\ content' = [content EXCEPT ![p] = cached[call[p].url]]
  /\ Go(p, "returned")
  /\ UNCHANGED <<remote, cached, saved, call, requestVars, oldest>>

\* get_local_file_content of the file in the cache.
ReadCached(p) ==
  /\ pc[p] = "read"
  /\ content' = [content EXCEPT ![p] = cached[call[p].url]]
  /\ Go(p, IF call[p].save THEN "open_saved" ELSE "returned")
  /\ UNCHANGED <<remote, cached, saved, call, requestVars, oldest>>

\* Mutants of (_delay * 2) or 1: the delay starts over, or is off by one.
RestartedDelay(d) == IF d = 0 THEN 1 ELSE 0
NegativeDelay(d) == d * 2 - 1

NextDelay(d) == IF d = 0 THEN 1 ELSE d * 2

\* Mutant: the next delay is tested in place of the last one.
RetriesLess(d) == NextDelay(d) < LastDelay

\* Whether a throttled request is made again.
Retries(d) == d < LastDelay

\* Bounds: the counts of a call are exact below them and stay at them, which is
\* beyond what BacksOff allows.
MaxRequests == 8
MaxSlept == 64
UpTo(bound, n) == IF n < bound THEN n ELSE bound

\* get_remote_file_content: sleep, then a request, whatever its answer.  A local
\* path is read by one request as well, that no one throttles; a path of another
\* kind is NotFetched.
Request(p) ==
  /\ pc[p] = "request"
  /\ slept' = [slept EXCEPT ![p] = UpTo(MaxSlept, @ + delay[p])]
  /\ requests' = [requests EXCEPT ![p] = UpTo(MaxRequests, @ + 1)]

Fetched(p) ==
  /\ Request(p)
  /\ remote[call[p].url] # Missing
  /\ content' = [content EXCEPT ![p] = remote[call[p].url]]
  /\ throttled' = [throttled EXCEPT ![p] = FALSE]
  /\ Go(p, "open_cached")
  /\ UNCHANGED <<remote, cached, saved, call, delay, oldest>>

\* Status 429, Too Many Requests.
Throttled(p) ==
  /\ Request(p)
  /\ throttled' = [throttled EXCEPT ![p] = TRUE]
  /\ IF Retries(delay[p])
     THEN delay' = [delay EXCEPT ![p] = NextDelay(@)] /\ UNCHANGED pc
     ELSE Go(p, "raised") /\ UNCHANGED delay
  /\ UNCHANGED <<remote, cached, saved, call, content, oldest>>

\* Any other status, or no answer.
NotFetched(p) ==
  /\ Request(p)
  /\ throttled' = [throttled EXCEPT ![p] = FALSE]
  /\ Go(p, "raised")
  /\ UNCHANGED <<remote, cached, saved, call, delay, content, oldest>>

--------------------------------------------------------------------------------
\* What a file holds after a write of new, begun when it was opened: another
\* process may have written a longer version in between.
Written(old, new) == IF old \in {Empty, new} THEN {new} ELSE {new, Broken}

\* open(cached, "w") empties the file, the write and the close fill it.
OpenCached(p) ==
  /\ pc[p] = "open_cached"
  /\ cached' = [cached EXCEPT ![call[p].url] = Empty]
  /\ Go(p, "write_cached")
  /\ UNCHANGED <<remote, saved, call, requestVars, content, oldest>>

WriteCached(p) ==
  /\ pc[p] = "write_cached"
  /\ \E file \in Written(cached[call[p].url], content[p]) :
       cached' = [cached EXCEPT ![call[p].url] = file]
  /\ Go(p, IF call[p].save THEN "open_saved" ELSE "returned")
  /\ UNCHANGED <<remote, saved, call, requestVars, content, oldest>>

\* fetch_and_save writes the content once more, to the destination.
OpenSaved(p) ==
  /\ pc[p] = "open_saved"
  /\ saved' = [saved EXCEPT ![call[p].url] = Empty]
  /\ Go(p, "write_saved")
  /\ UNCHANGED <<remote, cached, call, requestVars, content, oldest>>

WriteSaved(p) ==
  /\ pc[p] = "write_saved"
  /\ \E file \in Written(saved[call[p].url], content[p]) :
       saved' = [saved EXCEPT ![call[p].url] = file]
  /\ Go(p, "returned")
  /\ UNCHANGED <<remote, cached, call, requestVars, content, oldest>>

\* The process is killed, or a write fails: a file it was writing stays as it
\* is, or with a part of the content.
Killed(p) ==
  /\ MayBeKilled
  /\ Busy(p)
  /\ Go(p, "killed")
  /\ \/ UNCHANGED <<cached, saved>>
     \/ /\ pc[p] = "write_cached"
        /\ cached' = [cached EXCEPT ![call[p].url] = Broken]
        /\ UNCHANGED saved
     \/ /\ pc[p] = "write_saved"
        /\ saved' = [saved EXCEPT ![call[p].url] = Broken]
        /\ UNCHANGED cached
  /\ UNCHANGED <<remote, call, requestVars, content, oldest>>

\* Something new is published at a URL.
Publish(url) ==
  /\ remote[url] < MaxVersion
  /\ remote' = [remote EXCEPT ![url] = @ + 1]
  /\ UNCHANGED <<cached, saved, pc, call, requestVars, content, oldest>>

--------------------------------------------------------------------------------
Run(p) ==
  \/ ReadCached(p)
  \/ Fetched(p) \/ Throttled(p) \/ NotFetched(p)
  \/ OpenCached(p) \/ WriteCached(p)
  \/ OpenSaved(p) \/ WriteSaved(p)

Next ==
  \/ \E p \in Process :
       \/ \E url \in Url, force \in BOOLEAN, save \in {FALSE, MaySave} :
            Get(p, url, force, save)
       \/ Run(p)
       \/ Killed(p)
  \/ \E url \in Url : Publish(url)

Spec == Init /\ [][Next]_vars

\* A call runs on; every request has some answer.
FairSpec == Spec /\ \A p \in Process : WF_vars(Run(p))

--------------------------------------------------------------------------------
TypeOK ==
  /\ remote \in [Url -> Version \cup {Missing}]
  /\ cached \in [Url -> File]
  /\ saved \in [Url -> File]
  /\ pc \in [Process -> {"idle", "request", "read", "open_cached", "write_cached",
                         "open_saved", "write_saved", "returned", "raised",
                         "killed"}]
  /\ call \in [Process -> [url : Url, force : BOOLEAN, save : BOOLEAN]]
  /\ delay \in [Process -> Nat]
  /\ requests \in [Process -> Nat]
  /\ slept \in [Process -> Nat]
  /\ throttled \in [Process -> BOOLEAN]
  /\ content \in [Process -> File]
  /\ oldest \in [Process -> Version \cup {Missing}]

\* "Return the content fetched from a path_or_url through the cache"
\* (utils_thirdparty.py:1833): a call returns one whole version, that the
\* server held at some time.
ReturnsFetchedContent ==
  \A p \in Process : pc[p] = "returned" => content[p] \in 1..remote[call[p].url]

\* With force, not older than what the server held when the call was made.
ForcedIsFresh ==
  \A p \in Process : pc[p] = "returned" /\ call[p].force => content[p] >= oldest[p]

\* A call that fails to fetch has not harmed what the cache holds: a file that
\* no process is writing is whole, whatever failed before.
CacheIsWhole ==
  \A u \in Url : (\A p \in Process : ~ (pc[p] = "write_cached" /\ call[p].url = u))
    => cached[u] \in 0..remote[u]

\* What fetch_and_save leaves in the destination is what it returned.
SavedIsReturned ==
  \A p \in Process : pc[p] = "returned" /\ call[p].save =>
    saved[call[p].url] = content[p]

\* "Retries multiple times to fetch if there is a HTTP 429 throttling response
\* and this with an increasing delay" (utils_thirdparty.py:1908): a call gives
\* up on a throttled request only after seven of them and 63 seconds of sleep,
\* and makes no more requests than that.
BacksOff ==
  \A p \in Process :
    /\ requests[p] <= 7 /\ slept[p] <= 63
    /\ pc[p] = "raised" /\ throttled[p] => requests[p] = 7 /\ slept[p] = 63

\* A call ends.
CallsEnd == \A p \in Process : Busy(p) ~> ~ Busy(p)
================================================================================
