---------------------------- MODULE QueryClient ----------------------------
(***************************************************************************)
(* The query cache behind the dashboard: the part of @tanstack/react-query  *)
(* that the hooks of src/webui/src/lib/api.ts use, as it is shipped in the  *)
(* bundle under src/webui/out.  A query is the record the library keeps per *)
(* query key, with the retryer of its fetch; the operators are its steps.   *)
(*                                                                         *)
(* Time is left out: whether data is older than staleTime is a choice of    *)
(* whoever asks (see Dashboard), the retry delay is the phase "sleep".      *)
(***************************************************************************)
EXTENDS Integers

CONSTANTS
  NoData,  \* `undefined`
  RETRY    \* `retry` of the default options

\* A fetch waits for the network or the window to come back (held), has its request
\* on the way (sent), its reply on the way (answered), or waits to retry (sleep).
Phases == {"none", "held", "sent", "answered", "sleep"}

Query(Data) ==
  [data : Data, status : {"pending", "success", "error"}, invalid : BOOLEAN,
   phase : Phases, reply : Data, failures : 0..RETRY, noRetry : BOOLEAN,
   was : {"pending", "error"}]

NewQuery ==
  [data |-> NoData, status |-> "pending", invalid |-> FALSE, phase |-> "none",
   reply |-> NoData, failures |-> 0, noRetry |-> FALSE, was |-> "pending"]

fetchStatus(q) ==
  CASE q.phase = "none" -> "idle"
    [] q.phase = "held" -> "paused"
    [] OTHER -> "fetching"

isLoading(q) == q.status = "pending" /\ fetchStatus(q) = "fetching"
isError(q) == q.status = "error"

\* Stale whatever the time; data that is not may be too old.
isStale(q) == q.data = NoData \/ q.invalid

-----------------------------------------------------------------------------
\* The retryer

\* A new fetch.  Without data, an earlier error is forgotten for its duration.
Begin(q, online) ==
  [NewQuery EXCEPT
     !.data = q.data,
     !.status = IF q.data = NoData THEN "pending" ELSE q.status,
     !.invalid = q.invalid,
     !.phase = IF online THEN "sent" ELSE "held",
     !.was = IF q.status = "error" THEN "error" ELSE "pending"]

\* The reply arrived.
setData(q, d) == [NewQuery EXCEPT !.data = d, !.status = "success"]

\* The last attempt failed.  Data is kept; it counts as invalidated.
Rejected(q) ==
  [NewQuery EXCEPT !.data = q.data, !.status = "error", !.invalid = (q.data # NoData)]

Failed(q) ==
  IF q.noRetry \/ q.failures >= RETRY
  THEN Rejected(q)
  ELSE [q EXCEPT !.phase = "sleep", !.failures = @ + 1, !.reply = NoData]

\* Once more, unless the last observer has left before a retry.
Resume(q) ==
  IF q.failures > 0 /\ q.noRetry THEN Rejected(q) ELSE [q EXCEPT !.phase = "sent"]

\* The retry delay is over.
RetryOrPause(q, online, visible) ==
  IF online /\ visible THEN Resume(q) ELSE [q EXCEPT !.phase = "held"]

\* The network or the window is back.
continue(q, online, visible) ==
  IF q.phase = "held" /\ online /\ visible THEN Resume(q) ELSE q

-----------------------------------------------------------------------------
\* The query

\* A fetch in flight is joined, or cancelled for a new one if the caller asks for
\* that and there is data already.
Restarts(q, cancelRefetch) == q.phase # "none" /\ q.data # NoData /\ cancelRefetch

fetch(q, online, cancelRefetch) ==
  IF q.phase = "none" \/ Restarts(q, cancelRefetch)
  THEN Begin(q, online)
  ELSE [q EXCEPT !.noRetry = FALSE]

\* Without data the flag has no meaning.
invalidate(q) == [q EXCEPT !.invalid = (q.data # NoData)]

\* The last observer leaves: a first fetch that waits for the network is reverted,
\* any other goes on without retries.
removeObserver(q) ==
  CASE q.phase = "none" -> q
    [] q.phase = "held" /\ q.status = "pending" -> [NewQuery EXCEPT !.status = q.was]
    [] OTHER -> [q EXCEPT !.noRetry = TRUE]
=============================================================================
