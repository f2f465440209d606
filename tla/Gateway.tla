------------------------------ MODULE Gateway ------------------------------
(***************************************************************************)
(* The public gateway of one agent (gateway_chat of src/server.rs) and its *)
(* rate limiter.  A request copies the agent's gateway settings under the  *)
(* read lock and comes back under the write lock to be counted; between    *)
(* the two the daemon may have replaced the agent's entry.  The bucket     *)
(* belongs to the name: it is made by the first request that needs it and  *)
(* outlives every entry.                                                   *)
(***************************************************************************)
EXTENDS Naturals, Sequences, FiniteSets

CONSTANTS
  Minute,       \* the length of the window in ticks of the clock
  Limits,       \* what rate_limit of the configuration may be
  MaxTime,      \* bound: the last tick
  MaxInFlight,  \* bound: requests between the two locks
  MaxRequests   \* bound: requests that are counted

ASSUME GatewayAssumption ==
  /\ Minute \in Nat \ {0}
  /\ Limits \subseteq Nat
  /\ {MaxTime, MaxInFlight, MaxRequests} \subseteq Nat

VARIABLES
  now,       \* Instant::now()
  entry,     \* the agent's ResolvedGatewayConfig, or NoEntry
  bucket,    \* the agent's RateLimitBucket, or NoBucket
  inflight,  \* per limit: requests that have copied it and wait for the write lock
  log        \* every request that was counted: [at, passed]; not in the code

gvars == <<now, entry, bucket, inflight, log>>

NoEntry == [enabled |-> FALSE]
NoBucket == [limit |-> 0, window |-> <<>>, made |-> FALSE]

Settings == {NoEntry} \cup [enabled : {TRUE}, key : BOOLEAN, limited : {FALSE}]
                      \cup [enabled : {TRUE}, key : BOOLEAN, limited : {TRUE}, limit : Limits]

GInit ==
  /\ now = Minute
  /\ entry \in Settings
  /\ bucket = NoBucket
  /\ inflight = [l \in Limits |-> 0]
  /\ log = <<>>

Unserved == {l \in Limits : inflight[l] > 0}

-----------------------------------------------------------------------------

Tick ==
  /\ now < MaxTime
  /\ now' = now + 1
  /\ UNCHANGED <<entry, bucket, inflight, log>>

\* The agent is restarted after an edit of its settings.
Replace ==
  /\ entry' \in Settings \ {entry}
  /\ UNCHANGED <<now, bucket, inflight, log>>

\* Not found, not enabled, a wrong or missing key and an unlimited gateway leave
\* the bucket alone; so only the requests that are to be counted are followed.
Arrive(key) ==
  /\ entry.enabled
  /\ entry.key => key = "right"
  /\ entry.limited
  /\ inflight[entry.limit] < MaxInFlight
  /\ inflight' = [inflight EXCEPT ![entry.limit] = @ + 1]
  /\ UNCHANGED <<now, entry, bucket, log>>

\* The bucket of the name; only the first request's limit goes into it.
Bucket(limit) ==
  IF bucket.made THEN bucket ELSE [limit |-> limit, window |-> <<>>, made |-> TRUE]

\* Faulty: a request that is a minute old has left the window.
OutdatedEarly(window) ==
  {n \in 0..Len(window) : \A k \in 1..n : window[k] <= now - Minute}

\* The lengths of those beginnings of the window that are over a minute old.
Outdated(window) ==
  {n \in 0..Len(window) : \A k \in 1..n : window[k] < now - Minute}

\* Entries are popped off the front as long as they are over a minute old.
Purged(window) ==
  LET gone == CHOOSE n \in Outdated(window) : \A m \in Outdated(window) : m <= n
  IN  SubSeq(window, gone + 1, Len(window))

\* check_and_record, under the write lock.
Count(limit) ==
  LET b == Bucket(limit)
      recent == Purged(b.window)
      passes == Len(recent) < b.limit
  IN  /\ inflight[limit] > 0
      /\ Len(log) < MaxRequests
      /\ inflight' = [inflight EXCEPT ![limit] = @ - 1]
      /\ bucket' = [b EXCEPT !.window = IF passes THEN Append(recent, now) ELSE recent]
      /\ log' = Append(log, [at |-> now, passed |-> passes])
      /\ UNCHANGED <<now, entry>>

GNext ==
  \/ Tick
  \/ Replace
  \/ \E key \in {"none", "wrong", "right"} : Arrive(key)
  \/ \E l \in Unserved : Count(l)

GSpec == GInit /\ [][GNext]_gvars

-----------------------------------------------------------------------------
(* Properties.                                                             *)

\* The requests that passed within the minute that ends with request i.
PassedBefore(i) ==
  {k \in 1..i - 1 : log[k].passed /\ log[k].at + Minute >= log[i].at}

\* A request passes exactly if fewer than the limit passed in the minute before
\* it: whatever is refused, purged, or counted late under another setting, the
\* window neither forgets a request nor holds one too long.
RateIsExact ==
  \A i \in DOMAIN log :
    log[i].passed <=> Cardinality(PassedBefore(i)) < bucket.limit

=============================================================================
