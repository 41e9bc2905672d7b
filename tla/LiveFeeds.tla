------------------------------ MODULE LiveFeeds ------------------------------
(***************************************************************************)
(* The requests that use the weather: GET /weather/current, the live risk  *)
(* engine (after its baseline, which a thread of the executor computes),   *)
(* the OSINT leads (app/services/osint.py) and the regional watch          *)
(* (app/services/regional_watch.py) with its own cache in the process.     *)
(***************************************************************************)
EXTENDS Weather, Sequences, FiniteSetsExt

CONSTANTS Readers,      \* the callers that also read the weather itself
          LeadAreas,    \* the areas that leads of the feeds may be about, as sequences
          Screening,    \* DEFAULT_SCREENING_POINTS, a sequence
          WatchTtl      \* _CACHE_TTL_SECONDS

ASSUME FeedsAssumption ==
    /\ Screening \in Seq(Points) /\ Screening # <<>> /\ WatchTtl \in Nat \ {0}
    /\ Readers \subseteq Callers /\ LeadAreas \subseteq Seq(Points)

VARIABLES
    job,     \* [Callers -> the request of the task]
    watch    \* _cache: stamp is its age, WatchTtl for one that is stale or not there;
             \* oldest the age of the oldest observation behind its events

feedVars == <<weatherVars, job, watch>>

\* places is what is left to ask for; stamp the time since a scan began; oldest the
\* age of the oldest observation it has kept, or the stamp.
NoJob == [kind |-> "none", places |-> <<>>, stamp |-> 0, oldest |-> 0]
NoWatch == [stamp |-> WatchTtl, oldest |-> 0]

FeedsInit ==
    /\ WeatherInit
    /\ job = [c \in Callers |-> NoJob]
    /\ watch = NoWatch

\* _classify_severity, for the larger of the forecast and six times the hourly rain.
ClassifySeverity(rain) ==
    CASE rain >= 120 -> "EMERGENCY"
      [] rain >= 65 /\ rain < 120 -> "WARNING"
      [] rain >= 35 /\ rain < 65 -> "WATCH"
      [] rain < 35 -> "NONE"

\* Task c asks for the weather at the first of its places.
Ask(c, places) ==
    \E asked \in Asked(Head(places)) :
        /\ call' = [call EXCEPT ![c] = asked]
        /\ loop' = IF asked.pc = "served" THEN c ELSE Free

Begins(c, callers) == c \in callers /\ loop = Free /\ job[c].kind = "none" /\ UNCHANGED entry

\* get_current_weather.
CurrentWeather(c) ==
    /\ Begins(c, Readers)
    /\ \E p \in Points : /\ job' = [job EXCEPT ![c].kind = "reading", ![c].places = <<p>>]
                         /\ Ask(c, <<p>>)
    /\ UNCHANGED watch

\* A request that awaits something else before it asks.
Waits(c, places) ==
    /\ Begins(c, Readers)
    /\ job' = [job EXCEPT ![c].kind = "reading", ![c].places = places]
    /\ call' = [call EXCEPT ![c].pc = "waiting"]
    /\ UNCHANGED <<loop, watch>>

\* assess awaits its baseline, then asks for the weather at its point.
Assess(c) == \E p \in Points : Waits(c, <<p>>)

\* scan_osint awaits the feeds; it asks for each area its leads are grouped by, and
\* has no leads if the feeds fail.
ScanOsint(c) == \E areas \in LeadAreas : Waits(c, areas)

Continue(c) ==
    /\ loop = Free /\ call[c].pc = "waiting"
    /\ IF job[c].places = <<>>
       THEN /\ job' = [job EXCEPT ![c] = NoJob]
            /\ call' = [call EXCEPT ![c] = Idle]
            /\ UNCHANGED loop
       ELSE Ask(c, job[c].places) /\ UNCHANGED job
    /\ UNCHANGED <<entry, watch>>

Fresh == watch.stamp < WatchTtl

\* scan_regional_hazards: a scan, unless its cache is fresh and the client does not
\* force one.  The regional impact filters what this returns (filter_by_impact).
ScanRegionalHazards(c) ==
    /\ Begins(c, Callers)
    /\ job' = [job EXCEPT ![c].kind = "scan", ![c].places = Screening]
    /\ Ask(c, Screening)
    /\ UNCHANGED watch

\* Mutation: the result of a scan is stamped when it is complete.
StampOfEnd(c) == 0

StampOf(c) == job[c].stamp

\* The age of the oldest observation with this response: the scan keeps the severe ones.
Oldest(c) == LET got == call[c].got
             IN  IF ClassifySeverity(got.rain) = "NONE" THEN job[c].oldest ELSE Max({job[c].oldest, got.seen})

\* The cache of the scan: what is too old is never read again.
WatchOf(stamp, oldest) == IF stamp < WatchTtl THEN [stamp |-> stamp, oldest |-> oldest] ELSE NoWatch

\* The task has a response: it asks for the next place, or it answers.  A scan
\* replaces the cache, whatever another scan has stored since it began.
Proceed(c) ==
    /\ loop = c /\ call[c].pc = "served"
    /\ LET rest == Tail(job[c].places)
           oldest == IF job[c].kind = "scan" THEN Oldest(c) ELSE 0
       IN  IF rest # <<>>
           THEN /\ job' = [job EXCEPT ![c].places = rest, ![c].oldest = oldest]
                /\ Ask(c, rest)
                /\ UNCHANGED watch
           ELSE /\ watch' = IF job[c].kind = "scan" THEN WatchOf(StampOf(c), oldest) ELSE watch
                /\ job' = [job EXCEPT ![c] = NoJob]
                /\ call' = [call EXCEPT ![c] = Idle]
                /\ loop' = Free
    /\ UNCHANGED entry

\* A minute passes; the ages are those of the scans too.
JobAged(j) == IF j.kind = "scan" THEN [j EXCEPT !.stamp = @ + 1, !.oldest = @ + 1] ELSE j

Tick ==
    /\ Minute
    /\ job' = [c \in Callers |-> JobAged(job[c])]
    /\ watch' = WatchOf(watch.stamp + 1, watch.oldest + 1)

Work(c) ==
    \/ Continue(c) \/ Proceed(c)
    \/ (Attempt(c) \/ Resume(c)) /\ UNCHANGED <<job, watch>>

FeedsNext ==
    \/ \E c \in Callers : \/ CurrentWeather(c) \/ Assess(c) \/ ScanOsint(c) \/ ScanRegionalHazards(c)
                          \/ Work(c)
    \/ Tick

\* The loop and the executor go on with what has begun; nobody has to ask.  The
\* ready tasks of the loop wait in a queue, first in first out, so that a task is
\* not passed over for ever although it cannot run while another one does: strong
\* fairness.
FeedsSpec == FeedsInit /\ [][FeedsNext]_feedVars /\ \A c \in Callers : SF_feedVars(Work(c))

----------------------------------------------------------------------------
\* What comes out of the cache was observed at most a life of an entry and a fetch
\* ago, even if a slow fetch replaced a newer entry (service.py:36-45).
CachedIsRecent ==
    \A c \in Callers : call[c].got.status = "CACHED" => call[c].got.seen < WeatherTtl + MaxFetch

\* The age shown to the user is never below the real one (cache.py:48-59).
AgeIsNotUnderstated ==
    \A c \in Callers : call[c].got.status = "CACHED" => call[c].got.fetched >= call[c].got.seen

\* However the two caches are stacked, and however scans overlap, an event of the
\* watch rests on an observation of bounded age (regional_watch.py:92-134).
WatchIsRecent == Fresh => watch.oldest <= (WatchTtl - 1) + (WeatherTtl - 1) + MaxFetch

\* Neither a request nor the watch is answered from an observation that is older than
\* the caches allow.
ObservationsAreRecent == CachedIsRecent /\ WatchIsRecent

\* Every request is answered, so that a caller has none again and again, though the
\* provider may fail for ever (provider.py:223-230).
EveryRequestIsAnswered == \A c \in Callers : []<>(job[c].kind = "none")
=============================================================================
