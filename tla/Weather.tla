------------------------------- MODULE Weather -------------------------------
(***************************************************************************)
(* app/services/weather: get_weather with its cache in Redis and its       *)
(* provider.  get_weather runs in a task of the event loop up to the fetch, *)
(* which a thread of the executor does; only one task runs at a time       *)
(* (loop), and it runs until it awaits.  Redis may fail at every call.     *)
(* There is no clock: every moment the code stores or compares is the      *)
(* number of minutes since.                                                *)
(***************************************************************************)
EXTENDS Integers

CONSTANTS Callers,      \* tasks that ask for the weather
          Points,       \* coordinates, rounded to five decimals
          Rains,        \* what the provider may report, in mm
          WeatherTtl,   \* life of a cache entry
          MaxFetch,     \* the longest fetch, with all attempts
          Attempts,     \* weather_max_retries
          Free, NoPoint

ASSUME WeatherAssumption ==
    /\ WeatherTtl \in Nat \ {0} /\ MaxFetch \in Nat \ {0} /\ Attempts \in Nat \ {0}
    /\ Free \notin Callers /\ NoPoint \notin Points

VARIABLES
    entry,   \* [Points -> the entry of the cache; left is its life, 0 for none]
    call,    \* [Callers -> the call of get_weather the task is in]
    loop     \* the task that runs, or Free

weatherVars == <<entry, call, loop>>

\* fetched: since the fetch began, by fetched_at; seen: since the provider looked.
NoEntry == [rain |-> 0, fetched |-> 0, seen |-> 0, left |-> 0]
Nothing == [status |-> "NONE", rain |-> 0, fetched |-> 0, seen |-> 0]
Failed == [Nothing EXCEPT !.status = "FAILED"]
Observed(rain) == [Nothing EXCEPT !.status = "OK", !.rain = rain]
Idle == [pc |-> "idle", point |-> NoPoint, since |-> 0, tries |-> 0, got |-> Nothing]

WeatherInit ==
    /\ loop = Free
    /\ entry = [p \in Points |-> NoEntry]
    /\ call = [c \in Callers |-> Idle]

\* get_cached_weather: fetched is the age it shows, counted from fetched_at.
Hit(p) == [status |-> "CACHED", rain |-> entry[p].rain, fetched |-> entry[p].fetched, seen |-> entry[p].seen]

\* get_weather up to its first await: it has the response, or a thread fetches it.
Asked(p) ==
    LET fetching == [Idle EXCEPT !.pc = "fetching", !.point = p]
        served == [Idle EXCEPT !.pc = "served", !.point = p, !.got = Hit(p)]
    IN  IF entry[p].left > 0 THEN {fetching, served} ELSE {fetching}

\* Mutation: the attempts are not counted to their end.
TriedForEver(c) == (call[c].tries + 1) % Attempts
Tried(c) == call[c].tries + 1

\* _fetch_open_meteo_sync under the retry decorator, one attempt in the thread.
\* The fetch fails when the answer cannot be parsed (a provider error), and when the
\* last attempt fails: with a RetryError, a timeout too ("unavailable").
Attempt(c) ==
    /\ call[c].pc = "fetching"
    /\ LET fetched(got) == [call EXCEPT ![c] = [@ EXCEPT !.pc = "fetched", !.tries = 0, !.got = got]]
       IN  \/ \E rain \in Rains : call' = fetched(Observed(rain))
           \/ call' = fetched(Failed)
           \/ Tried(c) = Attempts /\ call' = fetched(Failed)
           \/ Tried(c) < Attempts /\ call' = [call EXCEPT ![c].tries = Tried(c)]
    /\ UNCHANGED <<entry, loop>>

Cacheable(response) == response.status = "OK"

\* Mutation: the entry is stamped when it is stored.
EntryStampedLate(response) ==
    [rain |-> response.rain, fetched |-> 0, seen |-> response.seen, left |-> WeatherTtl]

\* set_cached_weather.
EntryOf(response) ==
    [rain |-> response.rain, fetched |-> response.fetched, seen |-> response.seen, left |-> WeatherTtl]

\* get_weather after the fetch: the response is cached, unless Redis fails.
Resume(c) ==
    /\ loop = Free /\ call[c].pc = "fetched"
    /\ loop' = c
    /\ LET response == [call[c].got EXCEPT !.fetched = call[c].since]
       IN  /\ call' = [call EXCEPT ![c] = [Idle EXCEPT !.pc = "served", !.point = call[c].point, !.got = response]]
           /\ \/ Cacheable(response) /\ entry' = [entry EXCEPT ![call[c].point] = EntryOf(response)]
              \/ UNCHANGED entry

\* An entry a minute later.
Aged(e) == IF e.left <= 1 THEN NoEntry
           ELSE [e EXCEPT !.fetched = @ + 1, !.seen = @ + 1, !.left = @ - 1]

\* A call a minute later.
CallAged(k) ==
    CASE k.pc = "fetching" -> [k EXCEPT !.since = @ + 1]
      [] k.pc = "fetched" -> [k EXCEPT !.since = @ + 1, !.got.seen = IF k.got = Failed THEN 0 ELSE @ + 1]
      [] OTHER -> k

\* A minute passes: no task runs that long without an await, and no fetch takes
\* longer than the timeouts of its attempts and the waits between them.
Minute ==
    /\ loop = Free
    /\ \A c \in Callers : call[c].since < MaxFetch
    /\ entry' = [p \in Points |-> Aged(entry[p])]
    /\ call' = [c \in Callers |-> CallAged(call[c])]
    /\ UNCHANGED loop
=============================================================================
