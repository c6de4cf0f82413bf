----------------------------- MODULE RateLimit -----------------------------
(***************************************************************************)
(* RateLimitMiddleware (app/interfaces/api/middleware/rate_limit.py): a    *)
(* fixed window per client address, kept in the memory of one process.     *)
(* dispatch() does not await between reading and writing its entry, so a   *)
(* request is one step.  The middleware is on; when it is off it does      *)
(* nothing.                                                                *)
(*                                                                         *)
(* Time is a number of ticks, Second ticks to the second, so that requests *)
(* arrive at fractions of a second, while Retry-After is in whole seconds. *)
(***************************************************************************)
EXTENDS Naturals, FiniteSets

CONSTANTS
    Client,     \* client addresses
    Limit,      \* Settings.rate_limit_requests_per_minute
    Window,     \* the window, in seconds
    Second,     \* ticks per second
    MaxTime,    \* bound: the last tick
    MaxRequests \* bound: requests of one client

ASSUME LimiterAssumption ==
    /\ Limit \in Nat
    /\ Window \in Nat \ {0}
    /\ Second \in Nat \ {0}
    /\ MaxTime \in Nat
    /\ MaxRequests \in Nat

VARIABLES
    now,        \* time.monotonic()
    counts,     \* the middleware's _counts
    admitted,   \* history: per client, the requests let through, <<number, tick>>
    sent,       \* history: per client, the number of requests
    comeBack,   \* history: per client, when the last 429 told it to come back
    patient     \* history: per client, the 429s in a row to requests that waited

limiterVars == <<now, counts, admitted, sent, comeBack, patient>>

-----------------------------------------------------------------------------
\* defaultdict: an address never seen has (0, 0.0).  The clock's origin is the
\* start of the machine, so the first request may come in the "window" at 0.
LimiterInit ==
    /\ now \in {0, Second, Window * Second}
    /\ counts = [c \in Client |-> [count |-> 0, start |-> 0]]
    /\ admitted = [c \in Client |-> {}]
    /\ sent = [c \in Client |-> 0]
    /\ comeBack = [c \in Client |-> 0]
    /\ patient = [c \in Client |-> 0]

\* Mutant: an elapsed window clears the count and keeps its start.
CountedWithoutStart(entry) ==
    IF now - entry.start >= Window * Second THEN [count |-> 1, start |-> entry.start]
    ELSE [entry EXCEPT !.count = @ + 1]

\* The entry after a request: a new window starts when the old one is over,
\* and refused requests count too.
Counted(entry) ==
    IF now - entry.start >= Window * Second THEN [count |-> 1, start |-> now]
    ELSE [entry EXCEPT !.count = @ + 1]

\* Mutant: without the floor of one second.
RetryAfterUnfloored(entry) == (Window * Second - (now - entry.start)) \div Second

\* max(1, int(window - (now - window_start))), in seconds
RetryAfter(entry) ==
    LET seconds == (Window * Second - (now - entry.start)) \div Second
    IN  IF seconds > 1 THEN seconds ELSE 1

Dispatch(c) ==
    LET entry == Counted(counts[c])
        refused == entry.count > Limit
    IN  /\ sent[c] < MaxRequests
        /\ sent' = [sent EXCEPT ![c] = @ + 1]
        /\ counts' = [counts EXCEPT ![c] = entry]
        /\ admitted' = IF refused THEN admitted
                       ELSE [admitted EXCEPT ![c] = @ \union {<<sent[c], now>>}]
        /\ comeBack' = [comeBack EXCEPT ![c] =
                          IF refused THEN now + RetryAfter(entry) * Second ELSE 0]
        /\ patient' = [patient EXCEPT ![c] =
                          IF ~refused THEN 0 ELSE IF now >= comeBack[c] THEN @ + 1 ELSE 1]
        /\ UNCHANGED now

Elapse == /\ now < MaxTime
          /\ now' = now + 1
          /\ UNCHANGED <<counts, admitted, sent, comeBack, patient>>

LimiterNext == Elapse \/ \E c \in Client : Dispatch(c)

LimiterSpec == LimiterInit /\ [][LimiterNext]_limiterVars

-----------------------------------------------------------------------------
\* rate_limit.py limits what it says it limits up to the factor two of fixed
\* windows: in any stretch of time as long as the window, across a window's
\* end too, a client gets at most twice Limit requests through.
AtMostTwiceTheLimit ==
    \A c \in Client : \A first \in admitted[c] :
        Cardinality({r \in admitted[c] : /\ r[2] >= first[2]
                                         /\ r[2] < first[2] + Window * Second}) <= 2 * Limit

\* A client that waits as long as Retry-After says is refused at most once
\* more: int() cuts the fraction of a second, so the first wait may end
\* before the window does, and the floor of one second makes the next long
\* enough.
PatienceIsRewarded ==
    Limit > 0 => \A c \in Client : patient[c] <= 2
=============================================================================
