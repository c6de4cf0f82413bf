-------------------------- MODULE RateLimitProofs --------------------------
(***************************************************************************)
(* Proofs about RateLimit, for any limit, window and number of clients.    *)
(*                                                                         *)
(* The middleware remembers one window and a count.  What it has admitted  *)
(* is therefore counted in two parts: since the start of the window, where *)
(* the count bounds it, and in the stretch just before that start, which   *)
(* lay wholly in the window before.  Every stretch as long as a window     *)
(* that a new admission falls into is covered by the two.                  *)
(***************************************************************************)
EXTENDS RateLimit, FiniteSetTheorems, TLAPS

\* The window in ticks.
Span == Window * Second

Entry == [count: Nat, start: Nat]

\* What a client got through in the stretch of one window from tick f, since
\* its window started, and in the stretch of one window before that.
Stretch(c, f) == {r \in admitted[c] : r[2] >= f /\ r[2] < f + Span}
Current(c) == {r \in admitted[c] : r[2] >= counts[c].start}
Previous(c) == {r \in admitted[c] : /\ r[2] < counts[c].start
                                    /\ r[2] + Span >= counts[c].start}

LimiterTyped ==
    /\ now \in Nat
    /\ counts \in [Client -> Entry]
    /\ admitted \in [Client -> SUBSET (Nat \X Nat)]
    /\ sent \in [Client -> Nat]
    /\ comeBack \in [Client -> Nat]
    /\ patient \in [Client -> Nat]

\* Windows start in the past, and nothing was admitted after the end of the
\* latest.
WindowsBehind == \A c \in Client :
    /\ counts[c].start <= now
    /\ \A r \in admitted[c] : r[2] < counts[c].start + Span
    /\ IsFiniteSet(admitted[c])

CurrentCounted == \A c \in Client :
    Cardinality(Current(c)) <= counts[c].count /\ Cardinality(Current(c)) <= Limit

PreviousBounded == \A c \in Client : Cardinality(Previous(c)) <= Limit

StretchBounded == \A c \in Client : \A f \in Nat : Cardinality(Stretch(c, f)) <= 2 * Limit

\* After one 429 the client comes back less than a second before the window
\* ends, after a second in a row when it has ended.
ReturnsLate == Limit > 0 => \A c \in Client :
    /\ patient[c] <= 2
    /\ patient[c] >= 1 => comeBack[c] + Second > counts[c].start + Span
    /\ patient[c] = 2 => comeBack[c] >= counts[c].start + Span

LimiterInductive == /\ LimiterTyped /\ WindowsBehind /\ CurrentCounted
                    /\ PreviousBounded /\ StretchBounded /\ ReturnsLate
-----------------------------------------------------------------------------
(***************************************************************************)
(* Arithmetic.                                                             *)
(***************************************************************************)

\* The window is a positive number of ticks.
LEMMA SpanIsPositive == Span \in Nat /\ Span > 0 /\ Second \in Nat /\ Second > 0
BY LimiterAssumption DEF Span

\* int() cuts less than one second.
LEMMA CutSeconds ==
    ASSUME NEW rest \in Nat
    PROVE  /\ rest \div Second \in Nat
           /\ (rest \div Second) * Second <= rest
           /\ rest < (rest \div Second) * Second + Second
<1>1. Second \in Nat /\ Second > 0
  BY SpanIsPositive
<1>2. rest \div Second \in Int /\ rest % Second \in 0..(Second - 1)
  BY <1>1
<1>3. rest = Second * (rest \div Second) + (rest % Second)
  BY <1>1
<1>4. rest \div Second >= 0
  BY <1>1
<1> DEFINE q == rest \div Second
<1>5. Second * q = q * Second
  BY <1>1, <1>2
<1> QED BY <1>1, <1>2, <1>3, <1>4, <1>5

\* Retry-After of a refused request reaches past the last second of the
\* window, and past its end when the request came in that second.
LEMMA RetryAfterReaches ==
    ASSUME NEW entry \in Entry, now \in Nat, entry.start <= now, now < entry.start + Span
    PROVE  /\ RetryAfter(entry) * Second \in Nat
           /\ now + RetryAfter(entry) * Second + Second > entry.start + Span
           /\ now + Second > entry.start + Span =>
                now + RetryAfter(entry) * Second >= entry.start + Span
<1> DEFINE rest == Span - (now - entry.start)
           seconds == rest \div Second
<1>1. Second \in Nat /\ Second > 0 /\ Span \in Nat /\ entry.start \in Nat
  BY SpanIsPositive DEF Entry
<1>2. rest \in Nat /\ rest + now = Span + entry.start
  BY <1>1
<1>3. RetryAfter(entry) = IF seconds > 1 THEN seconds ELSE 1
  BY DEF RetryAfter, Span
<1> HIDE DEF rest
<1>4. seconds \in Nat /\ seconds * Second <= rest /\ rest < seconds * Second + Second
  BY <1>2, CutSeconds
<1> HIDE DEF seconds
<1>5. CASE seconds > 1
  <2> DEFINE wait == seconds * Second
  <2>1. wait \in Nat /\ RetryAfter(entry) * Second = wait /\ wait >= Second
    BY <1>1, <1>3, <1>4, <1>5
  <2>2. wait <= rest /\ rest < wait + Second
    BY <1>4
  <2> HIDE DEF wait
  <2>3. now + wait + Second > entry.start + Span
    BY <1>1, <1>2, <2>1, <2>2
  <2>4. now + Second > entry.start + Span => now + wait >= entry.start + Span
    BY <1>1, <1>2, <2>1, <2>2
  <2> QED BY <2>1, <2>3, <2>4
<1>6. CASE ~(seconds > 1)
  <2>1. RetryAfter(entry) * Second = Second /\ rest < Second + Second
    <3>1. seconds * Second <= Second
      BY <1>1, <1>4, <1>6
    <3>2. seconds * Second \in Nat
      BY <1>1, <1>4
    <3> QED BY <1>1, <1>2, <1>3, <1>4, <1>6, <3>1, <3>2
  <2> QED BY <1>1, <1>2, <2>1
<1> QED BY <1>5, <1>6
-----------------------------------------------------------------------------
(***************************************************************************)
(* Counting.                                                               *)
(***************************************************************************)

\* A part of a finite set has no more elements than the set, ...
LEMMA PartIsSmaller ==
    ASSUME NEW S, IsFiniteSet(S), NEW T, T \subseteq S
    PROVE  /\ IsFiniteSet(T) /\ Cardinality(T) \in Nat /\ Cardinality(S) \in Nat
           /\ Cardinality(T) <= Cardinality(S)
BY FS_Subset, FS_CardinalityType

\* ... one more element adds at most one, ...
LEMMA OneMore ==
    ASSUME NEW S, IsFiniteSet(S), NEW x, NEW T, T \subseteq S \cup {x}
    PROVE  /\ IsFiniteSet(T) /\ Cardinality(T) \in Nat /\ Cardinality(S) \in Nat
           /\ Cardinality(T) <= Cardinality(S) + 1
<1>0. Cardinality(S) \in Nat
  BY FS_CardinalityType
<1>1. /\ IsFiniteSet(S \cup {x})
      /\ Cardinality(S \cup {x}) = IF x \in S THEN Cardinality(S) ELSE Cardinality(S) + 1
  BY FS_AddElement
<1>2. /\ IsFiniteSet(T) /\ Cardinality(T) \in Nat /\ Cardinality(S \cup {x}) \in Nat
      /\ Cardinality(T) <= Cardinality(S \cup {x})
  BY <1>1, PartIsSmaller
<1> QED BY <1>0, <1>1, <1>2

\* ... and two sets together have at most as many as one and the other.
LEMMA TwoTogether ==
    ASSUME NEW S, NEW T, IsFiniteSet(S), IsFiniteSet(T), NEW U, U \subseteq S \cup T
    PROVE  Cardinality(U) \in Nat /\ Cardinality(U) <= Cardinality(S) + Cardinality(T)
<1>1. /\ IsFiniteSet(S \cup T) /\ IsFiniteSet(S \cap T)
      /\ Cardinality(S \cup T) = Cardinality(S) + Cardinality(T) - Cardinality(S \cap T)
  BY FS_Union, FS_Intersection
<1>2. /\ Cardinality(S) \in Nat /\ Cardinality(T) \in Nat /\ Cardinality(S \cap T) \in Nat
      /\ Cardinality(S \cup T) \in Nat
  BY <1>1, FS_CardinalityType
<1>3. Cardinality(U) \in Nat /\ Cardinality(U) <= Cardinality(S \cup T)
  BY <1>1, PartIsSmaller
<1> QED BY <1>1, <1>2, <1>3
-----------------------------------------------------------------------------
(***************************************************************************)
(* Steps.                                                                  *)
(***************************************************************************)

\* What dispatch() makes of the client's entry: a window that now lies in.
LEMMA CountedEntry ==
    ASSUME now \in Nat, NEW entry \in Entry, entry.start <= now
    PROVE  /\ Counted(entry) \in Entry
           /\ Counted(entry).start <= now /\ now < Counted(entry).start + Span
           /\ \/ /\ entry.start + Span <= now
                 /\ Counted(entry).count = 1 /\ Counted(entry).start = now
              \/ /\ now < entry.start + Span
                 /\ Counted(entry).count = entry.count + 1
                 /\ Counted(entry).start = entry.start
<1>1. entry.start \in Nat /\ entry.count \in Nat /\ Span \in Nat /\ Span > 0
  BY SpanIsPositive DEF Entry
<1>2. CASE now - entry.start >= Span
  <2>1. Counted(entry) = [count |-> 1, start |-> now]
    BY <1>2 DEF Counted, Span
  <2> QED BY <1>1, <1>2, <2>1 DEF Entry
<1>3. CASE ~(now - entry.start >= Span)
  <2>1. Counted(entry) = [entry EXCEPT !.count = @ + 1]
    BY <1>3 DEF Counted, Span
  <2>2. Counted(entry) = [count |-> entry.count + 1, start |-> entry.start]
    BY <2>1 DEF Entry
  <2> QED BY <1>1, <1>3, <2>2 DEF Entry
<1> QED BY <1>2, <1>3

\* Other clients' entries and histories are not touched by a request.
LEMMA OthersUntouched ==
    ASSUME LimiterTyped, NEW c \in Client, Dispatch(c)
    PROVE  \A d \in Client \ {c} :
             /\ counts'[d] = counts[d] /\ admitted'[d] = admitted[d]
             /\ comeBack'[d] = comeBack[d] /\ patient'[d] = patient[d]
BY DEF LimiterTyped, Dispatch

\* What a request does to its own client.
LEMMA OwnRequest ==
    ASSUME LimiterTyped, NEW c \in Client, Dispatch(c)
    PROVE  /\ now' = now /\ counts'[c] = Counted(counts[c])
           /\ \/ /\ Counted(counts[c]).count <= Limit
                 /\ admitted'[c] = admitted[c] \cup {<<sent[c], now>>}
                 /\ comeBack'[c] = 0 /\ patient'[c] = 0
              \/ /\ Counted(counts[c]).count > Limit
                 /\ admitted'[c] = admitted[c]
                 /\ comeBack'[c] = now + RetryAfter(Counted(counts[c])) * Second
                 /\ patient'[c] = IF now >= comeBack[c] THEN patient[c] + 1 ELSE 1
<1> DEFINE entry == Counted(counts[c])
<1>1. /\ now' = now
      /\ counts' = [counts EXCEPT ![c] = entry]
      /\ admitted' = IF entry.count > Limit THEN admitted
                     ELSE [admitted EXCEPT ![c] = @ \union {<<sent[c], now>>}]
      /\ comeBack' = [comeBack EXCEPT ![c] =
                        IF entry.count > Limit THEN now + RetryAfter(entry) * Second ELSE 0]
      /\ patient' = [patient EXCEPT ![c] =
                        IF ~(entry.count > Limit) THEN 0 ELSE IF now >= comeBack[c] THEN @ + 1 ELSE 1]
  BY DEF Dispatch
<1>2. counts'[c] = entry
  BY <1>1 DEF LimiterTyped
<1>3. counts[c] \in Entry /\ now \in Nat
  BY DEF LimiterTyped
<1>4. entry.count \in Nat
  BY <1>3 DEF Counted, Entry
<1> HIDE DEF entry
<1>5. CASE entry.count > Limit
  BY <1>1, <1>2, <1>5 DEF LimiterTyped, entry
<1>6. CASE ~(entry.count > Limit)
  <2>1. entry.count <= Limit
    BY <1>4, <1>6, LimiterAssumption
  <2>2. admitted'[c] = admitted[c] \cup {<<sent[c], now>>} /\ comeBack'[c] = 0 /\ patient'[c] = 0
    BY <1>1, <1>6 DEF LimiterTyped
  <2> QED BY <1>1, <1>2, <2>1, <2>2 DEF entry
<1> QED BY <1>5, <1>6

\* A request keeps the types.
LEMMA DispatchTyped ==
    ASSUME LimiterTyped, WindowsBehind, NEW c \in Client, Dispatch(c)
    PROVE  LimiterTyped'
<1> DEFINE entry == Counted(counts[c])
<1>1. counts[c] \in Entry /\ now \in Nat /\ counts[c].start <= now
  BY DEF LimiterTyped, WindowsBehind
<1>2. entry \in Entry /\ entry.start <= now /\ now < entry.start + Span
  BY <1>1, CountedEntry
<1>3. counts' \in [Client -> Entry] /\ now' = now
  BY <1>2 DEF LimiterTyped, Dispatch
<1>4. sent' \in [Client -> Nat]
  BY DEF LimiterTyped, Dispatch
<1>5. admitted' \in [Client -> SUBSET (Nat \X Nat)]
  <2>1. <<sent[c], now>> \in Nat \X Nat
    BY DEF LimiterTyped
  <2> HIDE DEF entry
  <2> QED BY <2>1 DEF LimiterTyped, Dispatch
<1>6. comeBack' \in [Client -> Nat]
  <2>1. RetryAfter(entry) * Second \in Nat
    BY <1>1, <1>2, RetryAfterReaches
  <2>2. now + RetryAfter(entry) * Second \in Nat
    BY <1>1, <2>1
  <2>3. comeBack' = [comeBack EXCEPT ![c] =
                       IF entry.count > Limit THEN now + RetryAfter(entry) * Second ELSE 0]
    BY DEF Dispatch
  <2> HIDE DEF entry
  <2> QED BY <2>2, <2>3 DEF LimiterTyped
<1>7. patient' \in [Client -> Nat]
  BY DEF LimiterTyped, Dispatch
<1> QED BY <1>1, <1>3, <1>4, <1>5, <1>6, <1>7 DEF LimiterTyped

\* A request leaves the counted windows bounded: in its own window the count
\* bounds what was admitted; a new window has the old one before it.
LEMMA DispatchCounts ==
    ASSUME LimiterInductive, NEW c \in Client, Dispatch(c)
    PROVE  /\ WindowsBehind' /\ CurrentCounted' /\ PreviousBounded' /\ StretchBounded'
<1>1. LimiterTyped /\ WindowsBehind /\ CurrentCounted /\ PreviousBounded /\ StretchBounded
  BY DEF LimiterInductive
<1> DEFINE s == counts[c].start
           t == counts'[c].start
           A == admitted[c]
           B == admitted'[c]
           cur == Current(c)
           prev == Previous(c)
           new == <<sent[c], now>>
<1>2. /\ now \in Nat /\ now' = now /\ s \in Nat /\ t \in Nat /\ Span \in Nat /\ Span > 0
      /\ Limit \in Nat /\ counts[c].count \in Nat
  BY <1>1, DispatchTyped, SpanIsPositive, LimiterAssumption, OwnRequest DEF LimiterTyped, Entry
<1>3. /\ t <= now /\ now < t + Span
      /\ \/ s + Span <= now /\ counts'[c].count = 1 /\ t = now
         \/ now < s + Span /\ counts'[c].count = counts[c].count + 1 /\ t = s
  BY <1>1, CountedEntry, OwnRequest DEF WindowsBehind, LimiterTyped
<1>4. \/ counts'[c].count <= Limit /\ B = A \cup {new}
      \/ counts'[c].count > Limit /\ B = A
  BY <1>1, OwnRequest
<1>5. /\ new[2] = now /\ \A r \in A : r[2] \in Nat /\ r[2] < s + Span
      /\ IsFiniteSet(A)
  BY <1>1 DEF LimiterTyped, WindowsBehind
<1>6. IsFiniteSet(B) /\ B \subseteq A \cup {new}
  BY <1>4, <1>5, FS_AddElement
<1>7. \A r \in B : r[2] \in Nat /\ r[2] < t + Span /\ r[2] <= t + Span
  <2> HIDE DEF new, A, B, s, t
  <2> QED BY <1>2, <1>3, <1>5, <1>6
<1> DEFINE cur2 == {r \in B : r[2] >= t}
           prev2 == {r \in B : r[2] < t /\ r[2] + Span >= t}
<1>8. /\ cur = {r \in A : r[2] >= s} /\ prev = {r \in A : r[2] < s /\ r[2] + Span >= s}
      /\ cur \subseteq A /\ prev \subseteq A
      /\ Cardinality(cur) <= counts[c].count /\ Cardinality(cur) <= Limit
      /\ Cardinality(prev) <= Limit
  BY <1>1 DEF Current, Previous, CurrentCounted, PreviousBounded
<1>9. /\ IsFiniteSet(cur) /\ Cardinality(cur) \in Nat /\ IsFiniteSet(prev)
      /\ Cardinality(prev) \in Nat
  BY <1>5, <1>8, PartIsSmaller
<1> HIDE DEF cur, prev, new, A, B, s, t
<1>10. /\ IsFiniteSet(cur2) /\ Cardinality(cur2) \in Nat
       /\ Cardinality(cur2) <= counts'[c].count /\ Cardinality(cur2) <= Limit
  <2>1. CASE now < s + Span /\ counts'[c].count = counts[c].count + 1 /\ t = s
    <3>1. CASE B = A /\ counts'[c].count > Limit
      <4>1. cur2 = cur
        BY <1>8, <2>1, <3>1
      <4> QED BY <1>2, <1>8, <1>9, <2>1, <4>1
    <3>2. CASE B = A \cup {new} /\ counts'[c].count <= Limit
      <4>1. cur2 \subseteq cur \cup {new}
        BY <1>8, <2>1, <3>2
      <4>2. IsFiniteSet(cur2) /\ Cardinality(cur2) \in Nat /\ Cardinality(cur2) <= Cardinality(cur) + 1
        <5> HIDE DEF cur2
        <5> QED BY <1>9, <4>1, OneMore
      <4> QED BY <1>2, <1>8, <1>9, <2>1, <3>2, <4>2
    <3> QED BY <1>4, <3>1, <3>2
  <2>2. CASE s + Span <= now /\ counts'[c].count = 1 /\ t = now
    <3>1. cur2 \subseteq B \cap {new}
      BY <1>2, <1>5, <1>6, <2>2
    <3>2. CASE B = A
      <4>1. cur2 = {}
        BY <1>2, <1>5, <2>2, <3>2
      <4>2. IsFiniteSet({}) /\ Cardinality({}) = 0
        BY FS_EmptySet
      <4> HIDE DEF cur2
      <4> QED BY <1>2, <2>2, <4>1, <4>2
    <3>3. CASE counts'[c].count <= Limit
      <4>1. cur2 \subseteq {} \cup {new}
        BY <3>1
      <4>2. IsFiniteSet({}) /\ Cardinality({}) = 0
        BY FS_EmptySet
      <4>3. IsFiniteSet(cur2) /\ Cardinality(cur2) \in Nat /\ Cardinality(cur2) <= 0 + 1
        <5> HIDE DEF cur2
        <5> QED BY <4>1, <4>2, OneMore
      <4> QED BY <1>2, <2>2, <3>3, <4>3
    <3> QED BY <1>4, <3>2, <3>3
  <2> QED BY <1>3, <2>1, <2>2
<1>11. IsFiniteSet(prev2) /\ Cardinality(prev2) \in Nat /\ Cardinality(prev2) <= Limit
  <2>1. CASE now < s + Span /\ t = s
    <3>1. prev2 \subseteq prev
      BY <1>2, <1>5, <1>6, <1>8, <2>1, <1>3
    <3> HIDE DEF prev2
    <3> QED BY <1>2, <1>8, <1>9, <3>1, PartIsSmaller
  <2>2. CASE s + Span <= now /\ t = now
    <3>1. prev2 \subseteq cur
      BY <1>2, <1>5, <1>6, <1>8, <2>2
    <3> HIDE DEF prev2
    <3> QED BY <1>2, <1>8, <1>9, <3>1, PartIsSmaller
  <2> QED BY <1>3, <2>1, <2>2
<1>12. ASSUME NEW f \in Nat
       PROVE  Cardinality({r \in B : r[2] >= f /\ r[2] < f + Span}) <= 2 * Limit
  <2> DEFINE stretch == {r \in A : r[2] >= f /\ r[2] < f + Span}
             stretch2 == {r \in B : r[2] >= f /\ r[2] < f + Span}
  <2>1. CASE f <= now /\ now < f + Span
    <3>1. stretch2 \subseteq prev2 \cup cur2
      BY <1>2, <1>3, <1>7, <2>1
    <3>2. Cardinality(stretch2) \in Nat /\ Cardinality(stretch2) <= Cardinality(prev2) + Cardinality(cur2)
      <4> HIDE DEF stretch2, prev2, cur2
      <4> QED BY <1>10, <1>11, <3>1, TwoTogether
    <3> HIDE DEF stretch2, prev2, cur2
    <3> QED BY <1>2, <1>10, <1>11, <3>2 DEF stretch2
  <2>2. CASE ~(f <= now /\ now < f + Span)
    <3>1. stretch2 = stretch
      BY <1>2, <1>4, <1>5, <2>2
    <3>2. Cardinality(stretch) <= 2 * Limit
      BY <1>1 DEF StretchBounded, Stretch, A
    <3> QED BY <3>1, <3>2
  <2> QED BY <2>1, <2>2
<1>13. \A d \in Client \ {c} : counts'[d] = counts[d] /\ admitted'[d] = admitted[d]
  BY <1>1, OthersUntouched
<1>14. WindowsBehind'
  BY <1>1, <1>2, <1>3, <1>6, <1>7, <1>13 DEF WindowsBehind, B, t
<1>15. CurrentCounted'
  <2>1. Current(c)' = cur2
    BY DEF Current, B, t
  <2>2. \A d \in Client \ {c} : Current(d)' = Current(d)
    BY <1>13 DEF Current
  <2> HIDE DEF cur2
  <2> QED BY <1>1, <1>10, <1>13, <2>1, <2>2 DEF CurrentCounted
<1>16. PreviousBounded'
  <2>1. Previous(c)' = prev2
    BY DEF Previous, B, t
  <2>2. \A d \in Client \ {c} : Previous(d)' = Previous(d)
    BY <1>13 DEF Previous
  <2> HIDE DEF prev2
  <2> QED BY <1>1, <1>11, <2>1, <2>2 DEF PreviousBounded
<1>17. StretchBounded'
  BY <1>1, <1>12, <1>13 DEF StretchBounded, Stretch, B
<1> QED BY <1>14, <1>15, <1>16, <1>17

\* A request leaves the client's next attempt late enough.
LEMMA DispatchReturns ==
    ASSUME LimiterInductive, NEW c \in Client, Dispatch(c), Limit > 0
    PROVE  \A d \in Client :
             /\ patient'[d] <= 2
             /\ patient'[d] >= 1 => comeBack'[d] + Second > counts'[d].start + Span
             /\ patient'[d] = 2 => comeBack'[d] >= counts'[d].start + Span
<1>1. LimiterTyped /\ WindowsBehind
  BY DEF LimiterInductive
<1>2. \A d \in Client :
        /\ patient[d] <= 2
        /\ patient[d] >= 1 => comeBack[d] + Second > counts[d].start + Span
        /\ patient[d] = 2 => comeBack[d] >= counts[d].start + Span
  BY DEF LimiterInductive, ReturnsLate
<1> DEFINE entry == Counted(counts[c])
<1>3. /\ now \in Nat /\ Span \in Nat /\ Second \in Nat /\ Limit \in Nat
      /\ counts[c] \in Entry /\ counts[c].start \in Nat
      /\ counts[c].start <= now /\ comeBack[c] \in Nat /\ patient[c] \in Nat
  BY <1>1, SpanIsPositive, LimiterAssumption DEF LimiterTyped, WindowsBehind, Entry
<1>4. /\ entry \in Entry /\ entry.start <= now /\ now < entry.start + Span
      /\ \/ entry.count = 1
         \/ entry.start = counts[c].start
  BY <1>3, CountedEntry
<1>5. /\ RetryAfter(entry) * Second \in Nat
      /\ now + RetryAfter(entry) * Second + Second > entry.start + Span
      /\ now + Second > entry.start + Span =>
           now + RetryAfter(entry) * Second >= entry.start + Span
  BY <1>3, <1>4, RetryAfterReaches
<1>6. /\ counts'[c] = entry
      /\ \/ comeBack'[c] = 0 /\ patient'[c] = 0
         \/ /\ entry.count > Limit
            /\ comeBack'[c] = now + RetryAfter(entry) * Second
            /\ patient'[c] = IF now >= comeBack[c] THEN patient[c] + 1 ELSE 1
  BY <1>1, OwnRequest
<1> DEFINE wait == RetryAfter(entry) * Second
<1> HIDE DEF entry, wait
<1>7. CASE comeBack'[c] = 0 /\ patient'[c] = 0
  BY <1>1, <1>2, <1>7, OthersUntouched
<1>8. CASE /\ entry.count > Limit
           /\ comeBack'[c] = now + wait
           /\ patient'[c] = IF now >= comeBack[c] THEN patient[c] + 1 ELSE 1
  <2>1. entry.start = counts[c].start /\ entry.start \in Nat
    BY <1>3, <1>4, <1>8
  <2>2. /\ wait \in Nat /\ now + wait + Second > entry.start + Span
        /\ now + Second > entry.start + Span => now + wait >= entry.start + Span
    BY <1>5 DEF wait
  <2>3. patient[c] # 2 \/ now < comeBack[c]
    BY <1>2, <1>3, <1>4, <2>1
  <2>4. patient[c] = 1 /\ now >= comeBack[c] => now + Second > entry.start + Span
    BY <1>2, <1>3, <2>1
  <2>5. patient[c] <= 2
    BY <1>2
  <2>6. patient'[c] \in 1..2 /\ (patient'[c] = 2 => patient[c] = 1 /\ now >= comeBack[c])
    BY <1>3, <1>8, <2>3, <2>5
  <2>7. /\ comeBack'[c] + Second > counts'[c].start + Span
        /\ patient'[c] = 2 => comeBack'[c] >= counts'[c].start + Span
    BY <1>6, <1>8, <2>2, <2>4, <2>6
  <2> QED BY <1>1, <1>2, <2>6, <2>7, OthersUntouched
<1> QED BY <1>6, <1>7, <1>8 DEF wait

\* Before the first request nothing was admitted or refused.
LEMMA LimiterInitInductive == LimiterInit => LimiterInductive
<1> SUFFICES ASSUME LimiterInit PROVE LimiterInductive
  OBVIOUS
<1>1. LimiterTyped
  <2>1. now \in Nat
    BY SpanIsPositive DEF LimiterInit, Span
  <2> QED BY <2>1 DEF LimiterInit, LimiterTyped, Entry
<1>2. \A c \in Client : admitted[c] = {} /\ counts[c].start = 0 /\ counts[c].count = 0 /\ patient[c] = 0
  BY DEF LimiterInit
<1>3. IsFiniteSet({}) /\ Cardinality({}) = 0
  BY FS_EmptySet
<1>4. WindowsBehind
  <2>1. \A c \in Client : counts[c].start <= now /\ \A r \in admitted[c] : r[2] < counts[c].start + Span
    BY <1>1, <1>2 DEF LimiterTyped
  <2>2. \A c \in Client : IsFiniteSet(admitted[c])
    BY <1>2, <1>3
  <2> QED BY <2>1, <2>2 DEF WindowsBehind
<1>5. \A c \in Client : Current(c) = {} /\ Previous(c) = {} /\ \A f \in Nat : Stretch(c, f) = {}
  BY <1>2 DEF Current, Previous, Stretch
<1>6. CurrentCounted /\ PreviousBounded /\ StretchBounded
  <2>1. Limit \in Nat /\ 0 <= Limit /\ 0 <= 2 * Limit
    BY LimiterAssumption
  <2>2. \A c \in Client : /\ Cardinality(Current(c)) = 0 /\ Cardinality(Previous(c)) = 0
                          /\ \A f \in Nat : Cardinality(Stretch(c, f)) = 0
    BY <1>3, <1>5, Zenon
  <2>3. \A c \in Client : counts[c].count = 0
    BY <1>2
  <2> QED BY <2>1, <2>2, <2>3 DEF CurrentCounted, PreviousBounded, StretchBounded
<1>7. ReturnsLate
  BY <1>2 DEF ReturnsLate
<1> QED BY <1>1, <1>4, <1>6, <1>7 DEF LimiterInductive

\* Requests and the passing of time keep the invariant.
LEMMA LimiterNextKeeps == LimiterInductive /\ [LimiterNext]_limiterVars => LimiterInductive'
<1> SUFFICES ASSUME LimiterInductive, [LimiterNext]_limiterVars PROVE LimiterInductive'
  OBVIOUS
<1>1. ASSUME NEW c \in Client, Dispatch(c) PROVE LimiterInductive'
  <2>1. LimiterTyped'
    BY <1>1, DispatchTyped DEF LimiterInductive
  <2>2. WindowsBehind' /\ CurrentCounted' /\ PreviousBounded' /\ StretchBounded'
    BY <1>1, DispatchCounts
  <2>3. ReturnsLate'
    BY <1>1, DispatchReturns DEF ReturnsLate
  <2> QED BY <2>1, <2>2, <2>3 DEF LimiterInductive
<1>2. ASSUME now' \in {now, now + 1}, UNCHANGED <<counts, admitted, sent, comeBack, patient>>
      PROVE  LimiterInductive'
  <2>1. LimiterTyped'
    BY <1>2 DEF LimiterInductive, LimiterTyped
  <2>2. WindowsBehind'
    <3>1. now \in Nat /\ \A c \in Client : counts[c].start \in Nat
      BY DEF LimiterInductive, LimiterTyped, Entry
    <3> QED BY <1>2, <3>1 DEF LimiterInductive, WindowsBehind
  <2>3. CurrentCounted' /\ PreviousBounded' /\ StretchBounded' /\ ReturnsLate'
    BY <1>2 DEF LimiterInductive, CurrentCounted, PreviousBounded, StretchBounded, ReturnsLate,
                Current, Previous, Stretch
  <2> QED BY <2>1, <2>2, <2>3 DEF LimiterInductive
<1> QED BY <1>1, <1>2 DEF LimiterNext, Elapse, limiterVars

\* The inductive invariant holds in every reachable state.
LEMMA LimiterInductiveAlways == LimiterSpec => []LimiterInductive
BY LimiterInitInductive, LimiterNextKeeps, PTL DEF LimiterSpec

\* A fixed window admits at most twice the limit in any stretch of time as
\* long as the window, for every limit, window and pattern of requests.
THEOREM FixedWindowBound == LimiterSpec => []AtMostTwiceTheLimit
<1>1. LimiterInductive => AtMostTwiceTheLimit
  <2> SUFFICES ASSUME LimiterInductive, NEW c \in Client, NEW first \in admitted[c]
               PROVE  Cardinality({r \in admitted[c] : /\ r[2] >= first[2]
                                                       /\ r[2] < first[2] + Window * Second})
                        <= 2 * Limit
    BY DEF AtMostTwiceTheLimit
  <2>1. first[2] \in Nat
    BY DEF LimiterInductive, LimiterTyped
  <2> QED BY <2>1 DEF LimiterInductive, StretchBounded, Stretch, Span
<1> QED BY <1>1, LimiterInductiveAlways, PTL

\* A client that obeys Retry-After is refused at most twice in a row: the
\* seconds that int() cuts off are made up for by the floor of one second.
THEOREM PatienceSuffices == LimiterSpec => []PatienceIsRewarded
<1>1. LimiterInductive => PatienceIsRewarded
  BY DEF LimiterInductive, ReturnsLate, PatienceIsRewarded
<1> QED BY <1>1, LimiterInductiveAlways, PTL
=============================================================================
