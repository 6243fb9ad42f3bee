------------------------------ MODULE PageStats ------------------------------
(* The counts of blocked requests: in total, and by hour, day and month in  *)
(* histories of a fixed length that move on with the clock.  The clock      *)
(* counts half hours, say: a period of every unit is a number of ticks, and *)
(* a change may fall anywhere in it.  The categories of a count are left    *)
(* out, and stored data follows memory (a save is issued at each change).   *)
EXTENDS Naturals, Sequences, FiniteSets

CONSTANTS
    Units,            \* hours, days, months
    Span,             \* the ticks in a period of a unit
    Window,           \* MAX_HOURS_HISTORY, MAX_DAYS_HISTORY, MAX_MONTHS_HISTORY
    Untrimmed,        \* the units whose history an update does not trim: months
    Counters,         \* slots of handlers between the two counts
    MaxTime,          \* bound: ticks
    MaxBlocked        \* bound: requests blocked since the last reset

ASSUME PageStatsAssumption ==
    /\ Span \in [Units -> Nat \ {0}] /\ Window \in [Units -> Nat \ {0}]
    /\ Untrimmed \subseteq Units /\ MaxTime \in Nat /\ MaxBlocked \in Nat

VARIABLES
    clock,            \* Date.now()
    stats,            \* the histories and the time they were updated at
    totalBlocked,     \* the total shown in the popup and on the block page
    uncounted,        \* handlers that have updated the histories, not yet the total
    missed,           \* requests whose handler never counted them in the total
    blockedAt         \* when requests were blocked since the last reset, in order

statsVars == <<clock, stats, totalBlocked, uncounted, missed, blockedAt>>

SamePeriod(u, from, to) == from \div Span[u] = to \div Span[u]
\* differenceInHours and its like: whole periods between two times.
Whole(u, from, to) == (to - from) \div Span[u]

Zeros(n) == [i \in 1..n |-> 0]
Latest(h, n) == IF Len(h) > n THEN SubSeq(h, Len(h) - n + 1, Len(h)) ELSE h

CreateStats(t) == [updated |-> t, history |-> [u \in Units |-> Zeros(Window[u])]]
Stored == IF stats = {} THEN CreateStats(clock) ELSE CHOOSE s \in stats : TRUE

-----------------------------------------------------------------------------
\* Mutants of Padding.
OnePeriod(u, from, to) == 1
PeriodAhead(u, from, to) == Whole(u, from, to) + 1

\* Skipped periods get a zero each, and so does the one that has begun.
Padding(u, from, to) == IF Whole(u, from, to) < 2 THEN 1 ELSE Whole(u, from, to)

\* After a gap as long as the window, only zeros are left.
PadAndTrim(u, h, from, to) ==
    IF SamePeriod(u, from, to) THEN h
    ELSE Latest(h \o Zeros(Padding(u, from, to)), Window[u])

Normalize(s, t) ==
    IF \A u \in Units : SamePeriod(u, s.updated, t) THEN s
    ELSE [updated |-> t,
          history |-> [u \in Units |-> PadAndTrim(u, s.history[u], s.updated, t)]]

\* updateStatsData reads the clock again, and moves on what normalising left.
CountIn(u, h, from, to) ==
    IF SamePeriod(u, from, to) THEN [h EXCEPT ![Len(h)] = @ + 1]
    ELSE LET skipped == IF Whole(u, from, to) < 2 THEN 0 ELSE Whole(u, from, to) - 1
             grown == h \o Zeros(skipped) \o <<1>>
         IN  IF u \in Untrimmed THEN grown ELSE Latest(grown, Window[u])

UpdateStats(s, t) ==
    [updated |-> t,
     history |-> [u \in Units |-> CountIn(u, s.history[u], s.updated, t)]]

-----------------------------------------------------------------------------
StatsInit ==
    /\ clock = 0 /\ stats = {} /\ totalBlocked = 0
    /\ uncounted = {} /\ missed = 0 /\ blockedAt = <<>>

Tick ==
    /\ clock < MaxTime /\ clock' = clock + 1
    /\ UNCHANGED <<stats, totalBlocked, uncounted, missed, blockedAt>>

\* A request is blocked; a tick may pass between the two readings of the clock.
OnBasicRuleApply(c, late) ==
    /\ c \notin uncounted /\ Len(blockedAt) < MaxBlocked
    /\ clock + late <= MaxTime
    /\ clock' = clock + late
    /\ stats' = {UpdateStats(Normalize(Stored, clock), clock')}
    /\ uncounted' = uncounted \union {c}
    /\ blockedAt' = Append(blockedAt, clock')
    /\ UNCHANGED <<totalBlocked, missed>>

\* Its handler goes on when the histories are saved.
IncrementTotalBlocked(c) ==
    /\ c \in uncounted
    /\ uncounted' = uncounted \ {c} /\ totalBlocked' = totalBlocked + 1
    /\ UNCHANGED <<clock, stats, missed, blockedAt>>

\* The save fails, or the worker stops before it ends.
CountIsMissed(c) ==
    /\ c \in uncounted
    /\ uncounted' = uncounted \ {c} /\ missed' = missed + 1
    /\ UNCHANGED <<clock, stats, totalBlocked, blockedAt>>

\* The popup is opened.
GetStatisticsData ==
    /\ stats' = {Normalize(Stored, clock)}
    /\ UNCHANGED <<clock, totalBlocked, uncounted, missed, blockedAt>>

\* Mutant of Emptied: only the total is reset.
HistoriesStay == stats

Emptied == {}

ResetBlockedAdsCount ==
    /\ stats' = Emptied /\ totalBlocked' = 0 /\ missed' = 0 /\ blockedAt' = <<>>
    /\ UNCHANGED <<clock, uncounted>>

StatsNext ==
    \/ Tick
    \/ \E c \in Counters :
          \/ \E late \in {0, 1} : OnBasicRuleApply(c, late)
          \/ IncrementTotalBlocked(c)
          \/ CountIsMissed(c)
    \/ GetStatisticsData
    \/ ResetBlockedAdsCount

StatsSpec == StatsInit /\ [][StatsNext]_statsVars

-----------------------------------------------------------------------------
\* Types: histories are as long as their window, but for what is not trimmed.
StatsTypeOK ==
    /\ clock \in 0..MaxTime /\ totalBlocked \in Nat /\ missed \in Nat
    /\ uncounted \subseteq Counters
    /\ blockedAt \in Seq(0..MaxTime) /\ Len(blockedAt) <= MaxBlocked
    /\ \A s \in stats : \A u \in Units :
          /\ s.updated \in 0..clock /\ s.history[u] \in Seq(0..MaxBlocked)
          /\ Len(s.history[u]) >= Window[u]
          /\ u \notin Untrimmed => Len(s.history[u]) = Window[u]

\* A cell for each request that history h counts; what a history counts is the
\* number of its cells (the sum of its entries).
Cells(h) == UNION {{i} \X (1..h[i]) : i \in DOMAIN h}
Kept(s, u) == Cardinality(Cells(s.history[u]))
Age(s, u, i) == s.updated \div Span[u] - blockedAt[i] \div Span[u]

(* However updates and looks at the statistics fall on the clock, what was  *)
(* blocked within the window of a history is still counted in it: moving on *)
(* never drops a period too early.                                         *)
RecentIsKept ==
    \A s \in stats : \A u \in Units :
        Kept(s, u) >= Cardinality({i \in DOMAIN blockedAt : Age(s, u, i) < Window[u]})

(* "We store last 24 hours, 30 days and 12 months stats" (api page-stats.ts): *)
(* a history counts nothing that was blocked before its window.             *)
OnlyTheLast ==
    \A s \in stats : \A u \in Units :
        Kept(s, u) <= Cardinality({i \in DOMAIN blockedAt : Age(s, u, i) < Window[u]})

(* What does hold of a history that is trimmed: moving on by whole periods  *)
(* falls behind the calendar by less than a period at each change, so that  *)
(* a count is dropped before it is twice as old as the window allows.       *)
OldIsDropped ==
    \A s \in stats : \A u \in Units \ Untrimmed :
        Kept(s, u) <= Cardinality({i \in DOMAIN blockedAt : Age(s, u, i) <= 2 * (Window[u] - 1)})

(* The total is at least what any history counts, but for the requests      *)
(* whose second count is still to come or was lost: counts of handlers that *)
(* overlap, and a reset between the two counts, lose none.                 *)
TotalCoversHistories ==
    \A s \in stats : \A u \in Units :
        Kept(s, u) <= totalBlocked + Cardinality(uncounted) + missed
=============================================================================
