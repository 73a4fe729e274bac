---------------------------- MODULE PaperTrading ----------------------------
(***************************************************************************)
(* The paper trading loop and its calendar: PaperTradingLoop               *)
(* (orchestration/paper_trading_loop.py) and SessionManager                *)
(* (orchestration/session_manager.py), with the news pipeline the loop     *)
(* starts and stops.                                                       *)
(*                                                                         *)
(* The loop is one asyncio task.  It reads the clock anew for the phase,   *)
(* for the test before each review and for the mark after it, and the      *)
(* clock moves between these readings as far as it likes; the readings     *)
(* within one test are taken as one.  The kill switch, pulled from other   *)
(* threads, is taken from its abstract specification.  _fetch_data imports *)
(* a class that does not exist and therefore always answers None, so that  *)
(* the scan of a symbol ends at its first early return; the steps after it *)
(* are modelled in the components they call.  A stop() before run() has no *)
(* effect, since run() sets _running anew, and is not a step.  Counters    *)
(* and reports are left out.                                               *)
(***************************************************************************)
EXTENDS NewsPipeline, Sequences, KillSwitch

CONSTANTS
    Instants,    \* the times of day the clock shows, in half hours
    FinalDate,   \* bound on the number of days
    Fridays,     \* the days on which weekday() is 4
    UtcMidnight, \* when it is midnight in UTC: 19:00 in winter, 20:00 in summer
    NoDate       \* no review yet

ASSUME ClockAssumption ==
    /\ Instants \subseteq 0 .. 47 /\ Instants # {}
    /\ FinalDate \in Nat
    /\ Fridays \subseteq Nat
    /\ UtcMidnight \in {38, 40}
    /\ NoDate \notin Nat

VARIABLES
    date, time,     \* the clock in New York
    running,        \* _running
    pc,             \* where run() is
    phaseRead,      \* phase, read at the start of the tick
    lastDaily,      \* _last_daily_review
    lastWeekly,     \* _last_weekly_review
    reviewDay,      \* history: the day the review under way was asked for
    stopAsked,      \* history: stop() was called or the task cancelled
    reviews         \* history: the reviews that were completed, in order

clockvars == <<date, time>>
session == <<lastDaily, lastWeekly>>
history == <<reviewDay, stopAsked, reviews>>
ptvars == <<ksvars, npvars, clockvars, running, pc, phaseRead, session, history>>
-----------------------------------------------------------------------------
(* The session's phases.  Definitions named Faulty... are not the code: each   *)
(* is a plausible bug in the definition after it.                              *)

PremarketOpen == 8      \* NYSE_PREMARKET_OPEN, 4:00
Open == 19              \* NYSE_OPEN, 9:30
Close == 32             \* NYSE_CLOSE, 16:00
ReviewEnd == Close + 1  \* post_close_review_minutes = 30
AfterClose == 40        \* 20:00

PhaseAt(t) ==
    CASE t \in 0 .. PremarketOpen - 1     -> "CLOSED"
      [] t \in PremarketOpen .. Open - 1  -> "PREMARKET"
      [] t \in Open .. Close - 1          -> "REGULAR"
      [] t \in Close .. ReviewEnd - 1     -> "REVIEW"
      [] t \in ReviewEnd .. AfterClose - 1 -> "AFTERHOURS"
      [] OTHER                            -> "CLOSED"

CurrentPhase == PhaseAt(time)


ShouldRunDaily == CurrentPhase = "REVIEW" /\ lastDaily # date

\* The reviews are marked with the date in UTC and looked up by the date in
\* New York.
UtcDate == IF time >= UtcMidnight THEN date + 1 ELSE date

FaultyShouldRunWeekly ==
    /\ date \in Fridays
    /\ CurrentPhase = "REVIEW"
    /\ lastWeekly # date

ShouldRunWeekly ==
    /\ date \in Fridays
    /\ CurrentPhase = "REVIEW"
    /\ lastDaily = date
    /\ lastWeekly # date
-----------------------------------------------------------------------------
PTInit ==
    /\ KSInit /\ NPInit
    /\ date = 0 /\ time = Min(Instants)
    /\ running = FALSE /\ pc = "new" /\ phaseRead = "CLOSED"
    /\ lastDaily = NoDate /\ lastWeekly = NoDate
    /\ reviewDay = NoDate /\ stopAsked = FALSE /\ reviews = <<>>

\* run(): the transition to PAPER may be refused, which is ignored; the news
\* pipeline starts before the first tick.
Run ==
    /\ pc = "new"
    /\ running' = TRUE /\ pc' = "top"
    /\ tripped' = tripped
    /\ trading' \in (IF tripped THEN {trading} ELSE {trading, TRUE})
    /\ StartNews
    /\ UNCHANGED <<clockvars, phaseRead, session, history>>

\* In any mode of the settings but PAPER and RESEARCH run() returns at once.
RefuseRun ==
    /\ pc = "new"
    /\ pc' = "ended"
    /\ UNCHANGED <<ksvars, npvars, clockvars, running, phaseRead, session, history>>

\* The while condition, the emergency check and the reading of the phase.
BeginTick ==
    /\ pc = "top" /\ running
    /\ pc' = IF tripped THEN "sleep" ELSE "daily"
    /\ phaseRead' = IF tripped THEN phaseRead ELSE CurrentPhase
    /\ UNCHANGED <<ksvars, npvars, clockvars, running, session, history>>

\* if should_run_daily_review()
TestDaily ==
    /\ pc = "daily"
    /\ pc' = IF ShouldRunDaily THEN "dailyReview" ELSE "weekly"
    /\ reviewDay' = IF ShouldRunDaily THEN date ELSE reviewDay
    /\ UNCHANGED <<ksvars, npvars, clockvars, running, phaseRead, session,
                   stopAsked, reviews>>

\* A review that is completed, and the date it is marked with.
Reviewed(kind) == [kind |-> kind, date |-> reviewDay, marked |-> UtcDate]

\* The review has read the trades from the database; it is marked as done with
\* the time it is by now.
DailyReview ==
    /\ pc = "dailyReview"
    /\ reviews' = Append(reviews, Reviewed("daily"))
    /\ lastDaily' = UtcDate
    /\ pc' = "weekly"
    /\ UNCHANGED <<ksvars, npvars, clockvars, running, phaseRead, lastWeekly,
                   reviewDay, stopAsked>>

\* if should_run_weekly_review()
TestWeekly ==
    /\ pc = "weekly"
    /\ pc' = IF ShouldRunWeekly THEN "weeklyReview"
             ELSE IF phaseRead = "REGULAR" THEN "scan" ELSE "sleep"
    /\ reviewDay' = IF ShouldRunWeekly THEN date ELSE reviewDay
    /\ UNCHANGED <<ksvars, npvars, clockvars, running, phaseRead, session,
                   stopAsked, reviews>>

WeeklyReview ==
    /\ pc = "weeklyReview"
    /\ reviews' = Append(reviews, Reviewed("weekly"))
    /\ lastWeekly' = UtcDate
    /\ pc' = IF phaseRead = "REGULAR" THEN "scan" ELSE "sleep"
    /\ UNCHANGED <<ksvars, npvars, clockvars, running, phaseRead, lastDaily,
                   reviewDay, stopAsked>>

FaultyReviewRaises ==
    /\ pc \in {"dailyReview", "weeklyReview"}
    /\ pc' = "ended"
    /\ UNCHANGED <<ksvars, npvars, clockvars, running, phaseRead, session, history>>

\* The database is away: nothing in the tick catches the error.
ReviewRaises ==
    /\ pc \in {"dailyReview", "weeklyReview"}
    /\ pc' = "finally"
    /\ UNCHANGED <<ksvars, npvars, clockvars, running, phaseRead, session, history>>

\* Every symbol is looked up in a thread and has no data.
Scan ==
    /\ pc = "scan"
    /\ pc' = "sleep"
    /\ UNCHANGED <<ksvars, npvars, clockvars, running, phaseRead, session, history>>

Wake ==
    /\ pc = "sleep"
    /\ pc' = "top"
    /\ UNCHANGED <<ksvars, npvars, clockvars, running, phaseRead, session, history>>

LeaveLoop ==
    /\ pc = "top" /\ ~running
    /\ pc' = "finally"
    /\ UNCHANGED <<ksvars, npvars, clockvars, running, phaseRead, session, history>>

\* The finally clause.
Finish ==
    /\ pc = "finally"
    /\ StopNews
    /\ pc' = "ended"
    /\ UNCHANGED <<ksvars, clockvars, running, phaseRead, session, history>>

\* stop(), from the signal handler: a request, honoured at the next while.
Stop ==
    /\ pc \notin {"new", "ended"} /\ running
    /\ running' = FALSE /\ stopAsked' = TRUE
    /\ UNCHANGED <<ksvars, npvars, clockvars, pc, phaseRead, session, reviewDay, reviews>>

\* Cancellation arrives at an await: the fetch of a scan or the sleep.
Cancel ==
    /\ pc \in {"scan", "sleep"}
    /\ pc' = "finally" /\ stopAsked' = TRUE
    /\ UNCHANGED <<ksvars, npvars, clockvars, running, phaseRead, session, reviewDay,
                   reviews>>

Loop ==
    \/ BeginTick \/ TestDaily \/ DailyReview \/ TestWeekly \/ WeeklyReview
    \/ ReviewRaises \/ Scan \/ Wake \/ LeaveLoop \/ Finish

Later == {t \in Instants : t > time}

\* The clock moves on to the next instant.
Clock ==
    /\ IF Later # {} THEN time' = Min(Later) /\ date' = date
       ELSE date < FinalDate /\ date' = date + 1 /\ time' = Min(Instants)
    /\ UNCHANGED <<ksvars, npvars, running, pc, phaseRead, session, history>>

SwitchTurns ==
    /\ KSNext
    /\ UNCHANGED <<npvars, clockvars, running, pc, phaseRead, session, history>>

Poll ==
    /\ PollNext
    /\ UNCHANGED <<ksvars, clockvars, running, pc, phaseRead, session, history>>

PTNext == Run \/ RefuseRun \/ Loop \/ Stop \/ Cancel \/ Clock \/ SwitchTurns \/ Poll

\* asyncio resumes a task that is ready, and its sleeps end.
PTSpec == PTInit /\ [][PTNext]_ptvars /\ WF_ptvars(Loop) /\ WF_ptvars(Poll)
-----------------------------------------------------------------------------
(* Properties *)

\* A day is reviewed at most once, a week too, however often the loop ticks in
\* the window, however long a review takes and although its mark and the test
\* read different clocks.  A weekly review comes on a Friday, after a daily
\* review marked with that date, which is that day's own or one that was begun
\* before and ended that day in UTC.
ReviewOrder ==
    \A i \in DOMAIN reviews :
        /\ \A j \in 1 .. i - 1 :
              \/ reviews[j].kind # reviews[i].kind
              \/ reviews[j].date < reviews[i].date /\ reviews[j].marked < reviews[i].marked
        /\ reviews[i].kind = "weekly" =>
              /\ reviews[i].date \in Fridays
              /\ \E j \in 1 .. i - 1 :
                    /\ reviews[j].kind = "daily"
                    /\ reviews[j].date <= reviews[i].date
                    /\ reviews[j].marked = reviews[i].date

\* A weekly review comes after the daily review of the same day.  The code does
\* not keep this: what it looks at is the date on which the last daily review
\* ended in UTC.
WeeklyAfterDaily ==
    \A i \in DOMAIN reviews :
        reviews[i].kind = "weekly" =>
            \E j \in 1 .. i - 1 :
                reviews[j].kind = "daily" /\ reviews[j].date = reviews[i].date

\* Asked to stop in any step, cancelled or failing in a review, the loop ends
\* and leaves no task of the news pipeline behind.
LoopEndsCleanly ==
    (stopAsked \/ pc \in {"finally", "ended"}) ~>
        (pc = "ended" /\ ~polling /\ pollTask = "none")

=============================================================================
