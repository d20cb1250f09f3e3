-------------------------- MODULE AttendancePolicy --------------------------
(***************************************************************************)
(* getAttendancePolicySummary (src/server/db.ts): how often staff overrode *)
(* the check-in, and who has checked in with nothing but a passkey for     *)
(* many days on end.  Days are counted in UTC.                             *)
(***************************************************************************)
EXTENDS Integers, FiniteSets

LOCAL INSTANCE SequencesExt

\* Rows are [user, at, method]; a day has DAY instants.
DayOf(row, DAY) == row.at \div DAY

StaffOverrideCount(rows) == Cardinality({r \in rows : r.method = "staff_override"})

\* The days on which a user's only method was the passkey.
PasskeyDays(rows, user, DAY) ==
  LET mine == {r \in rows : r.user = user} IN
  {d \in {DayOf(r, DAY) : r \in mine} :
     {r.method : r \in {x \in mine : DayOf(x, DAY) = d}} = {"passkey"}}

\* One round of the loop over the days, the latest first.
NextDay(streak, day) ==
  LET current == IF streak.current = 0 \/ streak.previous - day = 1
                 THEN streak.current + 1 ELSE 1 IN
  [longest  |-> IF current > streak.longest THEN current ELSE streak.longest,
   current  |-> current,
   previous |-> day]

LongestStreak(days) ==
  FoldLeft(NextDay, [longest |-> 0, current |-> 0, previous |-> 0],
           SetToSortSeq(days, LAMBDA a, b : a > b)).longest

PasskeyOnlyStreakUsers(rows, users, threshold, DAY) ==
  {u \in users : LongestStreak(PasskeyDays(rows, u, DAY)) >= threshold}

\* What the loop is meant to find: the most days in a row.
Run(days, n) == n = 0 \/ \E d \in days : d..(d + n - 1) \subseteq days

\* The loop finds the longest run of every set of days of a week.
ASSUME StreaksAreRuns ==
  \A days \in SUBSET (0..6) :
    Run(days, LongestStreak(days)) /\ ~Run(days, LongestStreak(days) + 1)

\* Rows on both sides of midnight, and a day on which another method was
\* used as well, or only.
ASSUME StreaksOfRows ==
  \A methods \in [0..5 -> {"passkey", "face", "staff_override"}] :
    LET rows == {[user |-> "u", at |-> t, method |-> methods[t]] : t \in 0..5}
        pure == {d \in 0..2 : methods[2 * d] = "passkey" /\ methods[2 * d + 1] = "passkey"}
    IN /\ PasskeyDays(rows, "u", 2) = pure
       /\ PasskeyOnlyStreakUsers(rows, {"u"}, 2, 2) =
            IF {0, 1} \subseteq pure \/ {1, 2} \subseteq pure THEN {"u"} ELSE {}
       /\ StaffOverrideCount(rows) =
            Cardinality({t \in 0..5 : methods[t] = "staff_override"})
=============================================================================
