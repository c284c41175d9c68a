------------------------------ MODULE FatClock ------------------------------
(***************************************************************************)
(* The clock in the FAT format that src/src/sdcard.c keeps: set_fattime,   *)
(* which date calls, and advance_fattime, against the calendar. A time is  *)
(* a record of bit fields; what is stored in a field loses the bits beyond *)
(* its width. advance_fattime is made for a call every two seconds. date   *)
(* wants fourteen digits and takes any, so that a field may hold what no   *)
(* date and no time has.                                                   *)
(***************************************************************************)
EXTENDS Integers

CONSTANTS
    Years, Months, Days, Hours, Minutes, Seconds,   \* the numbers the user enters
    Unset,          \* no date entered yet
    NoMoment,       \* what was entered is no day, or no time of day, that exists
    MaxTicks        \* bound: the advances before and after a date is entered

ASSUME ClockAssumption ==
    /\ Years \subseteq 0..9999
    /\ Months \subseteq 0..99 /\ Days \subseteq 0..99
    /\ Hours \subseteq 0..99 /\ Minutes \subseteq 0..99 /\ Seconds \subseteq 0..99
    /\ MaxTicks \in Nat

VARIABLES
    fattime,        \* the static variable of the same name
    now,            \* history: the moment [year, month, day, sec] the calendar says it is
    ticks

clockVars == <<fattime, now, ticks>>

set_fattime(year, month, day, hour, minute, second) ==
    [bisecond |-> (second \div 2) % 32, minute |-> minute % 64, hour |-> hour % 32,
     day |-> day % 32, month |-> month % 16, year |-> (year - 1980) % 128]

\* The carries of advance_fattime up to the day, which goes from 31 to 0.
Tick(t) ==
    LET b == (t.bisecond + 1) % 32
        m == (t.minute + IF b = 30 THEN 1 ELSE 0) % 64
        h == (t.hour + IF m = 60 THEN 1 ELSE 0) % 32
    IN  [t EXCEPT !.bisecond = IF b = 30 THEN 0 ELSE b, !.minute = IF m = 60 THEN 0 ELSE m,
                  !.hour = IF h = 24 THEN 0 ELSE h,
                  !.day = (t.day + IF h = 24 THEN 1 ELSE 0) % 32]

\* The branch for February. Without braces of its own the case of 2100 sets the
\* month in any case; an ordinary year has no case.
February(t) ==
    LET year == t.year + 1980
        over(n) == [t EXCEPT !.day = @ - n, !.month = 3]
    IN  CASE t.day < 29 -> t
          [] t.day >= 29 /\ year % 1000 # 0 /\ year % 100 = 0 -> over(27)
          [] t.day > 29 /\ (year % 1000 = 0 \/ (year % 100 # 0 /\ year % 4 = 0)) -> over(28)
          [] OTHER -> t

\* Mutant: September is missing among the months of thirty days.
MonthEnd_LongSeptember(t) ==
    CASE t.month = 2 -> February(t)
      [] t.month \in {4, 6, 10} /\ t.day = 31 -> [t EXCEPT !.day = 1, !.month = (@ + 1) % 16]
      [] t.month \notin {2, 4, 6, 10} /\ t.day = 0 -> [t EXCEPT !.day = 1, !.month = (@ + 1) % 16]
      [] OTHER -> t

MonthEnd(t) ==
    CASE t.month = 2 -> February(t)
      [] t.month \in {9, 4, 6, 10} /\ t.day = 31 -> [t EXCEPT !.day = 1, !.month = (@ + 1) % 16]
      [] t.month \notin {2, 9, 4, 6, 10} /\ t.day = 0 -> [t EXCEPT !.day = 1, !.month = (@ + 1) % 16]
      [] OTHER -> t

\* Mutant: no carry into the year.
advance_fattime_NoYear(t) == MonthEnd(Tick(t))

advance_fattime(t) ==
    LET u == MonthEnd(Tick(t))
    IN  IF u.month = 13 THEN [u EXCEPT !.month = 1, !.year = (@ + 1) % 128] ELSE u

-----------------------------------------------------------------------------
(* The calendar.                                                             *)

Leap(y) == y % 4 = 0 /\ (y % 100 # 0 \/ y % 400 = 0)

DaysIn(y, m) == CASE m = 2 -> IF Leap(y) THEN 29 ELSE 28
                  [] m \in {4, 6, 9, 11} -> 30
                  [] OTHER -> 31

\* The entered day and time of day exist, in a year the format has.
Exists(y, mo, d, h, mi, s) ==
    /\ 1980 <= y /\ y <= 2107
    /\ mo \in 1..12 /\ d \in 1..DaysIn(y, mo)
    /\ h < 24 /\ mi < 60 /\ s < 60

IsMoment(t) == t \notin {Unset, NoMoment}

LastTick(t) == t.sec >= 24 * 3600 - 2

NextDay(t) == IF t.day < DaysIn(t.year, t.month) THEN [t EXCEPT !.day = @ + 1]
              ELSE IF t.month < 12 THEN [t EXCEPT !.day = 1, !.month = @ + 1]
              ELSE [t EXCEPT !.day = 1, !.month = 1, !.year = @ + 1]

Later(t) == IF LastTick(t) THEN [NextDay(t) EXCEPT !.sec = @ + 2 - 24 * 3600]
                           ELSE [t EXCEPT !.sec = @ + 2]

Stamp(t) == set_fattime(t.year, t.month, t.day, t.sec \div 3600, (t.sec \div 60) % 60, t.sec % 60)

-----------------------------------------------------------------------------

ClockInit ==
    /\ fattime = [bisecond |-> 0, minute |-> 0, hour |-> 0, day |-> 0, month |-> 0, year |-> 0]
    /\ now = Unset /\ ticks = 0

\* The user enters fourteen digits (entering others later starts all over).
date ==
    /\ now = Unset
    /\ \E y \in Years, mo \in Months, d \in Days, h \in Hours, mi \in Minutes, s \in Seconds :
          /\ fattime' = set_fattime(y, mo, d, h, mi, s)
          /\ now' = IF Exists(y, mo, d, h, mi, s)
                    THEN [year |-> y, month |-> mo, day |-> d, sec |-> 3600 * h + 60 * mi + s]
                    ELSE NoMoment
    /\ ticks' = 0

\* Two seconds pass, with or without a date entered.
Advance ==
    /\ ticks < MaxTicks
    /\ fattime' = advance_fattime(fattime)
    /\ now' = IF IsMoment(now) THEN Later(now) ELSE now
    /\ ticks' = ticks + 1

ClockNext == date \/ Advance

ClockSpec == ClockInit /\ [][ClockNext]_clockVars

-----------------------------------------------------------------------------
(* Properties.                                                               *)

\* Where advance_fattime leaves the calendar: at the end of February (of every
\* year), of 30 October and of November, and all through 31 October.
Astray(t) ==
    \/ LastTick(t) /\ <<t.month, t.day>> \in {<<2, DaysIn(t.year, 2)>>, <<10, 30>>, <<11, 30>>}
    \/ t.month = 10 /\ t.day = 31

\* A clock that is right stays right as time passes, for 128 years from 1980,
\* except at exactly these times (sdcard.c:51).
AdvanceIsCalendar ==
    [][Advance /\ IsMoment(now) /\ fattime = Stamp(now) /\ now.year <= 2107 =>
           (fattime' = Stamp(now') <=> ~Astray(now))]_clockVars

\* A month that has a name in month_name keeps to months that have one as time
\* passes, whatever digits the other fields hold: a day 0, an hour 31, a minute
\* 63 (sdcard.c:51, 187). Nothing gives a name to the months 0 and 13 to 15
\* that date takes.
MonthStaysNamed ==
    [][Advance /\ fattime.month \in 1..12 => fattime'.month \in 1..12]_clockVars
=============================================================================
