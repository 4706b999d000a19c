---------------------------- MODULE FatCalendar ----------------------------
(***************************************************************************)
(* The timestamps that pack gives to a file while the calendar turns.  The *)
(* date is advanced by the rule for the lengths of months and never looked *)
(* up in the day number, so it is an independent account of the same time. *)
(***************************************************************************)
EXTENDS FatTime, FiniteSets

CONSTANTS
  FirstYear,  \* the walks begin on the last day before each of these years
  LastYear,
  Seconds     \* the seconds of a day at which the file may be modified

VARIABLES
  date,       \* the calendar's date, in UTC
  mtime       \* the same moment as the file system counts it

walkVars == <<date, mtime>>

ASSUME CalendarAssumption ==
  /\ FirstYear \in Int /\ LastYear \in Int
  /\ Seconds \subseteq 0..SecondsPerDay - 1 /\ 0 \in Seconds

Leap(y) == y % 4 = 0 /\ (y % 100 = 0 => y % 400 = 0)
MonthLength(y, m) ==
  CASE m \in {4, 6, 9, 11} -> 30
    [] m = 2 -> IF Leap(y) THEN 29 ELSE 28
    [] OTHER -> 31

NewYearsDay(y) ==
  IF y < 1970 THEN -365 * (1970 - y) - Cardinality({k \in y..1969 : Leap(k)})
  ELSE 365 * (y - 1970) + Cardinality({k \in 1970..y - 1 : Leap(k)})

NextDate(d) ==
  IF d.day < MonthLength(d.year, d.month) THEN [d EXCEPT !.day = @ + 1]
  ELSE IF d.month < 12 THEN [d EXCEPT !.month = @ + 1, !.day = 1]
  ELSE [year |-> d.year + 1, month |-> 1, day |-> 1]

WalkInit ==
  \E y \in FirstYear..LastYear :
    /\ date = [year |-> y - 1, month |-> 12, day |-> 31]
    /\ mtime = Moment(NewYearsDay(y) - 1, 0)

\* The file is written again later the same day.
Later ==
  /\ \E s \in Seconds : s > mtime.sec /\ mtime' = [mtime EXCEPT !.sec = s]
  /\ UNCHANGED date

\* Or on the next day, until the horizon.
NextDay ==
  /\ NextDate(date).year <= LastYear
  /\ date' = NextDate(date)
  /\ mtime' = Moment(mtime.day + 1, 0)

WalkNext == Later \/ NextDay
WalkSpec == WalkInit /\ [][WalkNext]_walkVars

----------------------------------------------------------------------------
\* How DOS reads the two words.
ShownDate(s) == [year |-> 1980 + s.date \div 512, month |-> (s.date \div 32) % 16, day |-> s.date % 32]
ShownClock(s) == [hour |-> s.time \div 2048, minute |-> (s.time \div 32) % 64, second |-> 2 * (s.time % 32)]

\* The file's timestamp with --preserve-timestamps.
Now == EntryStamp(TRUE, mtime)

\* The first of January 2108 is before FAT_MAX_UNIX and beyond the seven bits of the
\* year: it is shown as 1980.  ClampsAfter2107 is violated by it.
Unclamped(d) == d = [year |-> 2108, month |-> 1, day |-> 1]

\* The walk's two clocks stay within their ranges.
ClocksOK == date \in [year: Int, month: 1..12, day: 1..31] /\ mtime \in Moments

\* DOS shows the file with the calendar's date and time to the even second, from
\* 1980 to 2107; an earlier file shows the first moment of FAT and a later one the
\* last, in every field and not in the year alone (unix_to_fat).
ShowsTheCalendar ==
  ~Unclamped(date) =>
    LET stamp == Now
        shown == <<ShownDate(stamp), ShownClock(stamp)>>
    IN CASE date.year < 1980 -> shown = <<ShownDate(FirstStamp), ShownClock(FirstStamp)>>
         [] date.year > 2107 -> shown = <<ShownDate(LastStamp), ShownClock(LastStamp)>>
         [] OTHER ->
              /\ shown[1] = date
              /\ shown[2] = LET s == 2 * (mtime.sec \div 2)
                            IN [hour |-> s \div 3600, minute |-> (s % 3600) \div 60, second |-> s % 60]

\* The stub takes a timestamp of 0 to mean "leave the time alone": whatever the mtime
\* of a file, before 1970 or after 2107, --preserve-timestamps never asks for that,
\* and the words are always a date and a time that DOS can show.
AlwaysADosDate ==
  LET stamp == Now
      day == ShownDate(stamp)
      clock == ShownClock(stamp)
  IN /\ stamp # NoStamp
     /\ day.month \in 1..12 /\ day.day \in 1..31
     /\ clock.hour < 24 /\ clock.minute < 60 /\ clock.second < 60

\* A file modified later never gets an earlier timestamp, over the ends of days,
\* months, leap years, eras and the clamps at both ends.
NeverGoesBack ==
  [][~Unclamped(date) /\ ~Unclamped(date') =>
       LET a == Now
           b == Now'
       IN a.date < b.date \/ (a.date = b.date /\ a.time <= b.time)]_walkVars

\* The head of fat_time.rs: "post-2107 dates collapse to 2107-12-31 23:59:58".
ClampsAfter2107 == date.year > 2107 => Now = LastStamp
=============================================================================
