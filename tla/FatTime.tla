------------------------------ MODULE FatTime ------------------------------
(***************************************************************************)
(* The FAT timestamp of an entry (fat_time.rs) and how pack comes by it.   *)
(*                                                                         *)
(* A moment is a pair of a day number, counted from 1970-01-01, and a      *)
(* second of that day: what div_euclid and rem_euclid by 86400 make of the *)
(* 64-bit seconds.  The 32-bit result is the pair of its 16-bit halves.    *)
(***************************************************************************)
EXTENDS Integers

SecondsPerDay == 86400
Moment(day, sec) == [day |-> day, sec |-> sec]
Moments == [day: Int, sec: 0..SecondsPerDay - 1]

\* Comparison of the seconds since 1970.
Earlier(a, b) == a.day < b.day \/ (a.day = b.day /\ a.sec < b.sec)

\* FAT_EPOCH_UNIX = 315532800 and FAT_MAX_UNIX = 4354905598, which is 23:59:58 on
\* the first of January 2108.
FatEpoch == Moment(3652, 0)
FatMax == Moment(50403, 86398)

----------------------------------------------------------------------------
(* civil_from_unix: days are counted from 0000-03-01 in eras of 400 years, *)
(* and years begin in March.                                               *)

DayOfEra(day) == (day + 719468) % 146097
Era(day) == (day + 719468) \div 146097

\* Mutant: the correction for the last day of an era is left out.
YearOfEraNoLastDay(doe) == (doe - doe \div 1460 + doe \div 36524) \div 365

YearOfEra(doe) ==
  (doe - doe \div 1460 + doe \div 36524 - doe \div 146096) \div 365

DayOfYear(doe) ==
  LET yoe == YearOfEra(doe) IN doe - (365 * yoe + yoe \div 4 - yoe \div 100)

MarchMonth(doy) == (5 * doy + 2) \div 153

\* Mutant: January and February stay in the year that began in March.
CivilDateNoCarry(day) ==
  LET doe == DayOfEra(day)
      doy == DayOfYear(doe)
      mp == MarchMonth(doy)
  IN [year |-> YearOfEra(doe) + 400 * Era(day),
      month |-> IF mp < 10 THEN mp + 3 ELSE mp - 9,
      day |-> doy - (153 * mp + 2) \div 5 + 1]

\* Month 10 of a year that begins in March is January of the next.
CivilDate(day) ==
  LET doe == DayOfEra(day)
      doy == DayOfYear(doe)
      mp == MarchMonth(doy)
      month == IF mp < 10 THEN mp + 3 ELSE mp - 9
      year == YearOfEra(doe) + 400 * Era(day)
  IN [year |-> IF month <= 2 THEN year + 1 ELSE year,
      month |-> month,
      day |-> doy - (153 * mp + 2) \div 5 + 1]

Clock(sec) == [hour |-> sec \div 3600, minute |-> (sec \div 60) % 60, second |-> sec % 60]

\* dos_date and dos_time; the fields do not overlap, so "|" is a sum.  The year has
\* the upper seven of sixteen bits: what "<< 9" moves beyond them is lost.
DosDate(date) == ((512 * (date.year - 1980)) % 65536) + 32 * date.month + date.day
DosTime(clock) == 2048 * clock.hour + 32 * clock.minute + clock.second \div 2

Stamp(date, clock) == [date |-> DosDate(date), time |-> DosTime(clock)]
FirstStamp == Stamp([year |-> 1980, month |-> 1, day |-> 1],
                    [hour |-> 0, minute |-> 0, second |-> 0])
LastStamp == Stamp([year |-> 2107, month |-> 12, day |-> 31],
                   [hour |-> 23, minute |-> 59, second |-> 58])

UnixToFat(m) ==
  IF Earlier(m, FatEpoch) THEN FirstStamp
  ELSE IF Earlier(FatMax, m) THEN LastStamp
  ELSE Stamp(CivilDate(m.day), Clock(m.sec))

----------------------------------------------------------------------------
\* The timestamp that tells the stub to leave the file's time alone.
NoStamp == [date |-> 0, time |-> 0]

\* duration_since(UNIX_EPOCH) fails before 1970, and the time is then 0.
MtimeSecs(mtime) == IF mtime.day < 0 THEN Moment(0, 0) ELSE mtime

\* Mutant: an mtime from before 1980 counts as none.
EntryStampOldIsNone(preserve, mtime) ==
  IF preserve /\ ~Earlier(mtime, FatEpoch) THEN UnixToFat(mtime) ELSE NoStamp

EntryStamp(preserve, mtime) ==
  IF preserve THEN UnixToFat(MtimeSecs(mtime)) ELSE NoStamp
=============================================================================
