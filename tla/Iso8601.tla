------------------------------ MODULE Iso8601 ------------------------------
(***************************************************************************)
(* Date/time arithmetic of src/lib/common/iso8601.c.                       *)
(*                                                                         *)
(* A crm_time_t is a record: `years' (calendar year, or a number of years  *)
(* for a duration), `months' (durations only), `days' (ordinal day of the  *)
(* year, or a number of days), `seconds' (second of the day, or a number   *)
(* of seconds), `offset' (seconds east of UTC) and `duration'.  The        *)
(* operators below translate the functions that compute and change such   *)
(* records; the actions apply them, as callers do, to one time object `t'. *)
(* A reference calendar, written independently of the code from the       *)
(* proleptic Gregorian rules, tracks where `t' should be (`ref').          *)
(***************************************************************************)
EXTENDS Integers, Sequences, FiniteSets

CONSTANTS
  Years,         (* calendar years of the initial dates                     *)
  InitSeconds,   (* seconds of the day of the initial times                 *)
  DayExtras,     (* arguments of crm_time_add_days()                       *)
  WeekExtras,    (* arguments of crm_time_add_weeks()                      *)
  MonthExtras,   (* arguments of crm_time_add_months()                     *)
  YearExtras,    (* arguments of crm_time_add_years()                      *)
  SecondExtras,  (* arguments of crm_time_add_seconds()                    *)
  MinuteExtras,  (* arguments of crm_time_add_minutes()                    *)
  HourExtras,    (* arguments of crm_time_add_hours()                      *)
  Durations,     (* durations given to crm_time_add() and _subtract()       *)
  XmlInputs,     (* <<component, attribute>> given to pcmk__add_time_from_xml() *)
  MaxSteps       (* how many operations are applied to one time object      *)

ASSUME Years \subseteq 2 .. 9999
ASSUME InitSeconds \subseteq 0 .. 86399
ASSUME MaxSteps \in Nat

VARIABLES t, ref, steps

vars == <<t, ref, steps>>

HOUR_SECONDS == 60 * 60
DAY_SECONDS  == HOUR_SECONDS * 24
INT_MAX      == 2147483647

(***************************************************************************)
(* C `int' multiplication by a small positive constant k (at most 65535).  *)
(* Signed overflow is undefined; the builds wrap it in two's complement,   *)
(* which is the outcome modelled.  The product is formed from 16-bit      *)
(* halves so that no intermediate value leaves the 32-bit range.          *)
(***************************************************************************)
IntMul(a, k) ==
  LET lo == (a % 65536) * k
      hi == ((a \div 65536) * k + (lo \div 65536)) % 65536
  IN  IF hi < 32768 THEN hi * 65536 + (lo % 65536)
                    ELSE (hi - 65536) * 65536 + (lo % 65536)

(* C integer division and remainder truncate toward zero.                  *)
CDiv(a, b) == IF a >= 0 THEN a \div b ELSE -((-a) \div b)
CMod(a, b) == a - b * CDiv(a, b)

TimeRecord(y, mo, d, s, off, dur) ==
  [years |-> y, months |-> mo, days |-> d, seconds |-> s,
   offset |-> off, duration |-> dur]

(* crm_time_new_undefined(): all members zero.                             *)
Undefined == TimeRecord(0, 0, 0, 0, 0, FALSE)

-----------------------------------------------------------------------------
(***************************************************************************)
(* Calendar helpers.                                                       *)
(***************************************************************************)
crm_time_leapyear(year) ==
  /\ year % 4 = 0
  /\ ~(year % 100 = 0 /\ year % 400 # 0)

year_days(year) == IF crm_time_leapyear(year) THEN 366 ELSE 365

(* Jan1Weekday (Monday = 1) by the algorithm the code cites.               *)
crm_time_january1_weekday(year) ==
  LET YY == CMod(year - 1, 100)
      C  == (year - 1) - YY
      G  == YY + CDiv(YY, 4)
  IN  1 + CMod(CMod(CDiv(C, 100), 4) * 5 + G, 7)

crm_time_weeks_in_year(year) ==
  IF \/ crm_time_january1_weekday(year) = 4
     \/ crm_time_january1_weekday(year + 1) = 5
    THEN 53 ELSE 52

month_days == <<31, 28, 31, 30, 31, 30, 31, 31, 30, 31, 30, 31, 29>>

crm_time_days_in_month(month, year) ==
  CASE month < 1 \/ month > 12 \/ year < 1 -> 0
    [] month = 2 /\ crm_time_leapyear(year) -> month_days[13]
    [] OTHER                                -> month_days[month]

RECURSIVE DaysBeforeMonth(_, _)
DaysBeforeMonth(m, y) ==
  IF m <= 1 THEN 0 ELSE crm_time_days_in_month(m - 1, y) + DaysBeforeMonth(m - 1, y)

get_ordinal_days(y, m, d) ==
  IF y > 0 /\ y <= INT_MAX /\ m \in 1 .. 12 /\ d \in 1 .. 31
    THEN d + DaysBeforeMonth(m, y)
    ELSE 0

(* The month loop of crm_time_get_gregorian(): <<month, day of month>>.    *)
RECURSIVE GregorianLoop(_, _, _)
GregorianLoop(months, days, year) ==
  IF months <= 12 /\ days > 0 /\ crm_time_days_in_month(months, year) < days
    THEN GregorianLoop(months + 1, days - crm_time_days_in_month(months, year), year)
    ELSE <<months, days>>

crm_time_get_gregorian(dt) ==
  CASE dt.years # 0 ->
         LET md == GregorianLoop(1, dt.days, dt.years)
         IN  <<dt.years, md[1], md[2]>>
    [] dt.months # 0 -> <<dt.years, dt.months, dt.days>>
    [] OTHER         -> <<dt.years, 0, dt.days>>

(* Mutant: a year starting on Thursday taken as starting in week 52/53.   *)
crm_time_get_isoweek_thursday(dt) ==
  LET jan1 == crm_time_january1_weekday(dt.years)
      d    == 1 + CMod(dt.days + jan1 - 1 - 1, 7)
      prev == dt.days <= 8 - jan1 /\ jan1 >= 4
      next == ~prev /\ (year_days(dt.years) - dt.days) < 4 - d
      j    == dt.days + (7 - d) + (jan1 - 1)
  IN  CASE dt.days <= 0 -> FALSE
        [] prev -> <<dt.years - 1, crm_time_weeks_in_year(dt.years - 1), d>>
        [] next -> <<dt.years + 1, 1, d>>
        [] OTHER -> <<dt.years, CDiv(j, 7) - (IF jan1 > 4 THEN 1 ELSE 0), d>>

(* crm_time_get_isoweek(): <<year, week, weekday>>, or FALSE (CRM_CHECK).   *)
crm_time_get_isoweek(dt) ==
  LET jan1 == crm_time_january1_weekday(dt.years)
      d    == 1 + CMod(dt.days + jan1 - 1 - 1, 7)
      prev == dt.days <= 8 - jan1 /\ jan1 > 4
      next == ~prev /\ (year_days(dt.years) - dt.days) < 4 - d
      j    == dt.days + (7 - d) + (jan1 - 1)
  IN  CASE dt.days <= 0 -> FALSE
        [] prev -> <<dt.years - 1, crm_time_weeks_in_year(dt.years - 1), d>>
        [] next -> <<dt.years + 1, 1, d>>
        [] OTHER -> <<dt.years, CDiv(j, 7) - (IF jan1 > 4 THEN 1 ELSE 0), d>>

crm_time_is_defined(dt) ==
  \/ dt.years # 0 \/ dt.months # 0 \/ dt.days # 0
  \/ dt.seconds # 0 \/ dt.offset # 0 \/ dt.duration

-----------------------------------------------------------------------------
(***************************************************************************)
(* Arithmetic.                                                             *)
(***************************************************************************)
ydays(dt) == IF crm_time_leapyear(dt.years) THEN 366 ELSE 365

(* The extra > 0 loop of crm_time_add_days(): the year's length is taken   *)
(* before the year is advanced.                                            *)
RECURSIVE AddDaysForward(_, _)
AddDaysForward(dt, extra) ==
  IF dt.days + extra > ydays(dt)
    THEN IF dt.years + 1 > INT_MAX
           THEN [dt EXCEPT !.days = ydays(dt)]
           ELSE AddDaysForward([dt EXCEPT !.years = @ + 1], extra - ydays(dt))
    ELSE [dt EXCEPT !.days = @ + extra]

(* Mutant: the backward loop stops at day 0 even for a date.              *)
RECURSIVE AddDaysBackward_zero(_, _)
AddDaysBackward_zero(dt, extra) ==
  LET prev == [dt EXCEPT !.years = @ - 1]
  IN  IF dt.days + extra < 0
        THEN IF dt.years - 1 < 1
               THEN [dt EXCEPT !.days = 1]
               ELSE AddDaysBackward_zero(prev, extra + ydays(prev))
        ELSE [dt EXCEPT !.days = @ + extra]

(* The extra < 0 loop: the year is moved back before its length is taken. *)
RECURSIVE AddDaysBackward(_, _)
AddDaysBackward(dt, extra) ==
  LET min_days == IF dt.duration THEN 0 ELSE 1
      prev     == [dt EXCEPT !.years = @ - 1]
  IN  IF dt.days + extra < min_days
        THEN IF dt.years - 1 < 1
               THEN [dt EXCEPT !.days = 1]
               ELSE AddDaysBackward(prev, extra + ydays(prev))
        ELSE [dt EXCEPT !.days = @ + extra]

crm_time_add_days(dt, extra) ==
  CASE extra > 0 -> AddDaysForward(dt, extra)
    [] extra < 0 -> AddDaysBackward(dt, extra)
    [] OTHER     -> dt

crm_time_add_weeks(dt, extra) == crm_time_add_days(dt, IntMul(extra, 7))

(* Mutant: the day carried by an overflowing second count is dropped.      *)
crm_time_add_seconds_lost_carry(dt, extra) ==
  LET secs == dt.seconds + CMod(extra, DAY_SECONDS)
      days == CDiv(extra, DAY_SECONDS)
  IN  CASE secs > DAY_SECONDS ->
             crm_time_add_days([dt EXCEPT !.seconds = secs - DAY_SECONDS], days)
        [] secs < 0 ->
             crm_time_add_days([dt EXCEPT !.seconds = secs + DAY_SECONDS], days - 1)
        [] OTHER ->
             crm_time_add_days([dt EXCEPT !.seconds = secs], days)

(* Mutant: no borrow when the second count goes negative.                  *)
crm_time_add_seconds_no_borrow(dt, extra) ==
  LET secs == dt.seconds + CMod(extra, DAY_SECONDS)
      days == CDiv(extra, DAY_SECONDS)
  IN  IF secs > DAY_SECONDS
        THEN crm_time_add_days([dt EXCEPT !.seconds = secs - DAY_SECONDS], days + 1)
        ELSE crm_time_add_days([dt EXCEPT !.seconds = secs], days)

crm_time_add_seconds(dt, extra) ==
  LET secs == dt.seconds + CMod(extra, DAY_SECONDS)
      days == CDiv(extra, DAY_SECONDS)
  IN  CASE secs > DAY_SECONDS ->
             crm_time_add_days([dt EXCEPT !.seconds = secs - DAY_SECONDS], days + 1)
        [] secs < 0 ->
             crm_time_add_days([dt EXCEPT !.seconds = secs + DAY_SECONDS], days - 1)
        [] OTHER ->
             crm_time_add_days([dt EXCEPT !.seconds = secs], days)

crm_time_add_minutes(dt, extra) == crm_time_add_seconds(dt, IntMul(extra, 60))

crm_time_add_hours(dt, extra) ==
  crm_time_add_seconds(dt, IntMul(extra, HOUR_SECONDS))

(***************************************************************************)
(* The month loops of crm_time_add_months(): <<year, month>> after `extra' *)
(* single steps from m/y.  A step wraps only when the month reaches        *)
(* exactly 13 (going up) or 0 (going down), so a month already outside     *)
(* 1..12 (13, from a day number past the year's end; 0, from years = 0)    *)
(* runs off without wrapping.  The uint32_t month below 0 is represented   *)
(* by its (int) value, which is what crm_time_days_in_month() receives.    *)
(***************************************************************************)
MonthStep(y, m, extra) ==
  LET total == y * 12 + (m - 1) + extra
  IN  CASE extra = 0                              -> <<y, m>>
        [] (extra > 0 /\ m <= 12) \/ (extra < 0 /\ m >= 1) -> <<total \div 12, (total % 12) + 1>>
        [] OTHER                                   -> <<y, m + extra>>

(* Mutant: the day of month is not clipped to the target month's length.  *)
crm_time_add_months_no_clamp(dt, extra) ==
  LET g  == crm_time_get_gregorian(dt)
      ym == MonthStep(g[1], g[2], extra)
  IN  [dt EXCEPT !.years = ym[1], !.days = get_ordinal_days(ym[1], ym[2], g[3])]

crm_time_add_months(dt, extra) ==
  LET g    == crm_time_get_gregorian(dt)
      ym   == MonthStep(g[1], g[2], extra)
      dmax == crm_time_days_in_month(ym[2], ym[1])
      d    == IF dmax < g[3] THEN dmax ELSE g[3]
  IN  [dt EXCEPT !.years = ym[1], !.days = get_ordinal_days(ym[1], ym[2], d)]

crm_time_add_years(dt, extra) ==
  CASE extra > 0 /\ dt.years + extra > INT_MAX -> [dt EXCEPT !.years = INT_MAX]
    [] extra < 0 /\ dt.years + extra < 1       -> [dt EXCEPT !.years = 1]
    [] OTHER                                   -> [dt EXCEPT !.years = @ + extra]

(***************************************************************************)
(* Rule durations.  A component is one of the pcmk__time_component values *)
(* pcmk__time_component_attr() and component_fn() know, or "invalid".     *)
(* An XML attribute is abstracted by how pcmk__scan_ll() reads it: "no_xml" *)
(* (no element), "absent" (no attribute: the default 0), "bad" (not a     *)
(* long long), "big"/"small" (a long long above INT_MAX / below INT_MIN), *)
(* or "num" with its value `val'.                                         *)
(***************************************************************************)
TimeComponents ==
  {"years", "months", "weeks", "days", "hours", "minutes", "seconds"}

(* Mutant: the hours and minutes entries of the table swapped.            *)
component_fn_swapped(c, dt, extra) ==
  CASE c = "years"   -> crm_time_add_years(dt, extra)
    [] c = "months"  -> crm_time_add_months(dt, extra)
    [] c = "weeks"   -> crm_time_add_weeks(dt, extra)
    [] c = "days"    -> crm_time_add_days(dt, extra)
    [] c = "hours"   -> crm_time_add_minutes(dt, extra)
    [] c = "minutes" -> crm_time_add_hours(dt, extra)
    [] c = "seconds" -> crm_time_add_seconds(dt, extra)

(* component_fn(c) applied to (dt, extra).                                *)
component_fn(c, dt, extra) ==
  CASE c = "years"   -> crm_time_add_years(dt, extra)
    [] c = "months"  -> crm_time_add_months(dt, extra)
    [] c = "weeks"   -> crm_time_add_weeks(dt, extra)
    [] c = "days"    -> crm_time_add_days(dt, extra)
    [] c = "hours"   -> crm_time_add_hours(dt, extra)
    [] c = "minutes" -> crm_time_add_minutes(dt, extra)
    [] c = "seconds" -> crm_time_add_seconds(dt, extra)

(* pcmk__add_time_from_xml(): the return code and the time after it.     *)
pcmk__add_time_from_xml(dt, c, x) ==
  CASE c \notin TimeComponents       -> [rc |-> "EINVAL", t |-> dt]
    [] x.kind = "no_xml"             -> [rc |-> "OK", t |-> dt]
    [] x.kind = "bad"                -> [rc |-> "unpack_error", t |-> dt]
    [] x.kind \in {"big", "small"}   -> [rc |-> "ERANGE", t |-> dt]
    [] x.kind = "num" /\ x.val # 0   -> [rc |-> "OK", t |-> component_fn(c, dt, x.val)]
    [] OTHER                         -> [rc |-> "OK", t |-> dt]

(* crm_get_utc_time(): a new (non-duration) object shifted to UTC; months  *)
(* are carried over only when there is no offset.                          *)
crm_get_utc_time(dt) ==
  LET utc == TimeRecord(dt.years, 0, dt.days, dt.seconds, 0, FALSE)
  IN  IF dt.offset # 0
        THEN crm_time_add_seconds(utc, -dt.offset)
        ELSE [utc EXCEPT !.months = dt.months]

(* crm_time_set(): every member but `duration' is copied.                 *)
crm_time_set(target, source) ==
  [target EXCEPT !.years = source.years, !.days = source.days,
                 !.months = source.months, !.seconds = source.seconds,
                 !.offset = source.offset]

pcmk_copy_time(source) == crm_time_set(Undefined, source)

(* crm_time_add(): the duration, in UTC, is added field by field; the      *)
(* month step is taken even for a zero number of months.                   *)
crm_time_add(dt, value) ==
  LET utc == crm_get_utc_time(value)
      a1  == crm_time_add_years(pcmk_copy_time(dt), utc.years)
      a2  == crm_time_add_months(a1, utc.months)
  IN  crm_time_add_seconds(crm_time_add_days(a2, utc.days), utc.seconds)

crm_time_subtract(dt, value) ==
  LET utc == crm_get_utc_time(value)
      a1  == crm_time_add_years(pcmk_copy_time(dt), -utc.years)
      a2  == IF utc.months # 0 THEN crm_time_add_months(a1, -utc.months) ELSE a1
  IN  crm_time_add_seconds(crm_time_add_days(a2, -utc.days), -utc.seconds)

(* crm_time_calculate_duration(dt, value): dt in UTC, marked a duration,   *)
(* with value's UTC fields subtracted one by one; the year subtraction     *)
(* goes through crm_time_add_years(), which clips at year 1.              *)
crm_time_calculate_duration(dt, value) ==
  LET utc    == crm_get_utc_time(value)
      answer == [crm_get_utc_time(dt) EXCEPT !.duration = TRUE]
      a1     == crm_time_add_years(answer, -utc.years)
      a2     == IF utc.months # 0 THEN crm_time_add_months(a1, -utc.months) ELSE a1
  IN  crm_time_add_seconds(crm_time_add_days(a2, -utc.days), -utc.seconds)

(***************************************************************************)
(* Comparison.  do_cmp_field(): the first field that differs decides.      *)
(***************************************************************************)
CmpField(l, r) == IF l > r THEN 1 ELSE IF l < r THEN -1 ELSE 0

CmpFields(t1, t2) ==
  LET c == <<CmpField(t1.years, t2.years), CmpField(t1.days, t2.days),
             CmpField(t1.seconds, t2.seconds)>>
  IN  IF c[1] # 0 THEN c[1] ELSE IF c[2] # 0 THEN c[2] ELSE c[3]

(* Mutant: the fields compared as given, without crm_get_utc_time().      *)
crm_time_compare_local(a, b) == CmpFields(a, b)

(* crm_time_compare(): both sides shifted to UTC, then years, days and    *)
(* seconds compared in that order.                                        *)
crm_time_compare(a, b) == CmpFields(crm_get_utc_time(a), crm_get_utc_time(b))

(* Mutant: the source stored as converted to UTC for the comparison.     *)
pcmk__set_time_if_earlier_utc(target, source) ==
  IF ~crm_time_is_defined(target) \/ crm_time_compare(source, target) < 0
    THEN crm_time_set(target, crm_get_utc_time(source)) ELSE target

(* pcmk__set_time_if_earlier(): the source replaces an undefined target   *)
(* or a later one.                                                        *)
pcmk__set_time_if_earlier(target, source) ==
  IF ~crm_time_is_defined(target) \/ crm_time_compare(source, target) < 0
    THEN crm_time_set(target, source) ELSE target

-----------------------------------------------------------------------------
(***************************************************************************)
(* Reference calendar, independent of the code: proleptic Gregorian days   *)
(* numbered from 1 = Monday 0001-01-01, an instant as [day, sec] with sec  *)
(* in 0..86399, and civil dates as [y, m, d].                              *)
(***************************************************************************)
RefLeap(y) == y % 400 = 0 \/ (y % 4 = 0 /\ y % 100 # 0)

RefMonthLength(y, m) ==
  CASE m = 2               -> IF RefLeap(y) THEN 29 ELSE 28
    [] m \in {4, 6, 9, 11} -> 30
    [] OTHER               -> 31

RefDaysBeforeYear(y) ==
  365 * (y - 1) + (y - 1) \div 4 - (y - 1) \div 100 + (y - 1) \div 400

RefDaysBeforeMonth(y, m) ==
  <<0, 31, 59, 90, 120, 151, 181, 212, 243, 273, 304, 334>>[m]
    + (IF m > 2 /\ RefLeap(y) THEN 1 ELSE 0)

RefDayNumber(c) == RefDaysBeforeYear(c.y) + RefDaysBeforeMonth(c.y, c.m) + c.d

RefCivil(n) ==
  LET y   == CHOOSE y \in (n \div 366) .. (n \div 365 + 1) :
               RefDaysBeforeYear(y) < n /\ n <= RefDaysBeforeYear(y + 1)
      doy == n - RefDaysBeforeYear(y)
      m   == CHOOSE m \in 1 .. 12 :
               RefDaysBeforeMonth(y, m) < doy
               /\ doy <= RefDaysBeforeMonth(y, m) + RefMonthLength(y, m)
  IN  [y |-> y, m |-> m, d |-> doy - RefDaysBeforeMonth(y, m)]

(* k units of `unit' seconds (a divisor of a day) added to an instant,    *)
(* whole days first so that no sum leaves the 32-bit range.               *)
RefAddUnits(r, k, unit) ==
  LET q == DAY_SECONDS \div unit
      s == r.sec + (k % q) * unit
  IN  [day |-> r.day + k \div q + s \div DAY_SECONDS, sec |-> s % DAY_SECONDS]

RefAddSeconds(r, k) == RefAddUnits(r, k, 1)

(* Calendar steps keep the day of month, or the month's last day.          *)
RefWithDate(r, y, m, d) ==
  [r EXCEPT !.day = RefDayNumber([y |-> y, m |-> m,
                                  d |-> IF d > RefMonthLength(y, m)
                                          THEN RefMonthLength(y, m) ELSE d])]

RefAddMonths(r, k) ==
  LET c     == RefCivil(r.day)
      total == 12 * c.y + (c.m - 1) + k
  IN  RefWithDate(r, total \div 12, (total % 12) + 1, c.d)

RefAddYears(r, k) ==
  LET c == RefCivil(r.day) IN RefWithDate(r, c.y + k, c.m, c.d)

(* A duration applied (sign = 1) or taken away (sign = -1), largest part   *)
(* first.                                                                  *)
RefApplyDuration(r, v, sign) ==
  LET r1 == RefAddMonths(RefAddYears(r, sign * v.years), sign * v.months)
  IN  RefAddSeconds([r1 EXCEPT !.day = @ + sign * v.days], sign * v.seconds)

(* ISO 8601 week date: the week belongs to the year of its Thursday.       *)
RefIsoWeek(n) ==
  LET wd == ((n - 1) % 7) + 1
      th == n + 4 - wd
      ty == RefCivil(th).y
  IN  <<ty, (th - RefDaysBeforeYear(ty) - 1) \div 7 + 1, wd>>

(* The instant a time object denotes, read as crm_time_get_seconds() does: *)
(* day (days - 1) of the year plus `seconds', whatever their size.         *)
Instant(dt) ==
  [day |-> RefDaysBeforeYear(dt.years) + dt.days + dt.seconds \div DAY_SECONDS,
   sec |-> dt.seconds % DAY_SECONDS]

(* The UTC instant of a date/time with a UTC offset.                       *)
UtcInstant(dt) == RefAddSeconds(Instant(dt), -dt.offset)

(* Instants in time order.                                                 *)
InstantBefore(a, b) == a.day < b.day \/ (a.day = b.day /\ a.sec < b.sec)

-----------------------------------------------------------------------------
(***************************************************************************)
(* The time object `t' is a date/time (offset 0, as crm_get_utc_time()     *)
(* produces and as the scheduler's rule evaluation uses), `ref' the        *)
(* instant it should denote, `steps' the operations applied so far.        *)
(***************************************************************************)
Init ==
  /\ \E y \in Years, s \in InitSeconds :
       \E d \in 1 .. RefDaysBeforeYear(y + 1) - RefDaysBeforeYear(y) :
         t = TimeRecord(y, 0, d, s, 0, FALSE)
  /\ ref = [day |-> RefDaysBeforeYear(t.years) + t.days, sec |-> t.seconds]
  /\ steps = 0

Apply(newT, newRef) ==
  /\ steps < MaxSteps
  /\ t' = newT
  /\ ref' = newRef
  /\ steps' = steps + 1

AddSeconds(x) == Apply(crm_time_add_seconds(t, x), RefAddSeconds(ref, x))
AddMinutes(x) == Apply(crm_time_add_minutes(t, x), RefAddUnits(ref, x, 60))
AddHours(x)   == Apply(crm_time_add_hours(t, x), RefAddUnits(ref, x, HOUR_SECONDS))
AddDays(x)    == Apply(crm_time_add_days(t, x), [ref EXCEPT !.day = @ + x])
AddWeeks(x)   == Apply(crm_time_add_weeks(t, x), [ref EXCEPT !.day = @ + 7 * x])
AddMonths(x)  == Apply(crm_time_add_months(t, x), RefAddMonths(ref, x))
AddYears(x)   == Apply(crm_time_add_years(t, x), RefAddYears(ref, x))
Add(v)        == Apply(crm_time_add(t, v), RefApplyDuration(ref, v, 1))
Subtract(v)   == Apply(crm_time_subtract(t, v), RefApplyDuration(ref, v, -1))

(* Where adding k of a component should move an instant.                  *)
RefAddComponent(r, c, k) ==
  CASE c = "years"   -> RefAddYears(r, k)
    [] c = "months"  -> RefAddMonths(r, k)
    [] c = "weeks"   -> [r EXCEPT !.day = @ + 7 * k]
    [] c = "days"    -> [r EXCEPT !.day = @ + k]
    [] c = "hours"   -> RefAddUnits(r, k, HOUR_SECONDS)
    [] c = "minutes" -> RefAddUnits(r, k, 60)
    [] c = "seconds" -> RefAddUnits(r, k, 1)

(* A rule's duration component read from XML (pcmk__add_time_from_xml()); *)
(* the instant should move only when the call succeeds.                   *)
AddFromXml(c, x) ==
  LET res == pcmk__add_time_from_xml(t, c, x)
  IN  Apply(res.t, IF res.rc = "OK" /\ x.kind = "num"
                     THEN RefAddComponent(ref, c, x.val) ELSE ref)

(* Calendar operations: days, weeks, months and durations.                 *)
NextCalendar ==
  \/ \E x \in DayExtras : AddDays(x)
  \/ \E x \in WeekExtras : AddWeeks(x)
  \/ \E x \in MonthExtras : AddMonths(x)
  \/ \E v \in Durations : Add(v) \/ Subtract(v)

(* Calendar operations and years.                                          *)
NextYears ==
  \/ NextCalendar
  \/ \E x \in YearExtras : AddYears(x)

(* Clock operations: seconds, minutes, hours and days.                     *)
NextClock ==
  \/ \E x \in SecondExtras : AddSeconds(x)
  \/ \E x \in MinuteExtras : AddMinutes(x)
  \/ \E x \in HourExtras : AddHours(x)
  \/ \E x \in DayExtras : AddDays(x)

(* Rule duration components read from XML.                                *)
NextXml == \E ci \in XmlInputs : AddFromXml(ci[1], ci[2])

(* Clock operations interleaved with rule components read from XML.       *)
NextClockXml == NextClock \/ NextXml

SpecCalendar == Init /\ [][NextCalendar]_vars
SpecYears    == Init /\ [][NextYears]_vars
SpecClock    == Init /\ [][NextClock]_vars

-----------------------------------------------------------------------------
TypeOK ==
  /\ t \in [years : 1 .. 10000, months : {0}, days : 1 .. 366,
            seconds : 0 .. DAY_SECONDS, offset : {0}, duration : BOOLEAN]
  /\ ref \in [day : Int, sec : 0 .. DAY_SECONDS - 1]
  /\ steps \in 0 .. MaxSteps

(***************************************************************************)
(* Day, week, month and duration arithmetic (crm_time_add_days/_weeks/     *)
(* _months, crm_time_add/_subtract, through the Gregorian/ordinal          *)
(* conversions) lands on the calendar date and time the reference gives,   *)
(* in normal form (ordinal day within the year, second within the day).    *)
(***************************************************************************)
DateMatchesReference ==
  LET c == RefCivil(ref.day)
  IN  /\ t.years = c.y
      /\ t.days = RefDaysBeforeMonth(c.y, c.m) + c.d
      /\ t.seconds = ref.sec

(***************************************************************************)
(* crm_time_get_isoweek() gives the ISO 8601 week date of the reference    *)
(* day, across the year boundaries where a week belongs to the previous   *)
(* or the next year.                                                       *)
(***************************************************************************)
IsoWeekMatchesReference ==
  crm_time_get_isoweek(t) = RefIsoWeek(ref.day)

(***************************************************************************)
(* Seconds, minutes, hours and days arithmetic (crm_time_add_seconds()     *)
(* carrying whole days into crm_time_add_days()) keeps the instant the     *)
(* object denotes, as crm_time_get_seconds() reads it.                     *)
(***************************************************************************)
InstantMatchesReference == Instant(t) = ref

=============================================================================
