------------------------------ MODULE IsoText ------------------------------
(***************************************************************************)
(* Date/time texts of src/lib/common/iso8601.c: crm_time_new() and         *)
(* parse_date() with crm_time_parse(), crm_time_parse_sec() and            *)
(* crm_time_parse_offset(), the date and time-of-day branch of             *)
(* time_as_string_common() that crm_time_as_string() prints with, and     *)
(* ha_set_tm_time(), which turns the host's struct tm into a time object.  *)
(*                                                                         *)
(* A text is kept as what the sscanf() calls read from it, not character  *)
(* by character: a record [date, time, zone].                             *)
(*   date: [form, y, a, b] with form "ymd" (YYYY-MM-DD or YYYYMMDD: y, a =  *)
(*         month, b = day), "yd" (YYYY-DDD: a = day), "ywd" (YYYY-Www-D:   *)
(*         a = week, b = weekday), "none" (a time alone, "Thh:mm:ss" or    *)
(*         "hh:mm:ss"), "epoch", or "bad" (no form matches);              *)
(*   time: [kind, h, m, s], kind "absent" (nothing after the date), "bad"  *)
(*         (sscanf() reads no hour) or "hms" (h, m, s as read by either   *)
(*         sscanf() of crm_time_parse_sec());                             *)
(*   zone: [kind, neg, hms], kind "local" (no zone), "Z", "junk" (a space, *)
(*         '+' or '-' was found and after the spaces comes another        *)
(*         character) or "offset" (a sign, or none, and hms as for time).  *)
(*                                                                         *)
(* A duration text "P..." is the sequence of what crm_time_parse_duration() *)
(* reads after the P: tokens [t, n, u], t "T" (the time designator),      *)
(* "nonum" (parse_int() reads no number: a fraction, no digit, or more   *)
(* than INT_MAX) or "num" (the number n, then the character u after it:  *)
(* a unit Y, M, W, D, H, S, "end" for the end of the text, or "bad").     *)
(***************************************************************************)
EXTENDS Integers, Sequences, SequencesExt

CONSTANT
  LocalTm   (* localtime(time(NULL)) of the host: [tm_year, tm_yday,
               tm_hour, tm_min, tm_sec, gmtoff]                            *)

Iso == INSTANCE Iso8601
         WITH t <- 0, ref <- 0, steps <- 0,
              Years <- {}, InitSeconds <- {}, DayExtras <- {},
              WeekExtras <- {}, MonthExtras <- {}, YearExtras <- {},
              SecondExtras <- {}, MinuteExtras <- {}, HourExtras <- {},
              Durations <- {}, XmlInputs <- {}, MaxSteps <- 0

HOUR_SECONDS == Iso!HOUR_SECONDS
DAY_SECONDS  == Iso!DAY_SECONDS

Text(date, time, zone) == [date |-> date, time |-> time, zone |-> zone]
Date(form, y, a, b)    == [form |-> form, y |-> y, a |-> a, b |-> b]
HMS(h, m, s)           == [kind |-> "hms", h |-> h, m |-> m, s |-> s]
NoDate                 == Date("none", 0, 0, 0)
NoTime                 == [HMS(0, 0, 0) EXCEPT !.kind = "absent"]
BadTime                == [HMS(0, 0, 0) EXCEPT !.kind = "bad"]
Zone(kind)             == [kind |-> kind, neg |-> FALSE, hms |-> HMS(0, 0, 0)]
Offset(neg, hms)       == [kind |-> "offset", neg |-> neg, hms |-> hms]
NoText                 == Text(NoDate, NoTime, Zone("Z"))   (* a placeholder *)

(* Mutant: QB_ABS() left out, so a negative offset prints negative parts. *)
crm_time_get_sec_signed(sec) ==
  HMS(sec \div HOUR_SECONDS, (sec % HOUR_SECONDS) \div 60, sec % 60)

(* crm_time_get_sec(): hours, minutes and seconds of |sec|.               *)
crm_time_get_sec(sec) ==
  LET a == IF sec < 0 THEN -sec ELSE sec
  IN  HMS(a \div HOUR_SECONDS, (a % HOUR_SECONDS) \div 60, a % 60)

(* crm_time_get_timeofday(): the time of day of `seconds'; always TRUE.   *)
crm_time_get_timeofday(dt) == crm_time_get_sec(dt.seconds)

(* The offset computation of ha_set_tm_time() and of                       *)
(* crm_time_parse_offset(NULL): whole hours, then the minutes left over,   *)
(* both in C division; the latter negates negative minutes of a negative   *)
(* hour count before adding them.                                          *)
TmOffset(gmtoff) ==
  LET h == Iso!CDiv(gmtoff, HOUR_SECONDS)
  IN  HOUR_SECONDS * h + 60 * Iso!CDiv(gmtoff - HOUR_SECONDS * h, 60)

LocalParseOffset(gmtoff) ==
  LET h == Iso!CDiv(gmtoff, HOUR_SECONDS)
      m == Iso!CDiv(gmtoff - HOUR_SECONDS * h, 60)
  IN  HOUR_SECONDS * h + 60 * (IF h < 0 /\ m < 0 THEN -m ELSE m)

(* ha_set_tm_time(): a time object from a struct tm.                      *)
ha_set_tm_time(tm) ==
  LET y == IF tm.tm_year > 0
             THEN Iso!crm_time_add_years(Iso!TimeRecord(1900, 0, 0, 0, 0, FALSE),
                                         tm.tm_year)
             ELSE Iso!Undefined
  IN  [y EXCEPT !.days    = IF tm.tm_yday >= 0 THEN 1 + tm.tm_yday ELSE 0,
                !.seconds = (IF tm.tm_hour >= 0 THEN HOUR_SECONDS * tm.tm_hour ELSE 0)
                            + (IF tm.tm_min >= 0 THEN 60 * tm.tm_min ELSE 0)
                            + (IF tm.tm_sec >= 0 THEN tm.tm_sec ELSE 0),
                !.offset  = TmOffset(tm.gmtoff)]

(* crm_time_new(NULL): pcmk__copy_timet(time(NULL)) in local time.       *)
crm_time_new_now == ha_set_tm_time(LocalTm)

(* crm_time_parse_sec(): [ok, val]; 24:00:00 is accepted as 86400.        *)
crm_time_parse_sec(tm) ==
  IF tm.kind = "bad" THEN [ok |-> FALSE, val |-> 0]
  ELSE [ok  |-> /\ (tm.h < 24 \/ (tm.h = 24 /\ tm.m = 0 /\ tm.s = 0))
                /\ tm.m < 60 /\ tm.s < 60,
        val |-> tm.h * HOUR_SECONDS + tm.m * 60 + tm.s]

(* crm_time_parse_offset(): no zone is the host's offset, "Z" is UTC, a    *)
(* sign or digit starts an hh:mm:ss, and anything else reads as 0.        *)
crm_time_parse_offset(zone) ==
  CASE zone.kind = "local" -> [ok |-> TRUE, val |-> LocalParseOffset(LocalTm.gmtoff)]
    [] zone.kind \in {"Z", "junk"} -> [ok |-> TRUE, val |-> 0]
    [] OTHER ->
         LET p == crm_time_parse_sec(zone.hms)
         IN  [ok |-> p.ok, val |-> IF zone.neg THEN -p.val ELSE p.val]

(* crm_time_parse(): the time of day and offset of a_time; 24:00:00 is     *)
(* 00:00:00 of the next day.                                              *)
crm_time_parse(dt, time, zone) ==
  LET sec == crm_time_parse_sec(time)
      off == crm_time_parse_offset(zone)
      d1  == [dt EXCEPT !.seconds = sec.val, !.offset = off.val]
  IN  [ok |-> sec.ok /\ off.ok,
       dt |-> IF sec.val = DAY_SECONDS
                THEN Iso!crm_time_add_days([d1 EXCEPT !.seconds = 0], 1)
                ELSE d1]

(* crm_time_check().                                                       *)
crm_time_check(dt) ==
  /\ dt.days > 0 /\ dt.days <= Iso!year_days(dt.years)
  /\ dt.seconds >= 0 /\ dt.seconds < DAY_SECONDS

(* The date part of parse_date(): the form's checks, then the time object  *)
(* it sets; a week date is built as the code builds it, from day 0 of the *)
(* year by crm_time_add_days().                                          *)
DateValid(d) ==
  CASE d.form = "ymd" -> /\ d.a >= 1 /\ d.a <= 12
                         /\ d.y >= 1 /\ d.y <= Iso!INT_MAX
                         /\ d.b >= 1 /\ d.b <= Iso!crm_time_days_in_month(d.a, d.y)
    [] d.form = "yd"  -> /\ d.y >= 1 /\ d.y <= Iso!INT_MAX
                         /\ d.a >= 1 /\ d.a <= Iso!year_days(d.y)
    [] d.form = "ywd" -> /\ d.a >= 1 /\ d.a <= Iso!crm_time_weeks_in_year(d.y)
                         /\ d.b >= 1 /\ d.b <= 7
    [] d.form = "none" -> TRUE
    [] d.form = "bad"  -> FALSE

(* Mutant: a year whose 1 January is a Thursday taken to start in week 52. *)
WeekDate_thursday(y, week, day) ==
  LET jan1 == Iso!crm_time_january1_weekday(y)
      d0   == Iso!crm_time_add_days([Iso!Undefined EXCEPT !.years = y], (week - 1) * 7)
      d1   == Iso!crm_time_add_days(d0, IF jan1 < 4 THEN 1 - jan1 ELSE 8 - jan1)
  IN  Iso!crm_time_add_days(d1, day)

WeekDate(y, week, day) ==
  LET jan1 == Iso!crm_time_january1_weekday(y)
      d0   == Iso!crm_time_add_days([Iso!Undefined EXCEPT !.years = y], (week - 1) * 7)
      d1   == Iso!crm_time_add_days(d0, IF jan1 <= 4 THEN 1 - jan1 ELSE 8 - jan1)
  IN  Iso!crm_time_add_days(d1, day)

DateStart(d) ==
  CASE d.form = "ymd"  -> Iso!TimeRecord(d.y, 0, Iso!get_ordinal_days(d.y, d.a, d.b),
                                         0, 0, FALSE)
    [] d.form = "yd"   -> Iso!TimeRecord(d.y, 0, d.a, 0, 0, FALSE)
    [] d.form = "ywd"  -> WeekDate(d.y, d.a, d.b)
    [] d.form = "none" -> crm_time_new_now

(* parse_date(), and so crm_time_new() of a text: [ok, dt], ok FALSE for   *)
(* NULL.  "epoch" returns 1970-001 at once; a date with nothing after it   *)
(* is not given to crm_time_parse() and keeps offset 0.                   *)
parse_date(x) ==
  IF x.date.form = "epoch"
    THEN [ok |-> TRUE, dt |-> Iso!TimeRecord(1970, 0, 1, 0, 0, FALSE)]
  ELSE IF ~DateValid(x.date) THEN [ok |-> FALSE, dt |-> Iso!Undefined]
  ELSE LET p == IF x.time.kind = "absent"
                  THEN [ok |-> TRUE, dt |-> DateStart(x.date)]
                  ELSE crm_time_parse(DateStart(x.date), x.time, x.zone)
       IN  [ok |-> p.ok /\ crm_time_check(p.dt), dt |-> p.dt]

(* time_as_string_common() with crm_time_log_date and                      *)
(* crm_time_log_timeofday among the flags: the text it prints.  Without    *)
(* crm_time_log_with_timezone a time with an offset is printed in UTC.    *)
(* A week date crm_time_get_isoweek() refuses leaves the date out.        *)
time_as_string_common(dt, flags) ==
  LET u    == IF dt.offset # 0 /\ "with_timezone" \notin flags
                THEN Iso!crm_get_utc_time(dt) ELSE dt
      g    == Iso!crm_time_get_gregorian(u)
      w    == Iso!crm_time_get_isoweek(u)
      date == CASE "weeks" \in flags   -> IF u.days > 0 THEN Date("ywd", w[1], w[2], w[3])
                                                        ELSE NoDate
                [] "ordinal" \in flags -> Date("yd", u.years, u.days, 0)
                [] OTHER               -> Date("ymd", g[1], g[2], g[3])
      zone == IF "with_timezone" \in flags /\ u.offset # 0
                THEN Offset(u.offset < 0, [crm_time_get_sec(u.offset) EXCEPT !.s = 0])
                ELSE Zone("Z")
  IN  Text(date, crm_time_get_timeofday(u), zone)

-----------------------------------------------------------------------------
(***************************************************************************)
(* Durations.                                                              *)
(***************************************************************************)
(* s + k * n in long long, and whether it fits in int: the sum is formed   *)
(* from 16-bit halves so that no intermediate value leaves TLC's range.   *)
LLSum(s, n, k) ==
  LET lo == (s % 65536) + k * (n % 65536)
      hi == (s \div 65536) + k * (n \div 65536) + (lo \div 65536)
      ok == hi >= -32768 /\ hi <= 32767
  IN  [ok |-> ok, val |-> IF ok THEN hi * 65536 + (lo % 65536) ELSE 0]

Token(t, n, u) == [t |-> t, n |-> n, u |-> u]

(* Seconds per unit of the units added to `seconds', and days per unit of *)
(* those added to `days'.                                                  *)
SecondUnits == [M |-> 60, H |-> HOUR_SECONDS, S |-> 1]
DayUnits    == [W |-> 7, D |-> 1]

(* Mutant: minutes taken as months after the T as well.                    *)
DurationStep_months(acc, tok) ==
  IF ~acc.ok THEN acc
  ELSE CASE tok.t = "T"     -> [acc EXCEPT !.is_time = TRUE]
         [] tok.t = "nonum" -> [acc EXCEPT !.ok = FALSE]
         [] tok.u = "Y"     -> [acc EXCEPT !.diff.years = tok.n]
         [] tok.u = "M"     -> [acc EXCEPT !.diff.months = tok.n]
         [] tok.u \in DOMAIN SecondUnits ->
              LET r == LLSum(acc.diff.seconds, tok.n, SecondUnits[tok.u])
              IN  [acc EXCEPT !.ok = r.ok, !.diff.seconds = r.val]
         [] tok.u \in DOMAIN DayUnits ->
              LET r == LLSum(acc.diff.days, tok.n, DayUnits[tok.u])
              IN  [acc EXCEPT !.ok = r.ok, !.diff.days = r.val]
         [] OTHER -> [acc EXCEPT !.ok = FALSE]

(* Mutant: weeks and days set, as years are, instead of added.             *)
DurationStep_days_set(acc, tok) ==
  IF ~acc.ok THEN acc
  ELSE CASE tok.t = "T"     -> [acc EXCEPT !.is_time = TRUE]
         [] tok.t = "nonum" -> [acc EXCEPT !.ok = FALSE]
         [] tok.u = "Y"     -> [acc EXCEPT !.diff.years = tok.n]
         [] tok.u = "M" /\ ~acc.is_time -> [acc EXCEPT !.diff.months = tok.n]
         [] tok.u \in DOMAIN SecondUnits ->
              LET r == LLSum(acc.diff.seconds, tok.n, SecondUnits[tok.u])
              IN  [acc EXCEPT !.ok = r.ok, !.diff.seconds = r.val]
         [] tok.u \in DOMAIN DayUnits ->
              LET r == LLSum(0, tok.n, DayUnits[tok.u])
              IN  [acc EXCEPT !.ok = r.ok, !.diff.days = r.val]
         [] OTHER -> [acc EXCEPT !.ok = FALSE]

(* One pass of the loop of crm_time_parse_duration(): years and months are *)
(* set, weeks and days added to `days', hours, minutes (M after the T) and *)
(* seconds to `seconds', each sum checked against int; anything else, or  *)
(* no unit, makes the text invalid.                                        *)
DurationStep(acc, tok) ==
  IF ~acc.ok THEN acc
  ELSE CASE tok.t = "T"     -> [acc EXCEPT !.is_time = TRUE]
         [] tok.t = "nonum" -> [acc EXCEPT !.ok = FALSE]
         [] tok.u = "Y"     -> [acc EXCEPT !.diff.years = tok.n]
         [] tok.u = "M" /\ ~acc.is_time -> [acc EXCEPT !.diff.months = tok.n]
         [] tok.u \in DOMAIN SecondUnits ->
              LET r == LLSum(acc.diff.seconds, tok.n, SecondUnits[tok.u])
              IN  [acc EXCEPT !.ok = r.ok, !.diff.seconds = r.val]
         [] tok.u \in DOMAIN DayUnits ->
              LET r == LLSum(acc.diff.days, tok.n, DayUnits[tok.u])
              IN  [acc EXCEPT !.ok = r.ok, !.diff.days = r.val]
         [] OTHER -> [acc EXCEPT !.ok = FALSE]

(* crm_time_parse_duration() of "P" followed by toks: [ok, dt].  Nothing   *)
(* after the P, or only zero amounts, is invalid.                          *)
crm_time_parse_duration(toks) ==
  LET r == FoldLeft(DurationStep, [ok |-> TRUE, is_time |-> FALSE, diff |-> Iso!Undefined],
                    toks)
  IN  [ok |-> toks # <<>> /\ r.ok /\ Iso!crm_time_is_defined(r.diff),
       dt |-> [r.diff EXCEPT !.duration = TRUE]]

(* A part of a period text: a date/time text, a duration text, or none (no *)
(* '/' and nothing after it).                                              *)
Item(kind, text, toks) == [kind |-> kind, text |-> text, toks |-> toks]
Period(first, second)  == [first |-> first, second |-> second]
Null                   == [ok |-> FALSE, dt |-> Iso!Undefined]

(* A period built from its start, end and duration: both ends must pass   *)
(* crm_time_check().                                                       *)
PeriodResult(ok, start, end, diff) ==
  [ok |-> ok /\ crm_time_check(start) /\ crm_time_check(end),
   start |-> start, end |-> end, diff |-> diff]

Refused == [ok |-> FALSE, start |-> Iso!Undefined, end |-> Iso!Undefined, diff |-> Null]

(* start/end: no duration.                                                 *)
StartEnd(s, e) == PeriodResult(s.ok /\ e.ok, s.dt, e.dt, Null)

(* start/duration, or a duration alone from crm_time_new(NULL): the end is *)
(* crm_time_add(start, diff).                                              *)
StartDuration(s, d) == PeriodResult(s.ok /\ d.ok, s.dt, Iso!crm_time_add(s.dt, d.dt), d)

(* duration/end: the start is crm_time_subtract(end, diff).               *)
DurationEnd(d, e) == PeriodResult(d.ok /\ e.ok, Iso!crm_time_subtract(e.dt, d.dt), e.dt, d)

(* crm_time_parse_period(): a first part starting with 'P' is read by     *)
(* crm_time_parse_duration(), any other by parse_date(), and so is the   *)
(* part after the '/'.  Two durations, or a start alone, are invalid.     *)
crm_time_parse_period(p) ==
  CASE p.first.kind = "date" /\ p.second.kind = "date" ->
         StartEnd(parse_date(p.first.text), parse_date(p.second.text))
    [] p.first.kind = "date" /\ p.second.kind = "duration" ->
         StartDuration(parse_date(p.first.text), crm_time_parse_duration(p.second.toks))
    [] p.first.kind = "duration" /\ p.second.kind = "date" ->
         DurationEnd(crm_time_parse_duration(p.first.toks), parse_date(p.second.text))
    [] p.first.kind = "duration" /\ p.second.kind = "none" ->
         StartDuration([ok |-> TRUE, dt |-> crm_time_new_now],
                       crm_time_parse_duration(p.first.toks))
    [] OTHER -> Refused


-----------------------------------------------------------------------------
(***************************************************************************)
(* How ISO 8601 reads a text, written from the standard's rules with the   *)
(* reference calendar of Iso8601, not from the code: [ok, inst, off], the  *)
(* UTC instant as [day, sec] and the offset east of UTC.  A time with no   *)
(* zone is local time, at the host's tm_gmtoff; a time alone is on the     *)
(* host's current date; a date alone is taken as its midnight in UTC, as  *)
(* the rule evaluator treats one; "epoch" is 1970-01-01T00:00:00Z.         *)
(***************************************************************************)
RefTimeValid(tm) ==
  /\ tm.kind = "hms"
  /\ \/ tm.h < 24 /\ tm.m < 60 /\ tm.s < 60
     \/ tm = HMS(24, 0, 0)

RefSeconds(tm) == tm.h * HOUR_SECONDS + tm.m * 60 + tm.s

RefZone(zone) ==
  CASE zone.kind = "local" -> [ok |-> TRUE, off |-> LocalTm.gmtoff]
    [] zone.kind = "Z"     -> [ok |-> TRUE, off |-> 0]
    [] zone.kind = "junk"  -> [ok |-> FALSE, off |-> 0]
    [] OTHER               -> [ok  |-> /\ zone.hms.kind = "hms" /\ zone.hms.h < 24
                                  /\ zone.hms.m < 60 /\ zone.hms.s < 60,
                          off |-> (IF zone.neg THEN -1 ELSE 1) * RefSeconds(zone.hms)]

RefYearDays(y) == IF Iso!RefLeap(y) THEN 366 ELSE 365

(* Week 1 is the week with the year's first Thursday, so its Monday is the *)
(* Monday on or before 4 January; the last week is the week of 28 December.*)
RefWeekOneMonday(y) ==
  LET n4 == Iso!RefDayNumber([y |-> y, m |-> 1, d |-> 4]) IN n4 - ((n4 - 1) % 7)

RefWeeksInYear(y) == Iso!RefIsoWeek(Iso!RefDayNumber([y |-> y, m |-> 12, d |-> 28]))[2]

RefDate(d) ==
  CASE d.form = "ymd"  -> [ok  |-> /\ d.y >= 1 /\ d.a \in 1 .. 12
                                   /\ d.b >= 1 /\ d.b <= Iso!RefMonthLength(d.y, d.a),
                           day |-> Iso!RefDayNumber([y |-> d.y, m |-> d.a, d |-> d.b])]
    [] d.form = "yd"   -> [ok  |-> d.y >= 1 /\ d.a \in 1 .. RefYearDays(d.y),
                           day |-> Iso!RefDaysBeforeYear(d.y) + d.a]
    [] d.form = "ywd"  -> [ok  |-> d.y >= 1 /\ d.a \in 1 .. RefWeeksInYear(d.y)
                                   /\ d.b \in 1 .. 7,
                           day |-> RefWeekOneMonday(d.y) + 7 * (d.a - 1) + d.b - 1]
    [] d.form = "none" -> [ok  |-> TRUE,
                           day |-> Iso!RefDaysBeforeYear(1900 + LocalTm.tm_year)
                                     + LocalTm.tm_yday + 1]
    [] d.form = "epoch" -> [ok |-> TRUE,
                            day |-> Iso!RefDayNumber([y |-> 1970, m |-> 1, d |-> 1])]
    [] d.form = "bad"  -> [ok |-> FALSE, day |-> 0]

RefText(x) ==
  LET d == RefDate(x.date)
      z == RefZone(x.zone)
  IN  IF x.time.kind = "absent"
        THEN [ok |-> d.ok, inst |-> [day |-> d.day, sec |-> 0], off |-> 0]
        ELSE [ok   |-> d.ok /\ RefTimeValid(x.time) /\ z.ok,
              inst |-> Iso!RefAddSeconds(Iso!RefAddSeconds([day |-> d.day, sec |-> 0],
                                                           RefSeconds(x.time)),
                                         -z.off),
              off  |-> z.off]

(***************************************************************************)
(* An ISO 8601 duration PnYnMnWnDTnHnMnS: each unit at most once, in that  *)
(* order, with the T before the time units and at least one of them after *)
(* it, and numbers not negative.  [ok, years, months, days, seconds]; a   *)
(* total crm_time_t's int fields cannot hold is refused.                   *)
(***************************************************************************)
RefDuration(toks) ==
  LET n      == Len(toks)
      tpos   == {i \in 1 .. n : toks[i].t = "T"}
      Rank(i) ==
        CASE toks[i].t = "T" -> 5
          [] toks[i].t = "num" /\ toks[i].u = "M" ->
               IF \E j \in tpos : j < i THEN 7 ELSE 2
          [] toks[i].t = "num" ->
               CASE toks[i].u = "Y" -> 1 [] toks[i].u = "W" -> 3 [] toks[i].u = "D" -> 4
                 [] toks[i].u = "H" -> 6 [] toks[i].u = "S" -> 8 [] OTHER -> 0
          [] OTHER -> 0
      Amount(r) == IF \E i \in 1 .. n : Rank(i) = r
                     THEN toks[CHOOSE i \in 1 .. n : Rank(i) = r].n ELSE 0
      secs   == Iso!RefAddUnits(Iso!RefAddUnits([day |-> 0, sec |-> Amount(8)],
                                                Amount(7), 60),
                                Amount(6), HOUR_SECONDS)
      fits   == secs.day < 24855 \/ (secs.day = 24855 /\ secs.sec <= 11647)
  IN  [ok      |-> /\ n >= 1
                   /\ \A i \in 1 .. n : Rank(i) > 0 /\ (toks[i].t = "num" => toks[i].n >= 0)
                   /\ \A i, j \in 1 .. n : i < j => Rank(i) < Rank(j)
                   /\ Rank(n) # 5
                   /\ Amount(3) <= (Iso!INT_MAX - Amount(4)) \div 7
                   /\ fits,
       years   |-> Amount(1), months |-> Amount(2),
       days    |-> IF Amount(3) <= (Iso!INT_MAX - Amount(4)) \div 7
                     THEN 7 * Amount(3) + Amount(4) ELSE 0,
       seconds |-> IF fits THEN secs.day * DAY_SECONDS + secs.sec ELSE 0]

(***************************************************************************)
(* The same text read as the parser's own comment promises ("we're not    *)
(* strict about the order"): units in any order and any number of times, *)
(* amounts with a sign, and a T anywhere that only makes a later M mean   *)
(* minutes.  Years and months are the last amount given for them; weeks   *)
(* and days add up to `days', hours, minutes and seconds to `seconds'.    *)
(* Every partial sum must fit an int, and an all-zero duration is none.   *)
(***************************************************************************)
LenientDuration(toks) ==
  LET n          == Len(toks)
      Zero       == [day |-> 0, sec |-> 0]
      AfterT(i)  == \E j \in 1 .. i - 1 : toks[j].t = "T"
      Is(i, u)   == toks[i].t = "num" /\ toks[i].u = u
      Minute(i)  == Is(i, "M") /\ AfterT(i)
      Month(i)   == Is(i, "M") /\ ~AfterT(i)
      SecUnit(i) == CASE Is(i, "H") -> HOUR_SECONDS [] Is(i, "S") -> 1
                      [] Minute(i) -> 60 [] OTHER -> 0
      DayUnit(i) == CASE Is(i, "W") -> 7 [] Is(i, "D") -> 1 [] OTHER -> 0
      Plus(a, b) == Iso!RefAddSeconds([day |-> a.day + b.day, sec |-> a.sec], b.sec)
      Secs(k)    == MapThenFoldSet(Plus, Zero,
                      LAMBDA i : Iso!RefAddUnits(Zero, toks[i].n, SecUnit(i)),
                      LAMBDA S : CHOOSE i \in S : TRUE, {i \in 1 .. k : SecUnit(i) > 0})
      Days(k)    == MapThenSumSet(LAMBDA i : DayUnit(i) * toks[i].n, {i \in 1 .. k : DayUnit(i) > 0})
      InInt(r)   == /\ r.day < 24855 \/ (r.day = 24855 /\ r.sec <= 11647)
                    /\ r.day > -24856 \/ (r.day = -24856 /\ r.sec >= 74752)
      LastOf(P(_)) == IF \E i \in 1 .. n : P(i)
                        THEN toks[CHOOSE i \in 1 .. n : P(i) /\ \A j \in 1 .. n : P(j) => j <= i].n
                        ELSE 0
      Given(i)   == toks[i].t = "T" \/ (toks[i].t = "num" /\ toks[i].u \in {"Y", "M", "W", "D", "H", "S"})
      years      == LastOf(LAMBDA i : Is(i, "Y"))
      months     == LastOf(Month)
      seconds    == Secs(n).day * DAY_SECONDS + Secs(n).sec
  IN  [ok      |-> /\ n >= 1
                   /\ \A i \in 1 .. n : Given(i)
                   /\ \A k \in 1 .. n : InInt(Secs(k)) /\ Days(k) >= -Iso!INT_MAX - 1
                                                       /\ Days(k) <= Iso!INT_MAX
                   /\ years # 0 \/ months # 0 \/ Days(n) # 0 \/ seconds # 0,
       years   |-> years, months |-> months, days |-> Days(n),
       seconds |-> IF InInt(Secs(n)) THEN seconds ELSE 0]

(* The host's current time: UTC instant and offset.                        *)
RefNow ==
  [ok   |-> TRUE,
   inst |-> Iso!RefAddSeconds([day |-> Iso!RefDaysBeforeYear(1900 + LocalTm.tm_year)
                                         + LocalTm.tm_yday + 1, sec |-> 0],
                              LocalTm.tm_hour * HOUR_SECONDS + LocalTm.tm_min * 60
                                + LocalTm.tm_sec - LocalTm.gmtoff),
   off  |-> LocalTm.gmtoff]

(* A duration applied to a date/time in its own local time (sign 1 from the *)
(* start, -1 from the end): the UTC instant reached.                        *)
RefShift(r, v, sign) ==
  Iso!RefAddSeconds(Iso!RefApplyDuration(Iso!RefAddSeconds(r.inst, r.off), v, sign),
                    -r.off)

(***************************************************************************)
(* An ISO 8601 time interval start/end, start/duration or duration/end; a  *)
(* duration alone runs from now.  The answer is [ok |-> FALSE] or the      *)
(* start and end as UTC instants and the duration (<<>> if none).          *)
(***************************************************************************)
RefAnswer(ok, start, end, diff) ==
  IF ok THEN [ok |-> TRUE, start |-> start, end |-> end, diff |-> diff]
        ELSE [ok |-> FALSE]

RefStartEnd(st, en)      == RefAnswer(st.ok /\ en.ok, st.inst, en.inst, <<>>)
RefStartDuration(st, d)  == RefAnswer(st.ok /\ d.ok, st.inst, RefShift(st, d, 1), <<d>>)
RefDurationEnd(d, en)    == RefAnswer(d.ok /\ en.ok, RefShift(en, d, -1), en.inst, <<d>>)

PeriodWith(p, Dur(_)) ==
  CASE p.first.kind = "date" /\ p.second.kind = "date" ->
         RefStartEnd(RefText(p.first.text), RefText(p.second.text))
    [] p.first.kind = "date" /\ p.second.kind = "duration" ->
         RefStartDuration(RefText(p.first.text), Dur(p.second.toks))
    [] p.first.kind = "duration" /\ p.second.kind = "date" ->
         RefDurationEnd(Dur(p.first.toks), RefText(p.second.text))
    [] p.first.kind = "duration" /\ p.second.kind = "none" ->
         RefStartDuration(RefNow, Dur(p.first.toks))
    [] OTHER -> [ok |-> FALSE]

(* ISO 8601's reading of an interval, and the lenient one.                  *)
RefPeriod(p)     == PeriodWith(p, RefDuration)
LenientPeriod(p) == PeriodWith(p, LenientDuration)

====
