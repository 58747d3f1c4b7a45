---------------------------- MODULE DurationText ----------------------------
(***************************************************************************)
(* The duration, seconds and epoch-seconds texts of time_as_string_common()*)
(* in lib/common/iso8601.c: duration_as_string(), sec_usec_as_string(),    *)
(* crm_time_get_sec(), crm_time_get_seconds() and                          *)
(* crm_time_get_seconds_since_epoch().                                     *)
(*                                                                         *)
(* A text is the sequence of pieces the code appends: a number with its    *)
(* printf format, or a word ("year"/"years", "(", ")", "-", ...).  Spaces  *)
(* and field widths are layout and left out.  A long long is kept as days  *)
(* and seconds (the printed number is 86400 * days + num), as a count of   *)
(* seconds since year 1 is beyond 32 bits.                                 *)
(***************************************************************************)
EXTENDS Integers, Sequences, FiniteSetsExt

CONSTANTS
  Calls,          \* arguments [dt, usec, flags] of time_as_string_common(); flags
                  \* is a subset of {"duration", "seconds", "epoch", "usecs"}
  TimespecCalls,  \* [ts, flags], ts = [fn, sec, nsec, gmtoff]: fn is "timespec"
                  \* (pcmk__timespec2str()) or "epoch" (pcmk__epoch2str()), then
                  \* the time and the UTC offset of the host's zone
  NoTimespec      \* no time_t given: a direct call

VARIABLES dt, usec, flags, ts, called, text
vars == <<dt, usec, flags, ts, called, text>>

Iso == INSTANCE Iso8601
         WITH t <- 0, ref <- 0, steps <- 0,
              Years <- {}, InitSeconds <- {}, DayExtras <- {},
              WeekExtras <- {}, MonthExtras <- {}, YearExtras <- {},
              SecondExtras <- {}, MinuteExtras <- {}, HourExtras <- {},
              Durations <- {}, XmlInputs <- {}, MaxSteps <- 0
Txt == INSTANCE IsoText WITH LocalTm <- [tm_year |-> 0, tm_yday |-> 0, tm_hour |-> 0,
                                          tm_min |-> 0, tm_sec |-> 0, gmtoff |-> 0]

Abs(n) == IF n < 0 THEN -n ELSE n          \* QB_ABS()

Piece(n, u, fmt) == [days |-> 0, num |-> n, frac |-> u, fmt |-> fmt]
LLPiece(v, u, fmt) == [days |-> v.days, num |-> v.sec, frac |-> u, fmt |-> fmt]
Num(n)  == Piece(n, 0, "%d")
Word(w) == Piece(0, 0, w)

(* pcmk__plural_s() *)
PluralS(n) == IF n = 1 THEN "" ELSE "s"

(* valid_sec_usec(): the precondition time_as_string_common() asserts *)
valid_sec_usec(sec, u) ==
  Abs(u) < 1000000 /\ (sec = 0 \/ u = 0 \/ ((sec < 0) = (u < 0)))

(* sec_usec_as_string(): "%lld.%06d" of sec and |usec|, with a '-' first   *)
(* when the seconds are 0 and the microseconds negative                    *)
(* The microseconds printed with their sign *)
sec_usec_as_string_signed_usec(v, u) ==
  (IF v.days = 0 /\ v.sec = 0 /\ u < 0 THEN <<Word("-")>> ELSE <<>>)
    \o <<LLPiece(v, u, "%lld.%06d")>>
sec_usec_as_string(v, u) ==
  (IF v.days = 0 /\ v.sec = 0 /\ u < 0 THEN <<Word("-")>> ELSE <<>>)
    \o <<LLPiece(v, Abs(u), "%lld.%06d")>>
LL(n) == [days |-> 0, sec |-> n]

(* A count and its unit word, printed when the count is not zero *)
Field(n, unit) == IF n # 0 THEN <<Num(n), Word(unit \o PluralS(n))>> ELSE <<>>

(* The seconds, printed when nothing was printed before them, or when     *)
(* they (or the shown microseconds) are not zero                          *)
SecondsPart(d, u, show, before) ==
  IF before = <<>> \/ d.seconds # 0 \/ (show /\ u # 0)
    THEN (IF show THEN sec_usec_as_string(LL(d.seconds), u) ELSE <<Num(d.seconds)>>)
         \o <<Word("second" \o PluralS(d.seconds))>>
    ELSE <<>>

(* The breakdown of a minute or more into hours, minutes and seconds of   *)
(* |seconds|; the word "second%s" takes its plural from dt->seconds        *)
Breakdown_usec_ignored(d, u, show) ==
  LET hms == Txt!crm_time_get_sec(d.seconds)
      sec == hms.s # 0
  IN  IF Abs(d.seconds) >= 60
        THEN <<Word("(")>> \o Field(hms.h, "hour") \o Field(hms.m, "minute")
             \o (IF sec THEN (IF show THEN sec_usec_as_string(LL(hms.s), Abs(u))
                                      ELSE <<Num(hms.s)>>)
                             \o <<Word("second" \o PluralS(d.seconds))>>
                        ELSE <<>>)
             \o <<Word(")")>>
        ELSE <<>>
Breakdown(d, u, show) ==
  LET hms == Txt!crm_time_get_sec(d.seconds)
      sec == hms.s # 0 \/ (show /\ Abs(u) # 0)    \* print_sec_component
  IN  IF Abs(d.seconds) >= 60
        THEN <<Word("(")>> \o Field(hms.h, "hour") \o Field(hms.m, "minute")
             \o (IF sec THEN (IF show THEN sec_usec_as_string(LL(hms.s), Abs(u))
                                      ELSE <<Num(hms.s)>>)
                             \o <<Word("second" \o PluralS(d.seconds))>>
                        ELSE <<>>)
             \o <<Word(")")>>
        ELSE <<>>

duration_as_string(d, u, show) ==
  LET head == Field(d.years, "year") \o Field(d.months, "month") \o Field(d.days, "day")
  IN  head \o SecondsPart(d, u, show, head) \o Breakdown(d, u, show)

(* The days of years 1..n the loop adds up: year_days() is 365, or 366 in *)
(* a leap year                                                             *)
YearsDays(n) == 365 * n + Cardinality({y \in 1..n : Iso!crm_time_leapyear(y)})

(* crm_time_get_seconds(): of the UTC copy, the days of every year before *)
(* `years', 30 days per month, the days before `days', and the seconds    *)
crm_time_get_seconds_le(d) ==
  LET utc == Iso!crm_get_utc_time(d)
  IN  [days |-> YearsDays(utc.years)
                + (IF utc.months > 0 THEN 30 * utc.months ELSE 0)
                + (IF utc.days > 0 THEN utc.days - 1 ELSE 0),
       sec  |-> utc.seconds]
crm_time_get_seconds(d) ==
  LET utc == Iso!crm_get_utc_time(d)
  IN  [days |-> YearsDays(utc.years - 1)
                + (IF utc.months > 0 THEN 30 * utc.months ELSE 0)
                + (IF utc.days > 0 THEN utc.days - 1 ELSE 0),
       sec  |-> utc.seconds]

(* EPOCH_SECONDS = 62135596800 = 719162 days *)
EPOCH_DAYS == 719162
crm_time_get_seconds_since_epoch(d) ==
  [crm_time_get_seconds(d) EXCEPT !.days = @ - EPOCH_DAYS]

(* time_as_string_common() up to its readable date/time branch, which     *)
(* IsoText models                                                         *)
time_as_string_common(d, u, fl) ==
  CASE ~Iso!crm_time_is_defined(d) -> <<Word("<undefined time>")>>
    [] "duration" \in fl -> duration_as_string(d, u, "usecs" \in fl)
    [] fl \cap {"seconds", "epoch"} # {} ->
         LET v == IF "seconds" \in fl THEN crm_time_get_seconds(d)
                                      ELSE crm_time_get_seconds_since_epoch(d)
         IN  IF "usecs" \in fl THEN sec_usec_as_string(v, u)
                               ELSE <<LLPiece(v, 0, "%lld")>>
    [] OTHER -> <<Word("readable")>>

(* crm_time_as_string(): no microseconds *)
crm_time_as_string(d, fl) == time_as_string_common(d, 0, fl)

(* localtime() of a time_t on a host whose zone is a fixed UTC offset: the *)
(* broken-down local time by the proleptic Gregorian calendar              *)
localtime(t, off) ==
  LET local == Iso!RefAddSeconds(Iso!RefAddSeconds([day |-> EPOCH_DAYS + 1, sec |-> 0], t), off)
      y     == Iso!RefCivil(local.day).y
  IN  [tm_year |-> y - 1900, tm_yday |-> local.day - Iso!RefDaysBeforeYear(y) - 1,
       tm_hour |-> local.sec \div 3600, tm_min |-> (local.sec % 3600) \div 60,
       tm_sec |-> local.sec % 60, gmtoff |-> off]

(* crm_time_set_timet(): ha_set_tm_time() of localtime() *)
crm_time_set_timet(t, off) == Txt!ha_set_tm_time(localtime(t, off))

(* pcmk__timespec2str(): the microseconds are tv_nsec / QB_TIME_NS_IN_USEC *)
pcmk__timespec2str_msec(x, fl) ==
  time_as_string_common(crm_time_set_timet(x.sec, x.gmtoff), x.nsec \div 1000000, fl)
pcmk__timespec2str(x, fl) ==
  time_as_string_common(crm_time_set_timet(x.sec, x.gmtoff), x.nsec \div 1000, fl)

(* pcmk__epoch2str(): ctime() for no flags, else crm_time_as_string() *)
pcmk__epoch2str(x, fl) ==
  IF fl = {} THEN <<Word("ctime")>>
  ELSE crm_time_as_string(crm_time_set_timet(x.sec, x.gmtoff), fl)

-----------------------------------------------------------------------------
Init ==
  /\ \/ \E c \in Calls :
          /\ dt = c.dt /\ usec = c.usec /\ flags = c.flags /\ ts = NoTimespec
          /\ valid_sec_usec(dt.seconds, usec)
     \/ \E c \in TimespecCalls :
          /\ ts = c.ts /\ flags = c.flags
          /\ dt = Iso!Undefined /\ usec = 0
  /\ called = FALSE
  /\ text = <<>>

(* One call of time_as_string_common(dt, usec, flags) *)
AsString ==
  /\ ~called /\ ts = NoTimespec
  /\ called' = TRUE
  /\ text' = time_as_string_common(dt, usec, flags)
  /\ UNCHANGED <<dt, usec, flags, ts>>

(* One call of pcmk__timespec2str(&ts, flags) *)
Timespec2Str ==
  /\ ~called /\ ts # NoTimespec /\ ts.fn = "timespec"
  /\ called' = TRUE
  /\ text' = pcmk__timespec2str(ts, flags)
  /\ UNCHANGED <<dt, usec, flags, ts>>

(* One call of pcmk__epoch2str(&ts.sec, flags) *)
Epoch2Str ==
  /\ ~called /\ ts # NoTimespec /\ ts.fn = "epoch"
  /\ called' = TRUE
  /\ text' = pcmk__epoch2str(ts, flags)
  /\ UNCHANGED <<dt, usec, flags, ts>>

Next == AsString \/ Timespec2Str \/ Epoch2Str
Spec == Init /\ [][Next]_vars

-----------------------------------------------------------------------------
Formats == {"%d", "%lld", "%lld.%06d", "-", "(", ")", "<undefined time>", "readable", "ctime"}
             \cup {w \o s : w \in {"year", "month", "day", "hour", "minute", "second"},
                            s \in {"", "s"}}

TypeOK ==
  /\ called \in BOOLEAN
  /\ valid_sec_usec(dt.seconds, usec)
  /\ \A i \in DOMAIN text : text[i].fmt \in Formats /\ text[i].frac \in 0..999999

(* Reading a text back: the number before the first word of a unit, with a *)
(* '-' printed before it; a unit not printed reads as zero.                *)
Value(neg, s, u) == [neg |-> neg, s |-> s, u |-> u]
Zero == Value(FALSE, 0, 0)
Signed(v) == IF v.neg THEN -v.s ELSE v.s
UnitAt(tx, unit) == {i \in DOMAIN tx : i > 1 /\ tx[i].fmt \in {unit, unit \o "s"}}
ReadUnit(tx, unit) ==
  IF UnitAt(tx, unit) = {} THEN Zero
  ELSE LET i == Min(UnitAt(tx, unit))
       IN  Value(tx[i - 1].num < 0 \/ (i > 2 /\ tx[i - 2].fmt = "-"),
                 Abs(tx[i - 1].num), tx[i - 1].frac)
Open(tx) == {i \in DOMAIN tx : tx[i].fmt = "("}
Outer(tx) == IF Open(tx) = {} THEN tx ELSE SubSeq(tx, 1, Min(Open(tx)) - 1)
Inner(tx) == IF Open(tx) = {} THEN <<>> ELSE SubSeq(tx, Min(Open(tx)) + 1, Len(tx) - 1)

(* A duration's text says what the duration is: duration_as_string()      *)
(* prints the years, months and days it has, the seconds (with their sign,*)
(* also when only the microseconds are negative, and the microseconds when *)
(* asked for), never an empty text, and for a minute or more a            *)
(* parenthesised breakdown whose hours, minutes and seconds (each below    *)
(* its unit) add up to |seconds| with the same microseconds.              *)
DurationTextDenotes ==
  called /\ "duration" \in flags /\ Iso!crm_time_is_defined(dt) =>
    LET show == "usecs" \in flags
        out  == Outer(text)
        inner == Inner(text)
        secs == ReadUnit(out, "second")
        h == ReadUnit(inner, "hour")  m == ReadUnit(inner, "minute")  s == ReadUnit(inner, "second")
    IN  /\ text # <<>>
        /\ Signed(ReadUnit(out, "year")) = dt.years
        /\ Signed(ReadUnit(out, "month")) = dt.months
        /\ Signed(ReadUnit(out, "day")) = dt.days
        /\ secs = Value(dt.seconds < 0 \/ (show /\ usec < 0), Abs(dt.seconds),
                        IF show THEN Abs(usec) ELSE 0)
        /\ (Open(text) # {}) = (Abs(dt.seconds) >= 60)
        /\ Open(text) # {} =>
             /\ text[Len(text)].fmt = ")"
             /\ ~h.neg /\ ~m.neg /\ ~s.neg /\ m.s < 60 /\ s.s < 60
             /\ h.s * 3600 + m.s * 60 + s.s = Abs(dt.seconds)
             /\ s.u = secs.u

(* The count of seconds since 0001-01-01 (or since the epoch) of a date   *)
(* in days and seconds, normalised so that seconds is below a day         *)
Norm(days, sec) == [days |-> days + sec \div Iso!DAY_SECONDS, sec |-> sec % Iso!DAY_SECONDS]

(* A date printed as seconds is the instant it denotes: the number         *)
(* crm_time_get_seconds() (or the since-epoch variant) prints, after the   *)
(* UTC shift, the per-year loop, the day count and the epoch constant, is  *)
(* the count of seconds from 0001-01-01T00:00:00Z (or 1970-01-01) to the  *)
(* date's UTC instant, followed by the given microseconds when asked for;  *)
(* the digits after the point of a negative number ("-1.5") count away     *)
(* from zero.                                                              *)
SecondsTextDenotes ==
  called /\ "duration" \notin flags /\ flags \cap {"seconds", "epoch"} # {}
         /\ Iso!crm_time_is_defined(dt) =>
    LET r    == Iso!UtcInstant(dt)
        from == IF "seconds" \in flags THEN 1 ELSE EPOCH_DAYS + 1
        p    == text[Len(text)]
        whole == Norm(p.days, p.num)
    IN  /\ Len(text) = 1
        /\ whole = Norm(r.day - from, r.sec)
        /\ (IF whole.days < 0 THEN -p.frac ELSE p.frac)
             = (IF "usecs" \in flags THEN usec ELSE 0)

(* A time_t (with its nanoseconds) printed as seconds or epoch seconds by   *)
(* pcmk__timespec2str() or pcmk__epoch2str() reads as that time: after      *)
(* localtime() in the host's zone, ha_set_tm_time() and the UTC shift of    *)
(* crm_time_get_seconds(), the number is tv_sec (plus the seconds from      *)
(* year 1 to the epoch for crm_time_seconds), and the fraction is the       *)
(* whole microseconds of tv_nsec (none from pcmk__epoch2str()).            *)
TimespecTextDenotes ==
  called /\ ts # NoTimespec /\ flags \cap {"seconds", "epoch"} # {}
         /\ "duration" \notin flags =>
    LET p     == text[Len(text)]
        whole == Norm(p.days, p.num)
        from  == IF "seconds" \in flags THEN EPOCH_DAYS ELSE 0
        frac  == IF "usecs" \in flags /\ ts.fn = "timespec" THEN ts.nsec \div 1000 ELSE 0
    IN  /\ Len(text) = 1
        /\ whole = Norm(from, ts.sec)
        /\ (IF whole.days < 0 THEN -p.frac ELSE p.frac) = frac
=============================================================================
