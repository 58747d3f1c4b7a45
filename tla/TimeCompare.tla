---------------------------- MODULE TimeCompare ----------------------------
(***************************************************************************)
(* Keeping the earliest of several date/times: pcmk__set_time_if_earlier() *)
(* of src/lib/common/iso8601.c, called once per candidate time on one      *)
(* target that starts undefined (crm_time_new_undefined()), as the rule    *)
(* evaluator does to find when a rule's result next changes.  Candidates   *)
(* carry UTC offsets, so every comparison goes through crm_get_utc_time()  *)
(* and crm_time_add_seconds().  A candidate is a date/time text that      *)
(* crm_time_new() parses (module IsoText); a text it refuses gives NULL,  *)
(* which pcmk__set_time_if_earlier() ignores.                             *)
(*                                                                         *)
(* The module also holds the other helpers of iso8601.c that take whole    *)
(* time objects or intervals: crm_time_calculate_duration() of two         *)
(* candidates, recorded in `calc', and pcmk__readable_interval() of a      *)
(* millisecond interval, recorded in `shown', and                         *)
(* crm_time_parse_period() of an interval text, recorded with its result *)
(* in `periods'.                                                           *)
(***************************************************************************)
EXTENDS Integers, Sequences, SequencesExt

CONSTANTS
  Texts,       (* candidate date/time texts                                *)
  MaxCalls,    (* how many candidates are offered                          *)
  Intervals,   (* guint millisecond intervals given to pcmk__readable_interval *)
  LocalTm,     (* the host's local time and tm_gmtoff (see IsoText)        *)
  TimeFormats, (* crm_time_as_string() flag sets a parsed time is printed with *)
  Periods,     (* ISO 8601 interval texts (see IsoText's Item and Period)  *)
  LenientPeriods (* interval texts whose durations ISO 8601 does not write: *)
                 (* units repeated or out of order, or amounts with a sign  *)

VARIABLES target, seen, calc, shown, periods

vars == <<target, seen, calc, shown, periods>>

Iso == INSTANCE Iso8601
         WITH t <- target, ref <- seen, steps <- MaxCalls,
              Years <- {}, InitSeconds <- {}, DayExtras <- {},
              WeekExtras <- {}, MonthExtras <- {}, YearExtras <- {},
              SecondExtras <- {}, MinuteExtras <- {}, HourExtras <- {},
              Durations <- {}, XmlInputs <- {}, MaxSteps <- MaxCalls

Txt == INSTANCE IsoText

(* crm_time_new() of a text: [ok, dt].                                     *)
Parsed(x) == Txt!parse_date(x)

(* The time objects of the candidates offered so far that parsed.         *)
Candidates == { Parsed(x).dt : x \in { y \in Range(seen) : Parsed(y).ok } }

(***************************************************************************)
(* pcmk__readable_interval(): the text is kept as the pieces the code      *)
(* appends, each a number and its printf format: "d", "h", "m" ("%ud",     *)
(* "%uh", "%um"), "u" ("%u"), "frac" (".%03u"), "s" (the 's' appended     *)
(* alone) and "ms" ("%ums"); the literal "0s" is the pieces "0" and "s".  *)
(***************************************************************************)
MS_IN_S == 1000
MS_IN_M == MS_IN_S * 60
MS_IN_H == MS_IN_M * 60
MS_IN_D == MS_IN_H * 24
MAXSTR  == 18    (* sizeof("..d..h..m..s...ms")                           *)

Piece(n, fmt) == [num |-> n, fmt |-> fmt]

(* Mutant: the whole hours are printed but not subtracted.                *)
pcmk__readable_interval_keep_hours(interval_ms) ==
  LET r1 == interval_ms % MS_IN_D
      r3 == r1 % MS_IN_M
      r4 == r3 % MS_IN_S
      Opt(c, n, fmt) == IF c THEN <<Piece(n, fmt)>> ELSE <<>>
  IN  IF interval_ms = 0 THEN <<Piece(0, "u"), Piece(0, "s")>>
      ELSE Opt(interval_ms >= MS_IN_D, interval_ms \div MS_IN_D, "d")
           \o Opt(r1 >= MS_IN_H, r1 \div MS_IN_H, "h")
           \o Opt(r1 >= MS_IN_M, r1 \div MS_IN_M, "m")
           \o IF r3 >= MS_IN_S
                THEN <<Piece(r3 \div MS_IN_S, "u")>>
                     \o Opt(r4 > 0, r4, "frac") \o <<Piece(0, "s")>>
                ELSE Opt(r3 > 0, r3, "ms")

(* Each step's "interval_ms -= (interval_ms / U) * U" is interval_ms % U. *)
pcmk__readable_interval(interval_ms) ==
  LET r1 == interval_ms % MS_IN_D
      r2 == r1 % MS_IN_H
      r3 == r2 % MS_IN_M
      r4 == r3 % MS_IN_S
      Opt(c, n, fmt) == IF c THEN <<Piece(n, fmt)>> ELSE <<>>
  IN  IF interval_ms = 0 THEN <<Piece(0, "u"), Piece(0, "s")>>
      ELSE Opt(interval_ms >= MS_IN_D, interval_ms \div MS_IN_D, "d")
           \o Opt(r1 >= MS_IN_H, r1 \div MS_IN_H, "h")
           \o Opt(r2 >= MS_IN_M, r2 \div MS_IN_M, "m")
           \o IF r3 >= MS_IN_S
                THEN <<Piece(r3 \div MS_IN_S, "u")>>
                     \o Opt(r4 > 0, r4, "frac") \o <<Piece(0, "s")>>
                ELSE Opt(r3 > 0, r3, "ms")

Init ==
  /\ target = Iso!Undefined
  /\ seen = <<>>
  /\ calc = [dt |-> Iso!Undefined, value |-> Iso!Undefined, d |-> Iso!Undefined]
  /\ shown = [ms |-> 0, text |-> <<>>]
  /\ periods = <<>>

(* The caller makes at most MaxCalls calls, one of which may log an       *)
(* interval.                                                               *)
Calls == Len(seen) + Len(periods) + (IF shown.text = <<>> THEN 0 ELSE 1)

(* One candidate text parsed and offered to                                *)
(* pcmk__set_time_if_earlier(target, source); NULL leaves target alone.   *)
SetTimeIfEarlier(x) ==
  /\ Calls < MaxCalls
  /\ target' = IF Parsed(x).ok
                  THEN Iso!pcmk__set_time_if_earlier(target, Parsed(x).dt)
                  ELSE target
  /\ seen' = Append(seen, x)
  /\ UNCHANGED <<calc, shown, periods>>

(* crm_time_calculate_duration(dt, value) of two candidates.              *)
CalculateDuration(dt, value) ==
  /\ calc' = [dt |-> dt, value |-> value,
              d |-> Iso!crm_time_calculate_duration(dt, value)]
  /\ UNCHANGED <<target, seen, shown, periods>>

(* An interval logged through pcmk__readable_interval().                  *)
ReadableInterval(ms) ==
  /\ shown.text = <<>> /\ Calls < MaxCalls
  /\ shown' = [ms |-> ms, text |-> pcmk__readable_interval(ms)]
  /\ UNCHANGED <<target, seen, calc, periods>>

(* An interval text read by crm_time_parse_period() of the library's API *)
(* (the text is recorded whether the result is a period or NULL).         *)
ParsePeriod(p) ==
  /\ Calls < MaxCalls
  /\ periods' = Append(periods, [p |-> p, c |-> Txt!crm_time_parse_period(p)])
  /\ UNCHANGED <<target, seen, calc, shown>>

Next ==
  \/ \E x \in Texts : SetTimeIfEarlier(x)
  \/ \E ms \in Intervals : ReadableInterval(ms)
  \/ \E p \in Periods \cup LenientPeriods : ParsePeriod(p)

(* The same, with durations between candidates computed as well.          *)
NextDuration ==
  \/ Next
  \/ \E x, y \in Texts :
       /\ Parsed(x).ok /\ Parsed(y).ok
       /\ CalculateDuration(Parsed(x).dt, Parsed(y).dt)

Spec == Init /\ [][Next]_vars

-----------------------------------------------------------------------------
ParsedTimes == { Parsed(x).dt : x \in Texts } \cup {Iso!Undefined}

TypeOK ==
  /\ target \in ParsedTimes
  /\ seen \in Seq(Texts) /\ Len(seen) <= MaxCalls
  /\ calc.dt \in ParsedTimes
  /\ calc.value \in ParsedTimes
  /\ shown.ms \in Intervals \cup {0}
  /\ shown.text \in Seq([num : Nat, fmt : {"d", "h", "m", "u", "frac", "s", "ms"}])
  /\ \A i \in DOMAIN periods : periods[i].p \in Periods \cup LenientPeriods /\ periods[i].c.ok \in BOOLEAN

(***************************************************************************)
(* After any sequence of calls, the target is undefined exactly when no    *)
(* candidate text parsed, and is otherwise one of the parsed times whose  *)
(* UTC instant no other parsed time precedes, whatever their offsets: the *)
(* comparison must convert to UTC, carry across day and year boundaries,  *)
(* and order years before days before seconds.                            *)
(***************************************************************************)
EarliestIsMinimum ==
  /\ (Candidates = {}) <=> ~Iso!crm_time_is_defined(target)
  /\ Candidates # {} =>
       /\ target \in Candidates
       /\ \A s \in Candidates :
            ~Iso!InstantBefore(Iso!UtcInstant(s), Iso!UtcInstant(target))

(***************************************************************************)
(* crm_time_compare() orders the target and each candidate as their UTC   *)
(* instants are ordered, and reports equal instants as equal.             *)
(***************************************************************************)
InstantSign(a, b) ==
  IF Iso!InstantBefore(a, b) THEN -1 ELSE IF a = b THEN 0 ELSE 1

CompareAgreesWithInstant ==
  \A s \in Candidates :
    Iso!crm_time_compare(s, target)
      = InstantSign(Iso!UtcInstant(s), Iso!UtcInstant(target))

(***************************************************************************)
(* How a reader takes pcmk__readable_interval()'s text: its length in      *)
(* characters and the milliseconds it denotes.                            *)
(***************************************************************************)
RECURSIVE Digits(_)
Digits(n) == IF n < 10 THEN 1 ELSE 1 + Digits(n \div 10)

PieceLength(p) ==
  CASE p.fmt \in {"d", "h", "m"} -> Digits(p.num) + 1
    [] p.fmt = "u"               -> Digits(p.num)
    [] p.fmt = "frac"            -> 1 + (IF Digits(p.num) < 3 THEN 3 ELSE Digits(p.num))
    [] p.fmt = "s"               -> 1
    [] p.fmt = "ms"              -> Digits(p.num) + 2

PieceValue(p) ==
  CASE p.fmt = "d"              -> p.num * MS_IN_D
    [] p.fmt = "h"              -> p.num * MS_IN_H
    [] p.fmt = "m"              -> p.num * MS_IN_M
    [] p.fmt = "u"              -> p.num * MS_IN_S
    [] p.fmt \in {"frac", "ms"} -> p.num
    [] p.fmt = "s"              -> 0

(* The next larger unit of each printed count.                            *)
UnitLimit == [h |-> 24, m |-> 60, u |-> 60, frac |-> 1000, ms |-> 1000]

(***************************************************************************)
(* The text pcmk__readable_interval() logs denotes exactly the interval it *)
(* was given, with every count below its next larger unit, and fits the  *)
(* static buffer: the pcmk__assert(buf->len < sizeof(str)) before the      *)
(* strncpy() never fires.                                                  *)
(***************************************************************************)
ReadableIntervalFaithful ==
  shown.text # <<>> =>
    /\ FoldSeq(LAMBDA p, acc : PieceValue(p) + acc, 0, shown.text) = shown.ms
    /\ FoldSeq(LAMBDA p, acc : PieceLength(p) + acc, 0, shown.text) < MAXSTR
    /\ \A i \in DOMAIN shown.text :
         shown.text[i].fmt \in DOMAIN UnitLimit =>
           shown.text[i].num < UnitLimit[shown.text[i].fmt]

(***************************************************************************)
(* crm_time_calculate_duration(dt, value) of a value no later than dt is   *)
(* the duration that crm_time_add() takes from value back to dt: the       *)
(* answer is marked a duration, and crm_time_add() reads a duration in     *)
(* the same UTC fields it was computed in.                                 *)
(***************************************************************************)
DurationRestoresTime ==
  /\ Iso!crm_time_is_defined(calc.dt)
  /\ ~Iso!InstantBefore(Iso!UtcInstant(calc.dt), Iso!UtcInstant(calc.value))
  => Iso!UtcInstant(Iso!crm_time_add(calc.value, calc.d)) = Iso!UtcInstant(calc.dt)

(***************************************************************************)
(* Every text is checked in the state that offers it, as the last of     *)
(* `seen'.                                                                 *)
(*                                                                         *)
(* Every candidate text crm_time_new() was given is accepted exactly when  *)
(* ISO 8601 gives it a meaning, and the time object parse_date() builds   *)
(* (week dates through crm_time_add_days(), 24:00:00 as the next day, the *)
(* host's offset for a text without a zone) denotes the instant and keeps *)
(* the offset that the text names.                                        *)
(***************************************************************************)
ParseMatchesReference ==
  seen # <<>> =>
    LET p == Parsed(Last(seen))
        r == Txt!RefText(Last(seen))
    IN  /\ p.ok = r.ok
        /\ p.ok => /\ Iso!UtcInstant(p.dt) = r.inst
                   /\ p.dt.offset = r.off

(***************************************************************************)
(* A parsed candidate printed by crm_time_as_string() with a date and time *)
(* of day, in any of the date forms and with or without its zone, is read *)
(* back by crm_time_new() as the same instant, and with                    *)
(* crm_time_log_with_timezone with the same offset: what the rule code    *)
(* logs as a next change can be given back to it.                          *)
(***************************************************************************)
FormatParseRoundTrip ==
  \A f \in TimeFormats :
    seen # <<>> /\ Parsed(Last(seen)).ok =>
      LET dt == Parsed(Last(seen)).dt
          q  == Parsed(Txt!time_as_string_common(dt, f))
      IN  /\ q.ok
          /\ Iso!UtcInstant(q.dt) = Iso!UtcInstant(dt)
          /\ "with_timezone" \in f => q.dt.offset = dt.offset

(***************************************************************************)
(* Every interval text crm_time_parse_period() reads (checked in the state *)
(* that reads it) is accepted exactly when ISO 8601 gives it a meaning    *)
(* that crm_time_t can hold, and then the start and end it computes       *)
(* (a missing one by crm_time_add() or crm_time_subtract() of the         *)
(* duration in the given time's own zone, a duration alone from the       *)
(* host's clock) are the instants the text denotes, and the duration it   *)
(* keeps has the years, months, days and seconds the text names.          *)
(***************************************************************************)
PeriodAnswer(c) ==
  IF c.ok
    THEN [ok |-> TRUE, start |-> Iso!UtcInstant(c.start), end |-> Iso!UtcInstant(c.end),
          diff |-> IF c.diff.ok
                     THEN <<[ok |-> TRUE, years |-> c.diff.dt.years, months |-> c.diff.dt.months,
                             days |-> c.diff.dt.days, seconds |-> c.diff.dt.seconds]>>
                     ELSE <<>>]
    ELSE [ok |-> FALSE]

PeriodMatchesReference ==
  periods # <<>> /\ Last(periods).p \in Periods =>
    /\ PeriodAnswer(Last(periods).c) = Txt!RefPeriod(Last(periods).p)
    /\ Last(periods).c.diff.ok => Last(periods).c.diff.dt.duration


(***************************************************************************)
(* An interval text whose duration repeats a unit, mixes their order, ends *)
(* with the T or gives an amount a sign is read as the comment of         *)
(* crm_time_parse_duration() says ("we're not strict about the order"):    *)
(* it is refused only for a unit parse_int() cannot end with, a partial   *)
(* sum past int or an all-zero total; otherwise years and months are the  *)
(* last given, weeks, days and time units add up, and the start and end   *)
(* crm_time_add() or crm_time_subtract() compute from it are those         *)
(* instants, backwards in time for a negative amount.                      *)
(***************************************************************************)
LenientPeriodDenotes ==
  periods # <<>> /\ Last(periods).p \in LenientPeriods =>
    PeriodAnswer(Last(periods).c) = Txt!LenientPeriod(Last(periods).p)

=============================================================================
