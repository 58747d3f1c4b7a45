----------------------------- MODULE MCTimeText -----------------------------
(* The two text conversions of lib/common/iso8601.c beside each other: a   *)
(* behaviour is one call of pcmk__time_format_hr() (HrFormat) or one call  *)
(* of time_as_string_common() for a duration, seconds or epoch text        *)
(* (DurationText).  The idle side of a behaviour sits in a state it could  *)
(* have reached itself: a NULL format already formatted, or an undefined   *)
(* time already printed.                                                   *)
EXTENDS Integers

CONSTANTS NoFormat, NoTimespec

VARIABLES fmt, hr_usec, hr_called, result, dt, du_usec, flags, ts, du_called, text
hr_vars == <<fmt, hr_usec, hr_called, result>>
du_vars == <<dt, du_usec, flags, ts, du_called, text>>

(* pcmk__time_format_hr() over every format of up to five characters from *)
(* an alphabet with '%', the specifiers N and H, width digits 0, 3 and 7   *)
(* and a literal '.', at the unit test's time 03:04:05 with the unit       *)
(* test's microseconds.                                                    *)
Hr == INSTANCE HrFormat
        WITH Alphabet <- {"%", "N", "H", "0", "3", "7", "."}, MaxLen <- 5,
             USecs <- {0, 789, 123456}, HrSeconds <- 11045,
             usec <- hr_usec, called <- hr_called

(* Durations of up to two years, a month, three days and a day's seconds, *)
(* on both sides of the one-minute breakdown, negative ones included, with *)
(* microseconds of both signs, printed with and without "usecs".           *)
DurationSeconds == {0, 1, -1, 59, 60, 61, -61, 3600, 3661, -3661, 86399}
DurationCalls ==
  {[dt |-> [years |-> y, months |-> mo, days |-> d, seconds |-> s, offset |-> 0,
            duration |-> TRUE],
    usec |-> u, flags |-> f] :
     y \in {0, 1, 2}, mo \in {0, 1}, d \in {0, 1, 3}, s \in DurationSeconds,
     u \in {0, 1, 500000, -500000, 999999},
     f \in {{"duration"}, {"duration", "usecs"}}}

(* Dates of years 1, 1970 (with a positive offset that moves it before the *)
(* epoch), 2000 (leap day, half-hour negative offset), 2024 (the offset    *)
(* carries the last second of a leap year into 2025) and 2100 (a century  *)
(* that is not leap), and the undefined time.  Epoch texts with            *)
(* microseconds are left out for dates before 1970 (README: hazards).      *)
Date(y, d, s, off) ==
  [years |-> y, months |-> 0, days |-> d, seconds |-> s, offset |-> off, duration |-> FALSE]
Dates == {Date(1, 1, 1, 0), Date(1970, 1, 0, 3600), Date(2000, 60, 43200, -19800),
          Date(2024, 366, 86399, -3600), Date(2100, 365, 86399, 0),
          Date(0, 0, 0, 0)}
BeforeEpoch(d) == d.years < 1970 \/ (d.years = 1970 /\ d.offset > 0)
DateCalls ==
  {c \in [dt : Dates, usec : {0, 999999},
          flags : {{"seconds"}, {"epoch"}, {"seconds", "usecs"}, {"epoch", "usecs"}}] :
     ~("epoch" \in c.flags /\ "usecs" \in c.flags /\ c.usec # 0 /\ BeforeEpoch(c.dt))}

(* time_t values on both sides of the epoch, the end of its first day, a   *)
(* leap day and the last 32-bit second, with 0 or 999999999 ns, on hosts   *)
(* at UTC, +05:30 and -03:30, through pcmk__timespec2str() and             *)
(* pcmk__epoch2str().  Epoch texts with microseconds of a time before the   *)
(* epoch are left out, as for DateCalls.                                    *)
Timespec(fn, sec, nsec, off) == [fn |-> fn, sec |-> sec, nsec |-> nsec, gmtoff |-> off]
TimespecCalls ==
  {c \in [ts : {Timespec(fn, sec, nsec, off) :
                  fn \in {"timespec", "epoch"},
                  sec \in {-1, 0, 86399, 951825600, 2147483647},
                  nsec \in {0, 999999999}, off \in {0, 19800, -12600}},
          flags : {{}, {"seconds"}, {"epoch"}, {"seconds", "usecs"}, {"epoch", "usecs"}}] :
     /\ c.ts.fn = "epoch" => c.ts.nsec = 0
     /\ c.ts.fn = "timespec" => c.flags # {}
     /\ ~("epoch" \in c.flags /\ "usecs" \in c.flags /\ c.ts.sec < 0 /\ c.ts.nsec >= 1000)}

Du == INSTANCE DurationText
        WITH Calls <- DurationCalls \cup DateCalls, TimespecCalls <- TimespecCalls,
             usec <- du_usec, called <- du_called

HrIdle ==
  /\ fmt = NoFormat /\ hr_usec = 0 /\ hr_called = TRUE /\ result = Hr!NullResult
DuIdle ==
  /\ dt = Du!Iso!Undefined /\ du_usec = 0 /\ flags = {"seconds"} /\ ts = NoTimespec
  /\ du_called = TRUE
  /\ text = <<Du!Word("<undefined time>")>>

Init == (Hr!Init /\ DuIdle) \/ (HrIdle /\ Du!Init)
Next ==
  \/ Hr!Format /\ UNCHANGED du_vars
  \/ Du!AsString /\ UNCHANGED hr_vars
  \/ Du!Timespec2Str /\ UNCHANGED hr_vars
  \/ Du!Epoch2Str /\ UNCHANGED hr_vars

-----------------------------------------------------------------------------
(* HrFormat's type invariant: results are made of the format's characters,*)
(* digits and strftime() text.                                             *)
HrTypeOK == Hr!TypeOK
(* pcmk__time_format_hr() expands every format the reference defines to   *)
(* the reference text (HrFormat).                                          *)
HrFormatFaithful == Hr!HrFormatFaithful
(* A failed strftime() fallback never leaves a partial text (HrFormat).   *)
FallbackNeverTruncates == Hr!FallbackNeverTruncates
(* DurationText's type invariant: texts are made of known words and        *)
(* numbers, with microseconds printed as six non-negative digits.          *)
DuTypeOK == Du!TypeOK
(* duration_as_string() prints what the duration is (DurationText).        *)
DurationTextDenotes == Du!DurationTextDenotes
(* A date printed as (epoch) seconds reads as its instant (DurationText).  *)
SecondsTextDenotes == Du!SecondsTextDenotes
(* A time_t printed as (epoch) seconds reads as itself (DurationText).     *)
TimespecTextDenotes == Du!TimespecTextDenotes
=============================================================================
