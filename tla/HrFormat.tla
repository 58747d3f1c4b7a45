------------------------------ MODULE HrFormat ------------------------------
(***************************************************************************)
(* pcmk__time_format_hr() of lib/common/iso8601.c: the expansion of a      *)
(* date/time format string with the extra "%[width]N" specifier for        *)
(* fractional seconds.  The code scans the format for '%' specifiers; the  *)
(* text before each "%N" goes to g_date_time_format() (with strftime() as  *)
(* the fallback when glib refuses it), the fraction is appended with       *)
(* "%0*d", and an empty buffer is returned as NULL.                        *)
(*                                                                         *)
(* A format is a sequence of one-character strings and C index i is        *)
(* f[i+1]; the terminating '\0' is NUL.  glib is modelled for the          *)
(* conversions the model's alphabet can form: literal characters, "%%" and *)
(* "%H".  A chunk with anything else goes to strftime(), whose text is     *)
(* opaque here and which may also fail (nbytes == 0).                      *)
(***************************************************************************)
EXTENDS Integers, SequencesExt

CONSTANTS
  Alphabet,     \* characters formats are made of
  MaxLen,       \* longest format checked
  USecs,        \* microsecond components of the time formatted
  HrSeconds,    \* seconds of the day of the time formatted
  NoFormat      \* a NULL format pointer

VARIABLES fmt, usec, called, result
vars == <<fmt, usec, called, result>>

NUL    == "NUL"
Opaque == "?"     \* a character of a strftime() fallback text
DigitChars == {"0", "1", "2", "3", "4", "5", "6", "7", "8", "9"}
Digit(d) == <<"0", "1", "2", "3", "4", "5", "6", "7", "8", "9">>[d + 1]
DigitVal(c) == CHOOSE d \in 0..9 : Digit(d) = c
NullResult == [null |-> TRUE, text |-> <<>>]

(* format[i], with the terminating NUL *)
Ch(f, i) == IF i < Len(f) THEN f[i + 1] ELSE NUL

(* printf "%d" of a non-negative int, and "%0*d" with width w *)
RECURSIVE Decimal(_)
Decimal(n) == IF n < 10 THEN <<Digit(n)>> ELSE Decimal(n \div 10) \o <<Digit(n % 10)>>
ZeroPad(s, w) == [i \in 1..(w - Len(s)) |-> "0"] \o s

(* tm_hour of the struct tm ha_get_tm_time() fills (mktime() normalises    *)
(* tm_sec into hours, minutes and seconds)                                 *)
HourText == ZeroPad(Decimal(HrSeconds \div 3600), 2)

(* strchr(&format[s], '%'): the index of the next '%', or -1 *)
Mark(f, s) ==
  LET P == {i \in s..(Len(f) - 1) : f[i + 1] = "%"}
  IN  IF P = {} THEN -1 ELSE Min(P)

(* while (isdigit(format[scanned_pos])) scanned_pos++ *)
RECURSIVE SkipDigits(_, _)
SkipDigits(f, i) == IF Ch(f, i) \in DigitChars THEN SkipDigits(f, i + 1) ELSE i

(* atoi() of the digits format[i..d-1] *)
Atoi(f, i, d) == FoldLeft(LAMBDA a, c : 10 * a + DigitVal(c), 0, SubSeq(f, i + 1, d))

(* QB_MIN(QB_MAX(frac_digits, 0), 6) *)
Clamp(n) == IF n > 6 THEN 6 ELSE IF n < 0 THEN 0 ELSE n

(* One pass of the scanning part of the loop body, from scanned_pos s: the *)
(* new scanned_pos, fmt_pos, frac_digits, and whether the default case     *)
(* continued the loop.                                                     *)
Scan(again, s, p, w) == [again |-> again, scanned |-> s, fmt_pos |-> p, frac |-> w]
(* A default specifier that does not step past its character *)
StepAt_no_skip(f, m, d) ==
  CASE Ch(f, d) = NUL     -> Scan(FALSE, d, d, 0)
    [] Ch(f, d) = "N"     -> Scan(FALSE, d + 1, m, Clamp(Atoi(f, m + 1, d)))
    [] Ch(f, d + 1) # NUL -> Scan(TRUE, d, 0, 0)
    [] OTHER              -> Scan(FALSE, d + 1, d + 1, 0)
StepAt(f, m, d) ==
  CASE Ch(f, d) = NUL     -> Scan(FALSE, d, d, 0)
    [] Ch(f, d) = "N"     -> Scan(FALSE, d + 1, m, Clamp(Atoi(f, m + 1, d)))
    [] Ch(f, d + 1) # NUL -> Scan(TRUE, d + 1, 0, 0)
    [] OTHER              -> Scan(FALSE, d + 1, d + 1, 0)
Step(f, s) ==
  IF Mark(f, s) = -1 THEN Scan(FALSE, Len(f), Len(f), 0)
  ELSE StepAt(f, Mark(f, s), SkipDigits(f, Mark(f, s) + 1))

(* g_date_time_format() on a chunk: [ok, text] *)
RECURSIVE GlibFormat(_)
GlibFormat(c) ==
  IF c = <<>> THEN [ok |-> TRUE, text |-> <<>>]
  ELSE LET rest(n, t) == LET r == GlibFormat(SubSeq(c, n + 1, Len(c)))
                         IN  [ok |-> r.ok, text |-> t \o r.text]
       IN CASE c[1] # "%"                    -> rest(1, <<c[1]>>)
            [] Len(c) > 1 /\ c[2] = "%"      -> rest(2, <<"%">>)
            [] Len(c) > 1 /\ c[2] = "H"      -> rest(2, HourText)
            [] OTHER                         -> [ok |-> FALSE, text |-> <<>>]

(* The text a chunk appends: glib's, or else strftime()'s, which is some   *)
(* text or a failure                                                       *)
Outcome(failed, text) == [failed |-> failed, text |-> text]
Expand(c) ==
  IF GlibFormat(c).ok THEN {Outcome(FALSE, GlibFormat(c).text)}
  ELSE {Outcome(TRUE, <<>>), Outcome(FALSE, <<Opaque>>)}

(* g_string_append_printf(buf, "%0*d", w, useconds / powers[w - 1]) *)
(* The fraction printed with "%d", without the zero-padded width *)
FracText_unpadded(u, w) ==
  IF w = 0 THEN <<>> ELSE <<ToString(u \div <<100000, 10000, 1000, 100, 10, 1>>[w])>>
powers == <<100000, 10000, 1000, 100, 10, 1>>
FracText(u, w) == IF w = 0 THEN <<>> ELSE ZeroPad(Decimal(u \div powers[w]), w)

(* done: a non-empty buffer is copied, an empty one gives NULL *)
Done(buf) == IF buf = <<>> THEN NullResult ELSE [null |-> FALSE, text |-> buf]

(* The while loop from scanned_pos s and printed_pos p with buffer buf:    *)
(* the set of results the fallbacks allow.                                 *)
RECURSIVE FormatLoop(_, _, _, _, _), Emit(_, _, _, _, _), Emit_keep_buf(_, _, _, _, _)
(* A failed fallback that returns what was built so far *)
Emit_keep_buf(f, u, st, o, buf) ==
  IF o.failed THEN {Done(buf)}
  ELSE FormatLoop(f, u, st.scanned, st.scanned, buf \o o.text \o FracText(u, st.frac))
Emit(f, u, st, o, buf) ==
  IF o.failed THEN {Done(<<>>)}   \* g_string_truncate(buf, 0); goto done
  ELSE FormatLoop(f, u, st.scanned, st.scanned, buf \o o.text \o FracText(u, st.frac))
FormatLoop(f, u, s, p, buf) ==
  IF Ch(f, s) = NUL THEN {Done(buf)}
  ELSE IF Step(f, s).again THEN FormatLoop(f, u, Step(f, s).scanned, p, buf)
  ELSE UNION {Emit(f, u, Step(f, s), o, buf) :
                o \in Expand(SubSeq(f, p + 1, Step(f, s).fmt_pos))}

pcmk__time_format_hr(f, u) ==
  IF f = NoFormat THEN {NullResult} ELSE FormatLoop(f, u, 0, 0, <<>>)

-----------------------------------------------------------------------------
Init ==
  /\ fmt \in SeqOf(Alphabet, MaxLen) \cup {NoFormat}
  /\ usec \in USecs
  /\ called = FALSE
  /\ result = NullResult

(* One call of pcmk__time_format_hr(fmt, hr) for a time with usec *)
Format ==
  /\ ~called
  /\ called' = TRUE
  /\ result' \in pcmk__time_format_hr(fmt, usec)
  /\ UNCHANGED <<fmt, usec>>

Next == Format
Spec == Init /\ [][Next]_vars

-----------------------------------------------------------------------------
(* The characters a result can hold *)
OutChars == Alphabet \cup DigitChars \cup {"%", Opaque}

TypeOK ==
  /\ fmt = NoFormat \/ (Len(fmt) <= MaxLen /\ \A i \in DOMAIN fmt : fmt[i] \in Alphabet)
  /\ usec \in USecs
  /\ called \in BOOLEAN
  /\ result.null \in BOOLEAN
  /\ \A i \in DOMAIN result.text : result.text[i] \in OutChars

(* Reference: what the function's documentation and unit test say a      *)
(* format means.  "%%" is a literal '%', "%H" the two-digit hour, and      *)
(* "%[digits]N" the leading min(width, 6) digits of the six-digit          *)
(* microseconds (truncation toward zero; a leading zero in the width is    *)
(* ignored, "%N" and "%0N" print nothing); any other character is itself.  *)
(* Any other use of '%' makes the format one this reference does not      *)
(* define (ok is FALSE).                                                   *)
RefWidthDigits(f) == Max({n \in 0..(Len(f) - 1) : \A i \in 2..(n + 1) : f[i] \in DigitChars})
RefWidth(f) ==
  LET k == RefWidthDigits(f)
  IN  MapThenSumSet(LAMBDA i : DigitVal(f[i + 1]) * 10^(k - i), 1..k)
RefFraction(u, w) == [i \in 1..Min({w, 6}) |-> Digit((u \div 10^(6 - i)) % 10)]
RefIsFrac(f) ==
  Len(f) >= RefWidthDigits(f) + 2 /\ f[RefWidthDigits(f) + 2] = "N"
RECURSIVE RefText(_, _)
RefText(f, u) ==
  IF f = <<>> THEN [ok |-> TRUE, text |-> <<>>]
  ELSE LET then(n, t) == LET r == RefText(SubSeq(f, n + 1, Len(f)), u)
                         IN  [ok |-> r.ok, text |-> t \o r.text]
       IN CASE f[1] # "%"               -> then(1, <<f[1]>>)
            [] Len(f) > 1 /\ f[2] = "%" -> then(2, <<"%">>)
            [] Len(f) > 1 /\ f[2] = "H" -> then(2, HourText)
            [] RefIsFrac(f)             -> then(RefWidthDigits(f) + 2,
                                                RefFraction(u, RefWidth(f)))
            [] OTHER                    -> [ok |-> FALSE, text |-> <<>>]

(* The expansion is the documented one: for every format the reference    *)
(* defines whose expansion is not empty, the while loop of                 *)
(* pcmk__time_format_hr() (its strchr() scan, the width skipping, the      *)
(* default case that continues past an escaped '%', the chunks it hands to *)
(* g_date_time_format() and the "%0*d" fraction) returns exactly that      *)
(* text, whatever the strftime() fallback would have done.                 *)
HrFormatFaithful ==
  LET r == RefText(fmt, usec)
  IN  called /\ fmt # NoFormat /\ r.ok /\ r.text # <<>>
        => result = [null |-> FALSE, text |-> r.text]

(* No chunk is silently dropped: for a format the reference does not       *)
(* define, some chunk goes to glib, is refused and falls back to           *)
(* strftime(); if strftime() fails on any chunk, pcmk__time_format_hr()    *)
(* truncates the buffer and returns NULL, so a text it does return holds   *)
(* the fallback's output and never just the part formatted before the      *)
(* failure.                                                                *)
FallbackNeverTruncates ==
  called /\ fmt # NoFormat /\ ~RefText(fmt, usec).ok /\ ~result.null
    => \E i \in DOMAIN result.text : result.text[i] = Opaque
=============================================================================
