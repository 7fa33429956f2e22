------------------------------ MODULE Encodings ------------------------------
(***************************************************************************)
(* The conversions of lambda-events between the number or text of a JSON   *)
(* member and the Rust value made of it (encodings/time.rs and             *)
(* custom_serde).  A codec reads the member's value with Decode and writes *)
(* the Rust value with Encode.                                             *)
(*                                                                         *)
(* A value is an integer.  For the codecs of time it is what the           *)
(* conversion can spoil, the part of the time below the whole seconds: in  *)
(* thousandths for millis, seconds and epoch, in tenths for duration.  For *)
(* every other member 0 is its default (an empty text, list or map, a      *)
(* zero, FALSE, or what serde(default = "...") names, as "2.0" of a        *)
(* version) and the positive numbers are its other values.                 *)
(* Null is both the JSON null and Rust's None.                             *)
(***************************************************************************)
EXTENDS Integers

Null == -1

\* The names of the codecs; "exact" is every conversion that loses nothing:
\* numbers, texts, base64, RFC 3339 dates, CodeBuild's dates, and headers that
\* are written with all their values.
Codecs == {"exact", "method", "headers", "duration", "seconds", "millis", "epoch"}

(***************************************************************************)
(* MillisecondTimestamp.  The milliseconds since 1970 are divided by 1000  *)
(* in an f64, and its fraction times 1000 is truncated.  From 2004 to 2038 *)
(* the whole seconds take 31 of the 53 bits of the f64, so the fraction is *)
(* rounded to a multiple of 2^-22; here in lowest terms, 2^22 / 1000 =     *)
(* 524288 / 125, to stay within 32 bits.                                   *)
(***************************************************************************)
RoundedFraction(ms) == (2 * ms * 524288 + 125) \div 250

deserialize_milliseconds(ms) == (RoundedFraction(ms) * 125) \div 524288

\* SecondTimestamp.  The number's shortest decimal form is split at the point
\* and the digits of its fraction are read as a count of milliseconds, so the
\* zeros at the end of the fraction, which that form does not have, are lost.
deserialize_seconds(ms) ==
    IF ms % 100 = 0 THEN ms \div 100
    ELSE IF ms % 10 = 0 THEN ms \div 10
    ELSE ms

\* SecondDuration and MinuteDuration: `f64 as i64` drops the fraction.
deserialize_duration(tenths) == tenths - (tenths % 10)

\* http_method: an empty text is the method GET (1 here), any other is itself.
deserialize_method(m) == IF m = 0 THEN 1 ELSE m

\* serialize_headers: 2 is a header map in which a name has several values, which
\* deserialize_headers takes from a list; only the first of them is written.
serialize_headers(h) == IF h = 2 THEN 1 ELSE h

(***************************************************************************)
(* float_unix_epoch.  The fraction times a million is taken for            *)
(* nanoseconds, so n thousandths are read as n millionths; the Rust value  *)
(* is counted in millionths.  Writing it keeps the whole seconds only.     *)
(***************************************************************************)
serialize_epoch(us) == 0

Decode(codec, n) ==
    CASE codec = "millis"   -> deserialize_milliseconds(n)
      [] codec = "seconds"  -> deserialize_seconds(n)
      [] codec = "duration" -> deserialize_duration(n)
      [] codec = "method"   -> deserialize_method(n)
      [] OTHER              -> n

Encode(codec, n) ==
    CASE codec = "epoch"   -> serialize_epoch(n)
      [] codec = "headers" -> serialize_headers(n)
      [] OTHER             -> n
=============================================================================
