----------------------------- MODULE EventsProofs -----------------------------
(***************************************************************************)
(* Proofs about Events, for every table of types that TypesAssumption      *)
(* admits: what the codecs and serde's attributes do to a member on its    *)
(* way into a struct, out of it and into it again (CodecReturns,           *)
(* MemberReturns), that an object so written is accepted (StructReturns),  *)
(* and, by an inductive invariant that says what each variable was         *)
(* computed from, NothingLost and RoundTrips.                              *)
(***************************************************************************)
EXTENDS Events, WellFoundedInduction, TLAPS

-------------------------------------------------------------------------------
\* Codecs.

\* The values of a member: all but null.
Numbers == 0..999

\* A value w that was read in place of v is v, unless the codec may have spoiled it.
SameValue(codec, v, w) == Lossless(codec, v) => w = v

\* MillisecondTimestamp keeps a fraction within the second and takes at most one
\* millisecond from it.
LEMMA Milliseconds ==
  ASSUME NEW ms \in Numbers
  PROVE  /\ deserialize_milliseconds(ms) \in Numbers
         /\ deserialize_milliseconds(ms) \in {ms - 1, ms}
<1> DEFINE q == (2 * ms * 524288 + 125) \div 250
<1>1. /\ q \in Int
      /\ 250 * q <= 2 * ms * 524288 + 125
      /\ 2 * ms * 524288 + 125 < 250 * q + 250
  BY SMT DEF Numbers
<1> HIDE DEF q
<1> DEFINE d == (q * 125) \div 524288
<1>2. /\ d \in Int
      /\ 524288 * d <= q * 125
      /\ q * 125 < 524288 * d + 524288
  BY <1>1, SMT
<1> HIDE DEF d
<1>3. d \in {ms - 1, ms} /\ d \in Numbers
  BY <1>1, <1>2, SMT DEF Numbers
<1> QED  BY <1>3 DEF deserialize_milliseconds, RoundedFraction, d, q

\* SecondTimestamp reads what it wrote as the same fraction.
LEMMA Seconds ==
  ASSUME NEW ms \in Numbers
  PROVE  /\ deserialize_seconds(ms) \in Numbers
         /\ deserialize_seconds(deserialize_seconds(ms)) = deserialize_seconds(ms)
BY SMT DEF deserialize_seconds, Numbers

\* Durations read what they wrote as the same number.
LEMMA Durations ==
  ASSUME NEW t \in Numbers
  PROVE  /\ deserialize_duration(t) \in Numbers
         /\ deserialize_duration(deserialize_duration(t)) = deserialize_duration(t)
BY SMT DEF deserialize_duration, Numbers

\* A number read with a codec is a number, and so is what is written of it; read
\* again, it is the same if the codec does not spoil it.
LEMMA CodecReturns ==
  ASSUME NEW codec \in Codecs, NEW n \in Numbers
  PROVE  LET v == Decode(codec, n)
         IN  /\ v \in Numbers
             /\ Encode(codec, v) \in Numbers
             /\ Decode(codec, Encode(codec, v)) \in Numbers
             /\ SameValue(codec, v, Decode(codec, Encode(codec, v)))
             /\ codec \in {"exact", "headers"} => v = n
<1> DEFINE v == Decode(codec, n)
<1>1. CASE codec = "millis"
  <2>1. v = deserialize_milliseconds(n) /\ v \in Numbers
    BY <1>1, Milliseconds DEF Decode
  <2>2. Encode(codec, v) = v /\ Decode(codec, v) = deserialize_milliseconds(v)
    BY <1>1 DEF Encode, Decode
  <2>3. deserialize_milliseconds(v) \in Numbers /\ deserialize_milliseconds(v) \in {v - 1, v}
    BY <2>1, Milliseconds
  <2> QED  BY <1>1, <2>1, <2>2, <2>3, SMT DEF SameValue, Lossless, Numbers, Null
<1>2. CASE codec = "seconds"
  <2>1. v = deserialize_seconds(n) /\ Encode(codec, v) = v
    BY <1>2 DEF Decode, Encode
  <2>2. Decode(codec, v) = deserialize_seconds(v)
    BY <1>2 DEF Decode
  <2> QED  BY <1>2, <2>1, <2>2, Seconds DEF SameValue
<1>3. CASE codec = "duration"
  <2>1. v = deserialize_duration(n) /\ Encode(codec, v) = v
    BY <1>3 DEF Decode, Encode
  <2>2. Decode(codec, v) = deserialize_duration(v)
    BY <1>3 DEF Decode
  <2> QED  BY <1>3, <2>1, <2>2, Durations DEF SameValue
<1>4. CASE codec = "method"
  BY <1>4, SMT DEF Decode, Encode, deserialize_method, SameValue, Numbers
<1>5. CASE codec = "epoch"
  BY <1>5, SMT DEF Decode, Encode, serialize_epoch, SameValue, Lossless, Numbers, Null
<1>6. CASE codec = "headers"
  BY <1>6, SMT DEF Decode, Encode, serialize_headers, SameValue, Lossless, Numbers
<1>7. CASE codec = "exact"
  BY <1>7, SMT DEF Decode, Encode, SameValue, Numbers
<1> QED  BY <1>1, <1>2, <1>3, <1>4, <1>5, <1>6, <1>7 DEF Codecs

-------------------------------------------------------------------------------
\* Members.

\* The values a name may be given once.
Values == Numbers \cup {Null}

\* No value or one.
Single == {<<>>} \cup {<<x>> : x \in Values}

\* What is read into a member of a kind, from the one value given to it or none:
\* a number, or None where the kind has a None.
MemberValues(kind) ==
    Numbers \cup (IF kind \in {"untyped", "optional", "omitted"} THEN {Null} ELSE {})

\* A Rust value that serde made for a member is one of its kind.
LEMMA MemberRead ==
  ASSUME NEW kind \in Kinds, NEW codec \in Codecs,
         NEW occurrences \in Single
  PROVE  ReadMember(kind, codec, occurrences) \in MemberValues(kind)
<1>1. 0 \in Numbers
  BY SMT DEF Numbers
<1>2. Missing(kind, codec) \in MemberValues(kind)
  BY <1>1, CodecReturns DEF Missing, MemberValues
<1>3. ASSUME NEW x \in Numbers  PROVE Decode(codec, x) \in MemberValues(kind)
  BY CodecReturns DEF MemberValues
<1>4. CASE occurrences = <<>>
  BY <1>2, <1>4 DEF ReadMember
<1>5. ASSUME NEW x \in Values, occurrences = <<x>>
      PROVE  ReadMember(kind, codec, occurrences) \in MemberValues(kind)
  <2>1. CASE x = Null
    BY <1>2, <1>5, <2>1 DEF ReadMember
  <2>2. CASE x \in Numbers
    <3>1. occurrences # <<>> /\ occurrences # <<Null>> /\ occurrences[1] = x
      BY <1>5, <2>2, SMT DEF Numbers, Null
    <3> QED  BY <3>1, <1>3, <2>2 DEF ReadMember
  <2> QED  BY <2>1, <2>2 DEF Values
<1> QED  BY <1>4, <1>5 DEF Single

\* A member that was read and written is accepted, and read as the same value if
\* its codec does not spoil it, also when it was left out or written as null.
LEMMA MemberReturns ==
  ASSUME NEW kind \in Kinds, NEW codec \in Codecs,
         kind = "nullableOmitted" => codec \in {"exact", "headers"},
         NEW occurrences \in Single,
         NEW v, v = ReadMember(kind, codec, occurrences),
         NEW w, w = WriteMember(kind, codec, v)
  PROVE  /\ w \in Single
         /\ AcceptsMember(kind, w)
         /\ SameValue(codec, v, ReadMember(kind, codec, w))
<1>1. v \in MemberValues(kind)
  BY MemberRead
<1>2. CASE Skipped(kind, v)
  <2>1. w = <<>>
    BY <1>2 DEF WriteMember
  <2>2. AcceptsMember(kind, w)
    BY <2>1, <1>2, SMT DEF AcceptsMember, Skipped, MayBeAbsent
  <2>3. ReadMember(kind, codec, w) = Missing(kind, codec)
    BY <2>1 DEF ReadMember
  <2>4. CASE kind = "omitted"
    BY <2>1, <2>2, <2>3, <2>4, <1>2 DEF Skipped, Missing, SameValue, Single
  <2>5. CASE kind = "nullableOmitted"
    <3>1. v = 0 /\ Missing(kind, codec) = Decode(codec, 0) /\ 0 \in Numbers
      BY <2>5, <1>2, SMT DEF Skipped, Missing, Numbers
    <3>2. codec \in {"exact", "headers"}
      BY <2>5
    <3>3. Decode(codec, 0) = 0
      BY <3>1, <3>2, CodecReturns
    <3> QED  BY <3>1, <3>3, <2>1, <2>2, <2>3 DEF SameValue, Single
  <2> QED  BY <2>4, <2>5, <1>2 DEF Skipped
<1>3. CASE ~ Skipped(kind, v) /\ v = Null
  <2>1. w = <<Null>>
    BY <1>3 DEF WriteMember
  <2>2. kind \in {"untyped", "optional"}
    BY <1>1, <1>3, SMT DEF MemberValues, Numbers, Null, Skipped
  <2>3. AcceptsMember(kind, w)
    BY <2>1, <2>2, SMT DEF AcceptsMember, MayBeNull, Kinds
  <2>4. ReadMember(kind, codec, w) = Null
    BY <2>1, <2>2 DEF ReadMember, Missing
  <2> QED  BY <2>1, <2>3, <2>4, <1>3 DEF SameValue, Values, Single
<1>4. CASE ~ Skipped(kind, v) /\ v # Null
  <2>1. w = <<Encode(codec, v)>>
    BY <1>4 DEF WriteMember
  <2>2. \E n \in Numbers : v = Decode(codec, n)
    <3>1. 0 \in Numbers
      BY SMT DEF Numbers
    <3>2. CASE occurrences = <<>> \/ occurrences = <<Null>>
      <4>1. v = Missing(kind, codec)
        BY <3>2 DEF ReadMember
      <4> QED  BY <4>1, <3>1, <1>4 DEF Missing
    <3>3. CASE ~ (occurrences = <<>> \/ occurrences = <<Null>>)
      <4>1. PICK x \in Values : occurrences = <<x>>
        BY <3>3 DEF Single
      <4>2. x \in Numbers /\ v = Decode(codec, x)
        BY <3>3, <4>1 DEF Values, ReadMember
      <4> QED  BY <4>2
    <3> QED  BY <3>2, <3>3
  <2>3. /\ Encode(codec, v) \in Numbers
        /\ SameValue(codec, v, Decode(codec, Encode(codec, v)))
    BY <2>2, CodecReturns
  <2>4. w # <<>> /\ w # <<Null>> /\ Len(w) = 1 /\ w[1] = Encode(codec, v)
    <3> DEFINE e == Encode(codec, v)
    <3>1. e \in Numbers /\ w = <<e>>
      BY <2>1, <2>3
    <3> HIDE DEF e
    <3>2. w # <<>> /\ w # <<Null>> /\ Len(w) = 1 /\ w[1] = e
      BY <3>1, SMT DEF Numbers, Null
    <3> QED  BY <3>2 DEF e
  <2>5. AcceptsMember(kind, w)
    BY <2>4, SMT DEF AcceptsMember
  <2>6. ReadMember(kind, codec, w) = Decode(codec, Encode(codec, v))
    BY <2>4 DEF ReadMember
  <2> QED  BY <2>1, <2>3, <2>5, <2>6 DEF Values, Single
<1> QED  BY <1>2, <1>3, <1>4

\* A member that was given a value is written, unless that stood for nothing.
LEMMA MemberWritten ==
  ASSUME NEW kind \in Kinds, NEW codec \in Codecs,
         kind = "nullableOmitted" => codec \in {"exact", "headers"},
         NEW x \in Numbers \ {0}
  PROVE  Len(WriteMember(kind, codec, ReadMember(kind, codec, <<x>>))) = 1
<1> DEFINE v == Decode(codec, x)
<1>1. <<x>> # <<>> /\ <<x>> # <<Null>> /\ x # 0 /\ x \in Numbers
  BY SMT DEF Numbers, Null
<1>2. ReadMember(kind, codec, <<x>>) = v
  BY <1>1 DEF ReadMember
<1>3. v \in Numbers /\ (codec \in {"exact", "headers"} => v = x)
  BY <1>1, CodecReturns
<1>4. v # Null
  BY <1>3, SMT DEF Numbers, Null
<1>5. ~ Skipped(kind, v)
  BY <1>1, <1>3, <1>4 DEF Skipped
<1> QED  BY <1>2, <1>4, <1>5, SMT DEF WriteMember
-------------------------------------------------------------------------------
\* Structs.

\* Each name of an object is given one value, as in every text of Texts.
GivenOnce(object) == \A n \in DOMAIN object : \E x \in Values : object[n] = <<x>>

\* What is given under two names of which one is not there.
LEMMA Joined ==
  ASSUME NEW s \in Single, NEW t \in Single
  PROVE  /\ s \o <<>> = s
         /\ <<>> \o s = s
         /\ Len(s \o t) <= 1 => s \o t \in Single
         /\ Len(s \o t) <= 1 /\ s # <<>> => s \o t = s
         /\ Len(s \o t) <= 1 /\ t # <<>> => s \o t = t
<1>1. ASSUME NEW u \in Single
      PROVE  /\ u \in Seq(Values)
             /\ u = <<>> \/ Len(u) = 1
             /\ u \o <<>> = u
             /\ <<>> \o u = u
  <2>1. CASE u = <<>>
    BY <2>1, SMT
  <2>2. ASSUME NEW x \in Values, u = <<x>>
        PROVE  u \in Seq(Values) /\ Len(u) = 1
    BY <2>2, SMT
  <2>3. u \in Seq(Values) /\ (u = <<>> \/ Len(u) = 1)
    BY <2>1, <2>2, SMT DEF Single
  <2> QED  BY <2>3, SMT
<1>2. Len(s \o t) = Len(s) + Len(t)
  BY <1>1, SMT
<1>3. ASSUME Len(s \o t) <= 1  PROVE s = <<>> \/ t = <<>>
  <2>1. /\ s = <<>> \/ Len(s) = 1
        /\ t = <<>> \/ Len(t) = 1
    BY <1>1
  <2> QED  BY <1>2, <1>3, <2>1, SMT
<1> QED  BY <1>1, <1>3

\* An accepted object gives a member no value or one.
LEMMA OccurrencesAreSingle ==
  ASSUME NEW S, NEW object, GivenOnce(object), Accepts(S, object),
         NEW m \in DOMAIN S.kind
  PROVE  Occurrences(S, object, m) \in Single
<1>1. \A n : Given(object, n) \in Single
  BY DEF Given, GivenOnce, Single
<1>2. Len(Occurrences(S, object, m)) <= 1
  BY DEF Accepts, AcceptsMember
<1>3. <<>> \in Single
  BY DEF Single
<1>4. CASE m \in DOMAIN S.alias
  <2>1. Occurrences(S, object, m) = Given(object, m) \o Given(object, S.alias[m])
    BY <1>4 DEF Occurrences
  <2> QED  BY <1>1, <1>2, <2>1, Joined
<1>5. CASE m \notin DOMAIN S.alias
  <2>1. Occurrences(S, object, m) = Given(object, m) \o <<>>
    BY <1>5 DEF Occurrences
  <2> QED  BY <1>1, <1>3, <2>1, Joined
<1> QED  BY <1>4, <1>5
\* What a struct's one catch-all map catches of an object, if it has one.
LEMMA Others ==
  ASSUME NEW S, IsStruct(S), NEW object, NEW c \in BOOLEAN, c => OneCatchAll(S),
         NEW others, others = Read(S, object, c).others
  PROVE  IF c /\ Len(S.claimed) = 1
         THEN DOMAIN others = {1} /\ others[1] = Catch(object, Declared(S))
         ELSE /\ DOMAIN others = {}
              /\ others = IF c THEN [i \in {} |-> {}] ELSE <<>>
<1>1. Len(S.claimed) \in Nat /\ DOMAIN S.claimed = 1..Len(S.claimed)
  BY SMT DEF IsStruct
<1>2. CASE ~ c
  <2>1. others = <<>>
    BY <1>2 DEF Read
  <2>2. DOMAIN <<>> = {}
    BY SMT
  <2> QED  BY <1>2, <2>1, <2>2
<1>3. CASE c /\ Len(S.claimed) # 1
  <2>1. Len(S.claimed) = 0
    <3>1. Len(S.claimed) <= 1
      BY <1>3 DEF OneCatchAll
    <3>2. Len(S.claimed) # 1 /\ Len(S.claimed) \in Nat
      BY <1>1, <1>3
    <3>3. \A k \in Nat : k <= 1 /\ k # 1 => k = 0
      BY SMT
    <3> QED  BY <3>1, <3>2, <3>3
  <2>2. others = [i \in {} |-> Catch(object, S.claimed[i])]
    <3>1. DOMAIN S.claimed = {}
      BY <1>1, <2>1, SMT
    <3> QED  BY <1>3, <3>1 DEF Read
  <2> QED  BY <1>3, <2>2
<1>4. CASE c /\ Len(S.claimed) = 1
  <2>1. DOMAIN S.claimed = {1}
    BY <1>1, <1>4, SMT
  <2>2. S.claimed[1] = Declared(S)
    BY <1>4, <2>1 DEF IsStruct
  <2>3. others = [i \in {1} |-> Catch(object, S.claimed[i])]
    BY <1>4, <2>1 DEF Read
  <2> QED  BY <1>4, <2>2, <2>3
<1> QED  BY <1>2, <1>3, <1>4

\* What a value that was read from an object writes under each name: its members
\* under their own names, nothing under their aliases, and under the names the
\* struct does not read what the catch-all map caught.
LEMMA StructWritten ==
  ASSUME NEW S, IsStruct(S), NEW object, GivenOnce(object), Accepts(S, object),
         NEW c \in BOOLEAN, c => OneCatchAll(S),
         NEW v, v.members = Read(S, object, c).members,
                v.others = Read(S, object, c).others
  PROVE  LET out == Write(S, v)
         IN  /\ \A n \in DOMAIN out : out[n] # <<>>
             /\ \A m \in DOMAIN S.kind :
                  /\ Given(out, m) = WriteMember(S.kind[m], S.codec[m], v.members[m])
                  /\ WriteMember(S.kind[m], S.codec[m], v.members[m]) \in Single
             /\ \A m \in DOMAIN S.alias : Given(out, S.alias[m]) = <<>>
             /\ \A n : n \notin Declared(S) =>
                  Given(out, n) = IF c /\ Len(S.claimed) = 1 THEN Given(object, n) ELSE <<>>
<1> DEFINE out == Write(S, v)
           names == DOMAIN S.kind
                      \cup UNION {DOMAIN v.others[i] : i \in DOMAIN v.others}
           w(m) == WriteMember(S.kind[m], S.codec[m], v.members[m])
           caught(n) == Caught(v, 1, n) \o Caught(v, 2, n)
           open == c /\ Len(S.claimed) = 1
<1>1. out = [n \in {n \in names : WrittenAs(S, v, n) # <<>>} |-> WrittenAs(S, v, n)]
  BY DEF Write
<1>2. IF open
      THEN DOMAIN v.others = {1} /\ v.others[1] = Catch(object, Declared(S))
      ELSE DOMAIN v.others = {}
  BY Others
<1>3. ASSUME NEW n
      PROVE  /\ Caught(v, 2, n) = <<>>
             /\ Caught(v, 1, n) = IF open /\ n \notin Declared(S)
                                  THEN Given(object, n) ELSE <<>>
             /\ (n \in UNION {DOMAIN v.others[i] : i \in DOMAIN v.others})
                   <=> (open /\ n \notin Declared(S) /\ n \in DOMAIN object)
  <2>1. CASE ~ open
    <3>1. DOMAIN v.others = {}
      BY <1>2, <2>1
    <3> QED  BY <2>1, <3>1 DEF Caught
  <2>2. CASE open
    <3>1. /\ 1 \in DOMAIN v.others /\ 2 \notin DOMAIN v.others
          /\ DOMAIN v.others[1] = DOMAIN object \ Declared(S)
      <4>1. DOMAIN v.others = {1} /\ v.others[1] = Catch(object, Declared(S))
        BY <1>2, <2>2
      <4>2. DOMAIN Catch(object, Declared(S)) = DOMAIN object \ Declared(S)
        BY DEF Catch
      <4>3. 1 \in {1} /\ 2 \notin {1}
        BY SMT
      <4> QED  BY <4>1, <4>2, <4>3
    <3>2. Caught(v, 2, n) = <<>>
      BY <3>1 DEF Caught
    <3>3. CASE n \in DOMAIN object \ Declared(S)
      <4>1. PICK x \in Values : object[n] = <<x>>
        BY <3>3 DEF GivenOnce
      <4>2. v.others[1][n] = x
        <5>1. Catch(object, Declared(S))[n] = object[n][Len(object[n])]
          BY <3>3 DEF Catch
        <5>2. <<x>>[Len(<<x>>)] = x
          BY SMT
        <5> QED  BY <1>2, <2>2, <4>1, <5>1, <5>2
      <4>3. Caught(v, 1, n) = <<x>>
        BY <3>1, <3>3, <4>2 DEF Caught
      <4> QED  BY <2>2, <3>1, <3>2, <3>3, <4>1, <4>3 DEF Given
    <3>4. CASE n \notin DOMAIN object \ Declared(S)
      <4>1. Caught(v, 1, n) = <<>>
        BY <3>1, <3>4 DEF Caught
      <4>2. UNION {DOMAIN v.others[i] : i \in DOMAIN v.others} = DOMAIN v.others[1]
        BY <1>2, <2>2
      <4> QED  BY <2>2, <3>1, <3>2, <3>4, <4>1, <4>2 DEF Given
    <3> QED  BY <3>3, <3>4
  <2> QED  BY <2>1, <2>2
<1>4. ASSUME NEW m \in DOMAIN S.kind
      PROVE  w(m) \in Single /\ m \in Declared(S)
  <2>1. /\ S.kind[m] \in Kinds /\ S.codec[m] \in Codecs
        /\ S.kind[m] = "nullableOmitted" => S.codec[m] \in {"exact", "headers"}
    BY DEF IsStruct
  <2>2. v.members[m] = ReadMember(S.kind[m], S.codec[m], Occurrences(S, object, m))
    BY DEF Read
  <2>3. Occurrences(S, object, m) \in Single
    BY OccurrencesAreSingle
  <2>4. w(m) \in Single
    BY <2>1, <2>2, <2>3, MemberReturns
  <2> QED  BY <2>4 DEF Declared
<1>5. ASSUME NEW n, NEW s \in Single, NEW t \in Single,
             WrittenAs(S, v, n) = s \o t \o <<>>, s = <<>> \/ t = <<>>,
             n \in names \/ (s = <<>> /\ t = <<>>)
      PROVE  Given(out, n) = IF s = <<>> THEN t ELSE s
  <2>1. WrittenAs(S, v, n) = IF s = <<>> THEN t ELSE s
    BY <1>5, Joined
  <2> QED  BY <1>1, <1>5, <2>1 DEF Given
<1>6. <<>> \in Single /\ \A n : Given(object, n) \in Single
  BY DEF Given, GivenOnce, Single
<1>7. ASSUME NEW m \in DOMAIN S.kind  PROVE Given(out, m) = w(m)
  <2>1. WrittenAs(S, v, m) = w(m) \o <<>> \o <<>>
    BY <1>3, <1>4 DEF WrittenAs
  <2> QED  BY <1>4, <1>5, <1>6, <2>1
<1>8. ASSUME NEW m \in DOMAIN S.alias  PROVE Given(out, S.alias[m]) = <<>>
  <2>1. S.alias[m] \notin DOMAIN S.kind /\ S.alias[m] \in Declared(S)
    BY DEF IsStruct, Declared
  <2>2. WrittenAs(S, v, S.alias[m]) = <<>> \o <<>> \o <<>>
    BY <1>3, <2>1 DEF WrittenAs
  <2> QED  BY <1>5, <1>6, <2>2
<1>9. ASSUME NEW n, n \notin Declared(S)
      PROVE  Given(out, n) = IF open THEN Given(object, n) ELSE <<>>
  <2> DEFINE t == IF open THEN Given(object, n) ELSE <<>>
  <2>1. n \notin DOMAIN S.kind
    BY <1>9 DEF Declared
  <2>2. WrittenAs(S, v, n) = <<>> \o t \o <<>>
    BY <1>3, <1>9, <2>1 DEF WrittenAs
  <2>3. t \in Single
    BY <1>6
  <2>4. t = <<>> \/ n \in names
    BY <1>3, <1>9 DEF Given
  <2> QED  BY <1>5, <1>6, <2>2, <2>3, <2>4
<1> QED  BY <1>1, <1>4, <1>7, <1>8, <1>9
\* An object written of a value that was read from an object is accepted, and
\* read as an equivalent value.
LEMMA StructReturns ==
  ASSUME NEW S, IsStruct(S), NEW object, GivenOnce(object), Accepts(S, object),
         NEW c \in BOOLEAN, c => OneCatchAll(S),
         NEW v, v.members = Read(S, object, c).members,
                v.others = Read(S, object, c).others
  PROVE  LET out == Write(S, v)
         IN  /\ Accepts(S, out)
             /\ Read(S, out, c).others = v.others
             /\ \A m \in DOMAIN S.kind :
                  SameValue(S.codec[m], v.members[m], Read(S, out, c).members[m])
<1> DEFINE out == Write(S, v)
           w(m) == WriteMember(S.kind[m], S.codec[m], v.members[m])
<1>1. /\ \A n \in DOMAIN out : out[n] # <<>>
      /\ \A m \in DOMAIN S.kind : Given(out, m) = w(m) /\ w(m) \in Single
      /\ \A m \in DOMAIN S.alias : Given(out, S.alias[m]) = <<>>
      /\ \A n : n \notin Declared(S) =>
           Given(out, n) = IF c /\ Len(S.claimed) = 1 THEN Given(object, n) ELSE <<>>
  BY StructWritten
<1> HIDE DEF out
<1>2. ASSUME NEW m \in DOMAIN S.kind
      PROVE  /\ AcceptsMember(S.kind[m], Occurrences(S, out, m))
             /\ SameValue(S.codec[m], v.members[m], Read(S, out, c).members[m])
  <2>1. /\ S.kind[m] \in Kinds /\ S.codec[m] \in Codecs
        /\ S.kind[m] = "nullableOmitted" => S.codec[m] \in {"exact", "headers"}
    BY DEF IsStruct
  <2>2. v.members[m] = ReadMember(S.kind[m], S.codec[m], Occurrences(S, object, m))
    BY DEF Read
  <2>3. Occurrences(S, object, m) \in Single
    BY OccurrencesAreSingle
  <2>4. Occurrences(S, out, m) = w(m)
    <3>1. Occurrences(S, out, m) = w(m) \o <<>>
      BY <1>1 DEF Occurrences
    <3> QED  BY <3>1, <1>1, Joined
  <2>5. /\ AcceptsMember(S.kind[m], w(m))
        /\ SameValue(S.codec[m], v.members[m],
                     ReadMember(S.kind[m], S.codec[m], w(m)))
    BY <2>1, <2>2, <2>3, MemberReturns
  <2>6. Read(S, out, c).members[m] = ReadMember(S.kind[m], S.codec[m], w(m))
    BY <2>4 DEF Read
  <2> QED  BY <2>4, <2>5, <2>6
<1>3. Read(S, out, c).others = v.others
  <2> DEFINE others == Read(S, out, c).others
  <2>1. CASE ~ (c /\ Len(S.claimed) = 1)
    BY <2>1, Others
  <2>2. CASE c /\ Len(S.claimed) = 1
    <3>1. /\ DOMAIN others = {1} /\ others[1] = Catch(out, Declared(S))
          /\ DOMAIN v.others = {1} /\ v.others[1] = Catch(object, Declared(S))
      <4>1. DOMAIN others = {1} /\ others[1] = Catch(out, Declared(S))
        BY <2>2, Others
      <4>2. DOMAIN v.others = {1} /\ v.others[1] = Catch(object, Declared(S))
        BY <2>2, Others
      <4> QED  BY <4>1, <4>2
    <3>2. \A n : n \notin Declared(S) => Given(out, n) = Given(object, n)
      BY <1>1, <2>2
    <3>3. ASSUME NEW n, n \notin Declared(S)
          PROVE  /\ n \in DOMAIN out <=> n \in DOMAIN object
                 /\ n \in DOMAIN out => out[n] = object[n]
      <4>1. n \in DOMAIN object => object[n] # <<>>
        <5>1. ASSUME NEW x, <<x>> = <<>>  PROVE FALSE
          BY <5>1, SMT
        <5> QED  BY <5>1 DEF GivenOnce
      <4> QED  BY <4>1, <1>1, <3>2, <3>3 DEF Given
    <3>4. Catch(out, Declared(S)) = Catch(object, Declared(S))
      <4>1. DOMAIN out \ Declared(S) = DOMAIN object \ Declared(S)
        BY <3>3
      <4> QED  BY <4>1, <3>3 DEF Catch
    <3>5. others = [i \in {1} |-> others[i]] /\ v.others = [i \in {1} |-> v.others[i]]
      BY <3>1 DEF Read
    <3> QED  BY <3>1, <3>4, <3>5
  <2> QED  BY <2>1, <2>2
<1> QED  BY <1>2, <1>3 DEF Accepts, out
\* What writes an object's members under their own names, and as they are those the
\* struct does not read, writes each member it was given, under the name it has in
\* the struct, once, unless that stood for nothing.
LEMMA StructLosesNothing ==
  ASSUME NEW S, IsStruct(S), NEW object, GivenOnce(object), Accepts(S, object),
         NEW out,
         \A m \in DOMAIN S.kind :
            Given(out, m) = WriteMember(S.kind[m], S.codec[m],
                              ReadMember(S.kind[m], S.codec[m], Occurrences(S, object, m))),
         \A k : k \notin Declared(S) => Given(out, k) = Given(object, k)
  PROVE  \A n \in DOMAIN object :
            \/ Len(Given(out, NameOf(S, n))) = 1
            \/ object[n] \in Nothing
<1> SUFFICES ASSUME NEW n \in DOMAIN object, object[n] \notin Nothing
             PROVE  Len(Given(out, NameOf(S, n))) = 1
  OBVIOUS
<1>1. PICK x \in Values : object[n] = <<x>>
  BY DEF GivenOnce
<1>2. x \in Numbers \ {0} /\ Given(object, n) = <<x>> /\ Len(<<x>>) = 1
  BY <1>1 DEF Values, Given, Nothing
<1>3. ASSUME NEW m \in DOMAIN S.kind,
             n = m \/ (m \in DOMAIN S.alias /\ n = S.alias[m])
      PROVE  Len(Given(out, m)) = 1
  <2>1. /\ S.kind[m] \in Kinds /\ S.codec[m] \in Codecs
        /\ S.kind[m] = "nullableOmitted" => S.codec[m] \in {"exact", "headers"}
    BY DEF IsStruct
  <2>2. Occurrences(S, object, m) = <<x>>
    <3>1. Len(Occurrences(S, object, m)) <= 1
      BY DEF Accepts, AcceptsMember
    <3>2. \A k : Given(object, k) \in Single
      BY DEF Given, GivenOnce, Single
    <3>3. <<x>> \in Single /\ <<x>> # <<>> /\ <<>> \in Single
      <4>1. <<x>> # <<>>
        BY SMT
      <4> QED  BY <4>1 DEF Single
    <3>4. CASE m \notin DOMAIN S.alias
      <4>1. Occurrences(S, object, m) = Given(object, n) \o <<>>
        BY <1>3, <3>4 DEF Occurrences
      <4> QED  BY <4>1, <1>2, <3>3, Joined
    <3>5. CASE m \in DOMAIN S.alias
      <4>1. Occurrences(S, object, m)
              = Given(object, m) \o Given(object, S.alias[m])
        BY <3>5 DEF Occurrences
      <4>2. CASE n = m
        BY <1>2, <3>1, <3>2, <3>3, <4>1, <4>2, Joined
      <4>3. CASE n = S.alias[m]
        <5>1. Given(object, S.alias[m]) = <<x>>
          BY <1>2, <4>3
        <5>2. Len(Given(object, m) \o <<x>>) <= 1
          BY <3>1, <4>1, <5>1
        <5>3. Given(object, m) \o <<x>> = <<x>>
          BY <5>2, <3>2, <3>3, Joined
        <5> QED  BY <4>1, <5>1, <5>3
      <4> QED  BY <1>3, <4>2, <4>3
    <3> QED  BY <3>4, <3>5
  <2> QED  BY <1>2, <2>1, <2>2, MemberWritten
<1>4. CASE \E m \in DOMAIN S.alias : S.alias[m] = n
  <2> DEFINE k == CHOOSE m \in DOMAIN S.alias : S.alias[m] = n
  <2>1. k \in DOMAIN S.alias /\ S.alias[k] = n
    BY <1>4
  <2>2. k \in DOMAIN S.kind
    BY <2>1 DEF IsStruct
  <2> HIDE DEF k
  <2>3. Len(Given(out, k)) = 1
    BY <1>3, <2>1, <2>2
  <2> QED  BY <1>4, <2>3 DEF k, NameOf
<1>5. CASE ~ \E m \in DOMAIN S.alias : S.alias[m] = n
  <2>1. CASE n \in DOMAIN S.kind
    BY <1>3, <1>5, <2>1 DEF NameOf
  <2>2. CASE n \notin DOMAIN S.kind
    <3>1. n \notin Declared(S)
      BY <1>5, <2>2 DEF Declared
    <3> QED  BY <1>2, <1>5, <3>1 DEF NameOf
  <2> QED  BY <2>1, <2>2
<1> QED  BY <1>4, <1>5

-------------------------------------------------------------------------------
\* Variants.

\* What an earlier variant's member refuses, and a later one's takes, the earlier
\* one's still refuses when the later one has written it.
LEMMA MemberStillRefused ==
  ASSUME NEW earlier \in Kinds, NEW later \in Kinds, StillRefused(earlier, later),
         NEW codec, NEW occurrences \in Single,
         AcceptsMember(later, occurrences), ~ AcceptsMember(earlier, occurrences)
  PROVE  ~ AcceptsMember(earlier,
             WriteMember(later, codec, ReadMember(later, codec, occurrences)))
<1> DEFINE v == ReadMember(later, codec, occurrences)
           w == WriteMember(later, codec, v)
<1>1. Len(occurrences) <= 1
  BY DEF AcceptsMember
<1>2. \/ occurrences = <<>> /\ earlier \notin MayBeAbsent /\ later \in MayBeAbsent
      \/ occurrences = <<Null>> /\ earlier \notin MayBeNull /\ later \in MayBeNull
  BY <1>1 DEF AcceptsMember
<1>3. v = Missing(later, codec)
  BY <1>2 DEF ReadMember
<1>4. CASE later \in {"untyped", "optional"} /\ earlier \notin MayBeNull
  <2>1. v = Null /\ ~ Skipped(later, v)
    BY <1>3, <1>4 DEF Missing, Skipped
  <2>2. w = <<Null>>
    BY <2>1 DEF WriteMember
  <2> QED  BY <1>4, <2>2 DEF AcceptsMember
<1>5. CASE later = "omitted" /\ earlier \notin MayBeAbsent
  <2>1. v = Null /\ Skipped(later, v)
    BY <1>3, <1>5 DEF Missing, Skipped
  <2>2. w = <<>>
    BY <2>1 DEF WriteMember
  <2> QED  BY <1>5, <2>2 DEF AcceptsMember
<1> QED  BY <1>2, <1>4, <1>5 DEF StillRefused

\* An object that an earlier variant refused and a later one read and wrote is
\* refused by the earlier one again.
LEMMA StructStillRefused ==
  ASSUME NEW E, IsStruct(E), NEW S, IsStruct(S), Apart(E, S),
         NEW object, GivenOnce(object), Accepts(S, object), ~ Accepts(E, object),
         NEW c \in BOOLEAN, c => OneCatchAll(S),
         NEW v, v.members = Read(S, object, c).members,
                v.others = Read(S, object, c).others
  PROVE  ~ Accepts(E, Write(S, v))
<1> DEFINE out == Write(S, v)
           own == DOMAIN E.kind \ DOMAIN S.kind
           open == c /\ Len(S.claimed) = 1
<1>1. /\ \A m \in DOMAIN S.kind :
           Given(out, m) = WriteMember(S.kind[m], S.codec[m], v.members[m])
      /\ \A n : n \notin Declared(S) =>
           Given(out, n) = IF open THEN Given(object, n) ELSE <<>>
  BY StructWritten
<1>2. /\ DOMAIN E.alias = {} /\ DOMAIN S.alias = {}
      /\ \A m \in DOMAIN E.kind \cap DOMAIN S.kind : StillRefused(E.kind[m], S.kind[m])
      /\ \/ \E m \in own : E.kind[m] \notin MayBeAbsent
         \/ \A m \in own : E.kind[m] \in MayBeNull
  BY DEF Apart
<1> HIDE DEF out, open
<1>3. Declared(S) = DOMAIN S.kind
  BY <1>2 DEF Declared
<1>4. /\ \A n : Given(object, n) \in Single
      /\ <<>> \in Single
  BY DEF Given, GivenOnce, Single
\* Without aliases a member is given what stands under its name.
<1>5. ASSUME NEW o, NEW n, Given(o, n) \in Single
      PROVE  /\ Occurrences(E, o, n) = Given(o, n)
             /\ Occurrences(S, o, n) = Given(o, n)
  <2>1. /\ Occurrences(E, o, n) = Given(o, n) \o <<>>
        /\ Occurrences(S, o, n) = Given(o, n) \o <<>>
    BY <1>2 DEF Occurrences
  <2> QED  BY <1>5, <2>1, Joined
<1>6. PICK k \in DOMAIN E.kind : ~ AcceptsMember(E.kind[k], Given(object, k))
  BY <1>4, <1>5 DEF Accepts
<1>7. CASE k \in DOMAIN S.kind
  <2>1. /\ E.kind[k] \in Kinds /\ S.kind[k] \in Kinds /\ S.codec[k] \in Codecs
        /\ S.kind[k] = "nullableOmitted" => S.codec[k] \in {"exact", "headers"}
    BY <1>7 DEF IsStruct
  <2>2. AcceptsMember(S.kind[k], Given(object, k))
    BY <1>4, <1>5, <1>7 DEF Accepts
  <2>3. v.members[k] = ReadMember(S.kind[k], S.codec[k], Given(object, k))
    BY <1>4, <1>5, <1>7 DEF Read
  <2>4. Given(out, k) \in Single
    BY <1>1, <1>4, <1>7, <2>1, <2>3, MemberReturns
  <2>5. ~ AcceptsMember(E.kind[k], Given(out, k))
    BY <1>1, <1>2, <1>4, <1>6, <1>7, <2>1, <2>2, <2>3, MemberStillRefused
  <2> QED  BY <1>5, <2>4, <2>5 DEF Accepts, out
<1>8. CASE k \notin DOMAIN S.kind /\ open
  <2>1. Given(out, k) = Given(object, k)
    BY <1>1, <1>3, <1>8
  <2> QED  BY <1>4, <1>5, <1>6, <2>1 DEF Accepts, out
<1>9. CASE k \notin DOMAIN S.kind /\ ~ open
  <2>1. PICK m \in own : E.kind[m] \notin MayBeAbsent
    <3>1. CASE \E m \in own : E.kind[m] \notin MayBeAbsent
      BY <3>1
    <3>2. CASE ~ \E m \in own : E.kind[m] \notin MayBeAbsent
      <4>1. E.kind[k] \in MayBeAbsent /\ E.kind[k] \in MayBeNull
        BY <1>2, <1>9, <3>2
      <4>2. Len(Given(object, k)) <= 1
        <5>1. \A s \in Single : Len(s) <= 1
          <6>1. Len(<<>>) <= 1 /\ \A x : Len(<<x>>) <= 1
            BY SMT
          <6> QED  BY <6>1 DEF Single
        <5> QED  BY <1>4, <5>1
      <4> QED  BY <1>6, <4>1, <4>2 DEF AcceptsMember
    <3> QED  BY <3>1, <3>2
  <2>2. Given(out, m) = <<>>
    BY <1>1, <1>3, <1>9, <2>1
  <2>3. ~ AcceptsMember(E.kind[m], Given(out, m))
    BY <2>1, <2>2 DEF AcceptsMember
  <2> QED  BY <1>4, <1>5, <2>1, <2>2, <2>3 DEF Accepts, out
<1> QED  BY <1>7, <1>8, <1>9

-------------------------------------------------------------------------------
\* Texts, and values parsed from them.

\* The texts of Texts give each name one value.
LEMMA TextsGiveOnce ==
  ASSUME NEW T, NEW t \in Texts(T)
  PROVE  GivenOnce(t.object)
<1>1. 1 \in Values /\ 2 \in Values /\ 0 \in Values /\ Null \in Values
  BY SMT DEF Values, Numbers, Null
<1>2. FractionValues \subseteq Values
  BY FractionAssumption DEF Values, Numbers
<1>3. ASSUME NEW S  PROVE GivenOnce(Plainly(S))
  BY <1>1 DEF GivenOnce, Plainly
<1>4. ASSUME NEW object, GivenOnce(object), NEW name
      PROVE  GivenOnce(Without(object, name))
  BY <1>4 DEF GivenOnce, Without
<1>5. ASSUME NEW object, GivenOnce(object), NEW name, NEW x \in Values
      PROVE  GivenOnce(With(object, name, <<x>>))
  <2>1. ASSUME NEW n \in DOMAIN object \cup {name}
        PROVE  \E y \in Values : With(object, name, <<x>>)[n] = <<y>>
    BY <1>5 DEF GivenOnce, With
  <2> QED  BY <2>1 DEF GivenOnce, With
<1>6. ASSUME NEW codec  PROVE Samples(codec) \subseteq Values
  BY <1>1, <1>2 DEF Samples
<1>7. ASSUME NEW S, NEW m \in DOMAIN S.kind, NEW o \in Deviating(S, m)
      PROVE  GivenOnce(o)
  <2> DEFINE rest == Without(Plainly(S), m)
  <2>1. GivenOnce(rest)
    BY <1>3, <1>4
  <2>2. \/ o = rest
        \/ \E x \in Samples(S.codec[m]) \cup {Null, 0} : o = With(rest, m, <<x>>)
        \/ o = With(rest, S.alias[m], <<1>>)
        \/ o = With(Plainly(S), S.alias[m], <<1>>)
    BY DEF Deviating
  <2> HIDE DEF rest
  <2> QED  BY <1>1, <1>3, <1>5, <1>6, <2>1, <2>2
<1>8. ASSUME NEW S, NEW o \in Objects(S)  PROVE GivenOnce(o)
  <2>1. \/ o = Plainly(S)
        \/ o = With(Plainly(S), Unknown, <<1>>)
        \/ \E m \in DOMAIN S.kind : o \in Deviating(S, m)
        \/ \E m \in DOMAIN S.kind : o = With(Without(Plainly(S), m), Unknown, <<1>>)
    <3>1. \/ o \in {Plainly(S), With(Plainly(S), Unknown, <<1>>)}
          \/ o \in UNION {Deviating(S, m) : m \in DOMAIN S.kind}
          \/ o \in {With(Without(Plainly(S), m), Unknown, <<1>>) : m \in DOMAIN S.kind}
      BY Zenon DEF Objects
    <3> QED  BY <3>1
  <2> QED  BY <1>1, <1>3, <1>4, <1>5, <1>7, <2>1
<1>9. GivenOnce(<<>>)
  <2>1. DOMAIN <<>> = {}
    BY SMT
  <2> QED  BY <2>1 DEF GivenOnce
<1>10. \/ \E i \in DOMAIN T.variants : t.object \in Objects(T.variants[i].struct)
       \/ t.object = <<>>
  <2>1. CASE t \in UNION {{[from |-> i, tag |-> T.variants[i].tag, object |-> o] :
                              o \in Objects(T.variants[i].struct)} : i \in DOMAIN T.variants}
    BY <2>1
  <2>2. CASE t \in {[from |-> 0, tag |-> Unknown, object |-> <<>>]}
    BY <2>2
  <2> QED  BY <2>1, <2>2, Zenon DEF Texts
<1> QED  BY <1>8, <1>9, <1>10

\* A text is parsed into the first variant that accepts it, if there is one.
LEMMA Parsed ==
  ASSUME NEW T, \A i \in DOMAIN T.variants : i \in Nat \ {0},
         NEW t, NEW c \in BOOLEAN, NEW v, v = Parse(T, t, c)
  PROVE  /\ v.variant = 0 <=> Candidates(T, t) = {}
         /\ v.variant # 0 =>
              /\ v.variant \in Candidates(T, t)
              /\ \A j \in Candidates(T, t) : v.variant <= j
              /\ v.members = Read(T.variants[v.variant].struct, t.object, c).members
              /\ v.others = Read(T.variants[v.variant].struct, t.object, c).others
<1>1. CASE Candidates(T, t) = {}
  BY <1>1 DEF Parse, Rejected
<1>2. CASE Candidates(T, t) # {}
  <2>1. Candidates(T, t) \subseteq Nat \ {0} /\ Candidates(T, t) \subseteq Nat
    BY DEF Candidates
  <2>2. \E i \in Candidates(T, t) : \A j \in Candidates(T, t) : i <= j
    <3>1. PICK i \in Candidates(T, t) :
             \A j \in Candidates(T, t) : ~ (<<j, i>> \in OpToRel(<, Nat))
      BY <1>2, <2>1, NatLessThanWellFounded, WFMin
    <3>2. ASSUME NEW j \in Candidates(T, t)  PROVE i <= j
      <4>1. ~ (j < i)
        BY <2>1, <3>1 DEF OpToRel
      <4> QED  BY <2>1, <4>1, SMT
    <3> QED  BY <3>2
  <2> DEFINE i == CHOOSE i \in Candidates(T, t) : \A j \in Candidates(T, t) : i <= j
             r == Read(T.variants[i].struct, t.object, c)
  <2>3. i \in Candidates(T, t) /\ \A j \in Candidates(T, t) : i <= j
    BY <2>2
  <2>4. v = [variant |-> i, members |-> r.members, others |-> r.others]
    BY <1>2 DEF Parse
  <2> HIDE DEF i, r
  <2>5. v.variant = i /\ v.members = r.members /\ v.others = r.others /\ i # 0
    BY <2>1, <2>3, <2>4
  <2> QED  BY <1>2, <2>3, <2>5 DEF r
<1> QED  BY <1>1, <1>2
-------------------------------------------------------------------------------
\* The state machine.

\* What each variable was computed from: the inductive invariant.
Computed ==
    /\ catching \in BOOLEAN
    /\ stage \in {"idle", "received", "parsed", "written", "done"}
    /\ stage # "idle" => type \in DOMAIN Types /\ text \in Texts(Types[type])
    /\ stage \in {"parsed", "written", "done"} => value = Parse(Types[type], text, catching)
    /\ stage \in {"parsed", "written"} => value.variant # 0
    /\ stage \in {"written", "done"} /\ value.variant # 0
         => output = Serialize(Types[type], value)
    /\ stage = "done" /\ value.variant # 0
         => reparsed = Parse(Types[type], output, catching)

\* Computed holds initially and is kept by every step: each step computes one
\* variable from those before it, and Finish forgets them all.
THEOREM ComputedHolds == Spec => []Computed
<1>1. Init => Computed
  BY DEF Init, Computed
<1>2. Computed /\ [Next]_vars => Computed'
  <2> SUFFICES ASSUME Computed, [Next]_vars  PROVE Computed'
    OBVIOUS
  <2>1. CASE Receive
    BY <2>1 DEF Computed, Receive
  <2>2. CASE ParseText
    BY <2>2 DEF Computed, ParseText
  <2>3. CASE WriteValue
    BY <2>3 DEF Computed, WriteValue
  <2>4. CASE ParseOutput
    BY <2>4 DEF Computed, ParseOutput
  <2>5. CASE Finish
    BY <2>5 DEF Computed, Finish
  <2>6. CASE UNCHANGED vars
    BY <2>6 DEF Computed, vars
  <2> QED  BY <2>1, <2>2, <2>3, <2>4, <2>5, <2>6 DEF Next
<1> QED  BY <1>1, <1>2, PTL DEF Spec

\* What a parsed text and its type are.
LEMMA ParsedValue ==
  ASSUME Computed, stage \in {"written", "done"}, value.variant # 0
  PROVE  LET S == StructOf(value)
         IN  /\ type \in DOMAIN Types
             /\ value.variant \in DOMAIN Types[type].variants
             /\ IsStruct(S) /\ Unknown \notin Declared(S)
             /\ GivenOnce(text.object) /\ Accepts(S, text.object)
             /\ value.members = Read(S, text.object, catching).members
             /\ value.others = Read(S, text.object, catching).others
             /\ output.object = Write(S, value)
             /\ output.tag = Types[type].variants[value.variant].tag
<1> DEFINE T == Types[type]
<1>1. /\ catching \in BOOLEAN /\ type \in DOMAIN Types /\ text \in Texts(T)
      /\ value = Parse(T, text, catching) /\ output = Serialize(T, value)
  BY DEF Computed
<1>2. \A i \in DOMAIN T.variants :
        /\ i \in Nat \ {0} /\ IsStruct(T.variants[i].struct)
        /\ Unknown \notin Declared(T.variants[i].struct)
  BY <1>1, TypesAssumption
<1>3. /\ value.variant \in Candidates(T, text)
      /\ value.members = Read(T.variants[value.variant].struct, text.object, catching).members
      /\ value.others = Read(T.variants[value.variant].struct, text.object, catching).others
  BY <1>1, <1>2, Parsed
<1>4. GivenOnce(text.object)
  BY <1>1, TextsGiveOnce
<1>5. /\ output.object = Write(T.variants[value.variant].struct, value)
      /\ output.tag = T.variants[value.variant].tag
  BY <1>1 DEF Serialize
<1> QED  BY <1>1, <1>2, <1>3, <1>4, <1>5 DEF Candidates, StructOf

\* What the value of an event is written as.
LEMMA WrittenValue ==
  ASSUME Computed, stage \in {"written", "done"}, value.variant # 0,
         catching => OneCatchAll(StructOf(value))
  PROVE  LET S == StructOf(value)
         IN  /\ \A m \in DOMAIN S.kind :
                  Given(output.object, m) = WriteMember(S.kind[m], S.codec[m],
                    ReadMember(S.kind[m], S.codec[m], Occurrences(S, text.object, m)))
             /\ catching /\ Len(S.claimed) = 1 =>
                  \A k : k \notin Declared(S) =>
                    Given(output.object, k) = Given(text.object, k)
<1> DEFINE S == StructOf(value)
<1>1. /\ IsStruct(S) /\ GivenOnce(text.object) /\ Accepts(S, text.object)
      /\ value.members = Read(S, text.object, catching).members
      /\ value.others = Read(S, text.object, catching).others
      /\ output.object = Write(S, value)
  BY ParsedValue
<1>2. catching \in BOOLEAN /\ (catching => OneCatchAll(S))
  BY DEF Computed
<1> HIDE DEF S
<1>3. LET out == Write(S, value)
      IN  /\ \A k \in DOMAIN out : out[k] # <<>>
          /\ \A m \in DOMAIN S.kind :
               /\ Given(out, m) = WriteMember(S.kind[m], S.codec[m], value.members[m])
               /\ WriteMember(S.kind[m], S.codec[m], value.members[m]) \in Single
          /\ \A m \in DOMAIN S.alias : Given(out, S.alias[m]) = <<>>
          /\ \A k : k \notin Declared(S) =>
               Given(out, k) = IF catching /\ Len(S.claimed) = 1
                               THEN Given(text.object, k) ELSE <<>>
  BY <1>1, <1>2, StructWritten
<1>4. \A m \in DOMAIN S.kind :
        value.members[m] = ReadMember(S.kind[m], S.codec[m], Occurrences(S, text.object, m))
  BY <1>1 DEF Read
<1> QED  BY <1>1, <1>3, <1>4 DEF S

\* With catch-all-fields, what a struct with a catch-all map is given it writes:
\* for every table of types that TypesAssumption admits.
THEOREM NothingLostHolds == Spec => []NothingLost
<1>1. Computed => NothingLost
  <2> DEFINE S == StructOf(value)
             kept == \A n \in DOMAIN text.object :
                        \/ Len(Given(output.object, NameOf(S, n))) = 1
                        \/ text.object[n] \in Nothing
             own == \A m \in DOMAIN S.kind :
                       Given(output.object, m) = WriteMember(S.kind[m], S.codec[m],
                         ReadMember(S.kind[m], S.codec[m], Occurrences(S, text.object, m)))
             caught == \A k : k \notin Declared(S) =>
                          Given(output.object, k) = Given(text.object, k)
  <2> SUFFICES ASSUME Computed, stage \in {"written", "done"}, value.variant # 0,
                      Len(S.claimed) = 1
               PROVE  catching => kept
    BY DEF NothingLost
  <2>1. IsStruct(S) /\ GivenOnce(text.object) /\ Accepts(S, text.object)
    BY ParsedValue
  <2>2. catching => OneCatchAll(S)
    BY SMT DEF OneCatchAll
  <2>3. own /\ (catching => caught)
    BY <2>2, WrittenValue
  <2> HIDE DEF S
  <2>4. ASSUME caught  PROVE kept
    BY <2>1, <2>3, <2>4, StructLosesNothing
  <2> QED  BY <2>3, <2>4
<1> QED  BY <1>1, ComputedHolds, PTL

\* A written value is parsed into its own variant, and none before it: none of those
\* accepted the text it was parsed from.
LEMMA VariantReturns ==
  ASSUME Computed, stage \in {"written", "done"}, value.variant # 0,
         Accepts(StructOf(value), output.object),
         catching => OneCatchAll(StructOf(value))
  PROVE  LET T == Types[type]
         IN  /\ value.variant \in Candidates(T, output)
             /\ \A j \in Candidates(T, output) : value.variant <= j
<1> DEFINE T == Types[type]
           i == value.variant
           S == T.variants[i].struct
<1>1. /\ type \in DOMAIN Types /\ i \in DOMAIN T.variants
      /\ GivenOnce(text.object) /\ Accepts(S, text.object)
      /\ value.members = Read(S, text.object, catching).members
      /\ value.others = Read(S, text.object, catching).others
      /\ output.object = Write(S, value)
      /\ output.tag = T.variants[i].tag
  BY ParsedValue DEF StructOf
<1>2. catching \in BOOLEAN /\ value = Parse(T, text, catching)
  BY DEF Computed
<1>3. \A j \in DOMAIN T.variants : j \in Nat \ {0} /\ IsStruct(T.variants[j].struct)
  BY <1>1, TypesAssumption
<1>4. \A j \in Candidates(T, text) : i <= j
  BY <1>2, <1>3, Parsed
<1>5. Discernible(T)
  BY <1>1, VariantsAssumption
<1>6. i \in Candidates(T, output)
  BY <1>1 DEF Candidates, StructOf
<1> HIDE DEF T
<1>7. ASSUME NEW j \in Candidates(T, output), ~ (i <= j)  PROVE FALSE
  <2>1. j \in DOMAIN T.variants /\ Accepts(T.variants[j].struct, output.object)
    BY DEF Candidates
  <2>2. j < i
    BY <1>1, <1>3, <1>7, <2>1, SMT
  <2>3. CASE T.tagged
    <3>1. T.variants[j].tag = T.variants[i].tag
      BY <1>1, <2>3 DEF Candidates
    <3> QED  BY <1>1, <1>5, <2>1, <2>2, <2>3, <3>1 DEF Discernible
  <2>4. CASE ~ T.tagged
    <3>1. Apart(T.variants[j].struct, S)
      BY <1>1, <1>5, <2>1, <2>2, <2>4 DEF Discernible
    <3>2. ~ Accepts(T.variants[j].struct, text.object)
      BY <1>4, <1>7, <2>1, <2>4 DEF Candidates
    <3>3. catching => OneCatchAll(S)
      BY DEF StructOf, T
    <3> QED  BY <1>1, <1>2, <1>3, <2>1, <3>1, <3>2, <3>3, StructStillRefused
  <2> QED  BY <2>3, <2>4
<1> QED  BY <1>6, <1>7 DEF T

\* An event that was parsed, written and parsed again is the same event, but for
\* the values that codecs spoil: for every table of structs and enumerations, tagged or
\* untagged.
THEOREM RoundTripsHolds == Spec => []RoundTrips
<1>1. Computed => RoundTrips
  <2> DEFINE S == StructOf(value)
             T == Types[type]
  <2> SUFFICES ASSUME Computed, Repeated, catching => OneCatchAll(S)
               PROVE  /\ reparsed.variant = value.variant
                      /\ reparsed.others = value.others
                      /\ \A m \in DOMAIN value.members :
                           SameValue(S.codec[m], value.members[m], reparsed.members[m])
    BY DEF RoundTrips, SameValue
  <2>1. /\ type \in DOMAIN Types /\ value.variant \in DOMAIN T.variants
        /\ IsStruct(S) /\ GivenOnce(text.object) /\ Accepts(S, text.object)
        /\ value.members = Read(S, text.object, catching).members
        /\ value.others = Read(S, text.object, catching).others
        /\ output.object = Write(S, value)
        /\ output.tag = T.variants[value.variant].tag
    BY ParsedValue DEF Repeated
  <2>2. catching \in BOOLEAN /\ reparsed = Parse(T, output, catching)
    BY DEF Computed, Repeated
  <2>3. S = T.variants[value.variant].struct
    BY DEF StructOf
  <2> HIDE DEF S
  <2>4. /\ Accepts(S, output.object)
        /\ Read(S, output.object, catching).others = value.others
        /\ \A m \in DOMAIN S.kind :
             SameValue(S.codec[m], value.members[m],
                       Read(S, output.object, catching).members[m])
    BY <2>1, <2>2, StructReturns
  <2>5. /\ value.variant \in Candidates(T, output)
        /\ \A j \in Candidates(T, output) : value.variant <= j
    BY <2>4, VariantReturns DEF Repeated, S
  <2>6. \A i \in DOMAIN T.variants : i \in Nat \ {0}
    BY <2>1, TypesAssumption
  <2>7. reparsed.variant = value.variant
    <3>1. /\ reparsed.variant \in Candidates(T, output)
          /\ reparsed.variant <= value.variant
      BY <2>2, <2>5, <2>6, Parsed
    <3>2. reparsed.variant \in Nat /\ value.variant \in Nat
      BY <2>5, <2>6, <3>1 DEF Candidates
    <3>3. value.variant <= reparsed.variant
      BY <2>5, <3>1
    <3> QED  BY <3>1, <3>2, <3>3, SMT
  <2> HIDE DEF T
  <2>8. /\ reparsed.members = Read(S, output.object, catching).members
        /\ reparsed.others = Read(S, output.object, catching).others
    BY <2>2, <2>3, <2>5, <2>6, <2>7, Parsed
  <2>9. DOMAIN value.members = DOMAIN S.kind
    BY <2>1 DEF Read
  <2> QED  BY <2>4, <2>7, <2>8, <2>9
<1> QED  BY <1>1, ComputedHolds, PTL
===============================================================================
