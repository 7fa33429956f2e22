-------------------------------- MODULE Serde --------------------------------
(***************************************************************************)
(* How a struct of lambda-events is read from a JSON object and written to *)
(* one: what the Deserialize and Serialize that serde's derive macros make *)
(* of its attributes do.  serde is a dependency; the attributes, and so    *)
(* the kinds below, are those the structs of lambda-events use.            *)
(*                                                                         *)
(* An object is a function from the names of its members to the values     *)
(* given to each, in order: a name may occur more than once in a JSON      *)
(* text.  A struct is a record of                                          *)
(*   kind   what each of its members may be, by the member's JSON name     *)
(*   codec  how each member's value is converted                           *)
(*   alias  the second name some members are also read under               *)
(*   claimed for each catch-all map `other` of the struct, its own and     *)
(*          those of the structs it flattens, in the order they are read:  *)
(*          the names that map does not take                               *)
(***************************************************************************)
EXTENDS Encodings, Sequences

(***************************************************************************)
(* The kinds of members, by their attributes.                              *)
(*   required        T                                                     *)
(*   untyped         serde_json::Value: must be there, may be null         *)
(*   optional        Option<T>, or a Value with serde(default)             *)
(*   omitted         Option<T> with skip_serializing_if Option::is_none    *)
(*   defaulted       T with serde(default)                                 *)
(*   nullable        T with serde(default) and a deserialize_with that     *)
(*                   takes null for the default (deserialize_nullish,      *)
(*                   deserialize_headers, deserialize_empty)               *)
(*   nullableOmitted the same, not written when it is empty                *)
(***************************************************************************)
Kinds == {"required", "untyped", "optional", "omitted", "defaulted",
          "nullable", "nullableOmitted"}

\* Faulty variant: skip_serializing_if without serde(default).
MayBeAbsentUnlessSkipped == Kinds \ {"required", "untyped", "nullableOmitted"}

MayBeAbsent == Kinds \ {"required", "untyped"}

MayBeNull == Kinds \ {"required", "defaulted"}

\* What a member that is not there, or is null, is read as: None or Value::Null,
\* else the default of its type.
Missing(kind, codec) ==
    IF kind \in {"untyped", "optional", "omitted"} THEN Null ELSE Decode(codec, 0)

\* skip_serializing_if
Skipped(kind, v) == \/ kind = "omitted" /\ v = Null
                    \/ kind = "nullableOmitted" /\ v = 0

\* The values an object gives to a name.
Given(object, name) == IF name \in DOMAIN object THEN object[name] ELSE <<>>

\* The values an object gives to a member, under its name or its alias.
Occurrences(S, object, m) ==
    Given(object, m)
        \o (IF m \in DOMAIN S.alias THEN Given(object, S.alias[m]) ELSE <<>>)

\* The names a struct reads.
Declared(S) == DOMAIN S.kind \cup {S.alias[m] : m \in DOMAIN S.alias}

\* "missing field", "invalid type: null" and "duplicate field" are the errors.
AcceptsMember(kind, occurrences) ==
    /\ Len(occurrences) <= 1
    /\ occurrences = <<>> => kind \in MayBeAbsent
    /\ occurrences = <<Null>> => kind \in MayBeNull

ReadMember(kind, codec, occurrences) ==
    IF occurrences = <<>> \/ occurrences = <<Null>>
    THEN Missing(kind, codec)
    ELSE Decode(codec, occurrences[1])

WriteMember(kind, codec, v) ==
    IF Skipped(kind, v) THEN <<>>
    ELSE IF v = Null THEN <<Null>>
    ELSE <<Encode(codec, v)>>

\* Faulty variant: `other` without serde(flatten) is a member like any other.
CatchUnflattened(object, claimed) ==
    [name \in (DOMAIN object \cap {"other"}) \ claimed |-> object[name][Len(object[name])]]

\* A catch-all map keeps the last value of each name it takes.
Catch(object, claimed) ==
    [name \in DOMAIN object \ claimed |-> object[name][Len(object[name])]]

Accepts(S, object) ==
    \A m \in DOMAIN S.kind :
        AcceptsMember(S.kind[m], Occurrences(S, object, m))

\* The Rust value of an accepted object.  The catch-all maps are there when the
\* Cargo feature catch-all-fields is on (catching).
Read(S, object, catching) ==
    [members |-> [m \in DOMAIN S.kind |->
                    ReadMember(S.kind[m], S.codec[m], Occurrences(S, object, m))],
     others  |-> IF catching
                 THEN [i \in DOMAIN S.claimed |-> Catch(object, S.claimed[i])]
                 ELSE <<>>]

\* What the i-th catch-all map of a value writes under a name.
Caught(value, i, name) ==
    IF i \in DOMAIN value.others /\ name \in DOMAIN value.others[i]
    THEN <<value.others[i][name]>>
    ELSE <<>>

\* All a value writes under a name.  No struct has more than two catch-all maps.
WrittenAs(S, value, name) ==
    (IF name \in DOMAIN S.kind
     THEN WriteMember(S.kind[name], S.codec[name], value.members[name])
     ELSE <<>>)
        \o Caught(value, 1, name) \o Caught(value, 2, name)

Write(S, value) ==
    LET names == DOMAIN S.kind
                    \cup UNION {DOMAIN value.others[i] : i \in DOMAIN value.others}
    IN  [name \in {n \in names : WrittenAs(S, value, n) # <<>>} |->
            WrittenAs(S, value, name)]

\* A struct that flattens one with a catch-all map and has its own has two.
OneCatchAll(S) == Len(S.claimed) <= 1

(***************************************************************************)
(* What a struct is: kinds and codecs for its members, where what is left  *)
(* out when it is empty has no codec that makes something empty; second    *)
(* names that are not the names of members nor shared; and, where there is *)
(* only one, a catch-all map of all that the struct does not read.         *)
(***************************************************************************)
IsStruct(S) ==
    /\ S.kind \in [DOMAIN S.kind -> Kinds]
    /\ S.codec \in [DOMAIN S.kind -> Codecs]
    /\ \A m \in DOMAIN S.kind :
         S.kind[m] = "nullableOmitted" => S.codec[m] \in {"exact", "headers"}
    /\ DOMAIN S.alias \subseteq DOMAIN S.kind
    /\ \A m \in DOMAIN S.alias :
         /\ S.alias[m] \notin DOMAIN S.kind
         /\ \A n \in DOMAIN S.alias : S.alias[m] = S.alias[n] => m = n
    /\ S.claimed \in Seq(SUBSET UNION {S.claimed[i] : i \in DOMAIN S.claimed})
    /\ OneCatchAll(S) => \A i \in DOMAIN S.claimed : S.claimed[i] = Declared(S)
=============================================================================
