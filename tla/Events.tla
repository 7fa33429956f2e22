-------------------------------- MODULE Events --------------------------------
(***************************************************************************)
(* An event type of lambda-events at work: the text of an event is parsed  *)
(* into the type, and the value is written as JSON and parsed again, which *)
(* is what a function does that passes an event on to another, stores it   *)
(* or puts it back on a queue, and what every test of the crate does       *)
(* (fixtures/mod.rs, verify_serde_roundtrip).                              *)
(*                                                                         *)
(* The texts are those a service may send for a type: the members of one   *)
(* of its variants, all of them but one with a plain value, that one       *)
(* absent, null, empty, any value its codec tells apart, or under its      *)
(* alias; and with a member the type does not know.                        *)
(***************************************************************************)
EXTENDS Serde

CONSTANTS
    Types,          \* the event types, by name
    Unknown,        \* the name of a member no struct declares
    FractionValues  \* the fractions of a second that a service sends

ASSUME TypesAssumption ==
    \A name \in DOMAIN Types : \A i \in DOMAIN Types[name].variants :
        LET S == Types[name].variants[i].struct
        IN  i \in Nat \ {0} /\ IsStruct(S) /\ Unknown \notin Declared(S)

(***************************************************************************)
(* How serde tells the variants of a type apart after a value of one was   *)
(* written: by their tags; or, without tags, since a variant that refused  *)
(* a text also refuses what a later one writes of it.  For a member of     *)
(* both it refuses nothing that the later one takes, or again what that    *)
(* makes of None, which is written as null or not at all; and if the       *)
(* members it alone has are dropped, it still misses one of them, unless   *)
(* it needs none.                                                          *)
(***************************************************************************)
StillRefused(earlier, later) ==
    \/ /\ later \in MayBeAbsent => earlier \in MayBeAbsent
       /\ later \in MayBeNull => earlier \in MayBeNull
    \/ later \in {"untyped", "optional"} /\ earlier \notin MayBeNull
    \/ later = "omitted" /\ earlier \notin MayBeAbsent

Apart(E, L) ==
    LET own == DOMAIN E.kind \ DOMAIN L.kind
    IN  /\ DOMAIN E.alias = {} /\ DOMAIN L.alias = {}
        /\ \A m \in DOMAIN E.kind \cap DOMAIN L.kind : StillRefused(E.kind[m], L.kind[m])
        /\ \/ \E m \in own : E.kind[m] \notin MayBeAbsent
           \/ \A m \in own : E.kind[m] \in MayBeNull

Discernible(T) ==
    \A i, j \in DOMAIN T.variants :
        i < j => IF T.tagged THEN T.variants[i].tag # T.variants[j].tag
                 ELSE Apart(T.variants[i].struct, T.variants[j].struct)

ASSUME VariantsAssumption == \A name \in DOMAIN Types : Discernible(Types[name])

ASSUME FractionAssumption == FractionValues \subseteq 0..999

VARIABLES
    catching,   \* the Cargo feature catch-all-fields is on
    stage,      \* how far the function is with the event
    type,       \* the name of the event's type
    text,       \* the JSON text received; `from` is the variant it was made for
    value,      \* what it was parsed into
    output,     \* what that was written as
    reparsed    \* what that was parsed into

vars == <<catching, stage, type, text, value, output, reparsed>>

-------------------------------------------------------------------------------
\* The texts a service sends.

Samples(codec) ==
    CASE codec \in {"seconds", "millis", "epoch", "duration"} -> {1} \cup FractionValues
      [] codec = "headers" -> {1, 2}
      [] OTHER -> {1}

Plainly(S) == [m \in DOMAIN S.kind |-> <<1>>]

Without(object, name) == [n \in DOMAIN object \ {name} |-> object[n]]

With(object, name, values) ==
    [n \in DOMAIN object \cup {name} |-> IF n = name THEN values ELSE object[n]]

\* The objects in which one member of a struct is out of the ordinary.
Deviating(S, m) ==
    LET rest == Without(Plainly(S), m)
    IN  {rest}
            \cup {With(rest, m, <<v>>) : v \in Samples(S.codec[m]) \cup {Null, 0}}
            \cup IF m \in DOMAIN S.alias
                 THEN {With(rest, S.alias[m], <<1>>),
                       With(Plainly(S), S.alias[m], <<1>>)}
                 ELSE {}

Objects(S) ==
    {Plainly(S), With(Plainly(S), Unknown, <<1>>)}
        \cup (UNION {Deviating(S, m) : m \in DOMAIN S.kind})
        \cup {With(Without(Plainly(S), m), Unknown, <<1>>) : m \in DOMAIN S.kind}

Texts(T) ==
    (UNION {{[from |-> i, tag |-> T.variants[i].tag, object |-> o] :
                o \in Objects(T.variants[i].struct)} : i \in DOMAIN T.variants})
    \cup IF T.tagged THEN {[from |-> 0, tag |-> Unknown, object |-> <<>>]} ELSE {}

NoText == [from |-> 0, tag |-> "", object |-> <<>>]

-------------------------------------------------------------------------------
\* Parsing and writing.

\* serde's error, and the value before there is one.
Rejected == [variant |-> 0, members |-> <<>>, others |-> <<>>]

\* The variants of a type that a text can be parsed into.
Candidates(T, t) ==
    {i \in DOMAIN T.variants :
        /\ T.tagged => T.variants[i].tag = t.tag
        /\ Accepts(T.variants[i].struct, t.object)}

\* The first of the variants that accept the text is taken.
Parse(T, t, c) ==
    IF Candidates(T, t) = {} THEN Rejected
    ELSE LET i == CHOOSE i \in Candidates(T, t) : \A j \in Candidates(T, t) : i <= j
             v == Read(T.variants[i].struct, t.object, c)
         IN  [variant |-> i, members |-> v.members, others |-> v.others]

Serialize(T, v) ==
    [from   |-> v.variant,
     tag    |-> T.variants[v.variant].tag,
     object |-> Write(T.variants[v.variant].struct, v)]

-------------------------------------------------------------------------------
Init ==
    /\ catching \in BOOLEAN
    /\ stage = "idle"
    /\ type = CHOOSE name \in DOMAIN Types : TRUE
    /\ text = NoText
    /\ value = Rejected
    /\ output = NoText
    /\ reparsed = Rejected

\* The next event arrives.
Receive ==
    /\ stage = "idle"
    /\ \E name \in DOMAIN Types : \E t \in Texts(Types[name]) :
        /\ type' = name
        /\ text' = t
    /\ stage' = "received"
    /\ UNCHANGED <<catching, value, output, reparsed>>

\* serde_json::from_slice of the text; an error ends the work on the event.
ParseText ==
    /\ stage = "received"
    /\ value' = Parse(Types[type], text, catching)
    /\ stage' = IF value'.variant = 0 THEN "done" ELSE "parsed"
    /\ UNCHANGED <<catching, type, text, output, reparsed>>

\* serde_json::to_string of the value.
WriteValue ==
    /\ stage = "parsed"
    /\ output' = Serialize(Types[type], value)
    /\ stage' = "written"
    /\ UNCHANGED <<catching, type, text, value, reparsed>>

\* The written text is parsed where it went, as the same type.
ParseOutput ==
    /\ stage = "written"
    /\ reparsed' = Parse(Types[type], output, catching)
    /\ stage' = "done"
    /\ UNCHANGED <<catching, type, text, value, output>>

\* The function waits for its next event.
Finish ==
    /\ stage = "done"
    /\ stage' = "idle"
    /\ type' = CHOOSE name \in DOMAIN Types : TRUE
    /\ text' = NoText
    /\ value' = Rejected
    /\ output' = NoText
    /\ reparsed' = Rejected
    /\ UNCHANGED catching

Next == Receive \/ ParseText \/ WriteValue \/ ParseOutput \/ Finish

Spec == Init /\ [][Next]_vars

-------------------------------------------------------------------------------
\* Properties.

\* The struct of the variant a value is of.
StructOf(v) == Types[type].variants[v.variant].struct

\* The work on an event ended with its text parsed, written and parsed again.
Repeated == stage = "done" /\ value.variant # 0

\* The values that no codec spoils on the way out and in again: not the fraction of
\* a second of millis and epoch, nor headers with several values for a name.
Lossless(codec, v) ==
    /\ codec \in {"millis", "epoch"} => v \in {Null, 0}
    /\ codec = "headers" => v # 2

\* An event that was parsed, written and parsed again is of the same variant, has the
\* same members in its catch-all map, and each lossless member exactly as it was
\* (fixtures/mod.rs, verify_serde_roundtrip).  Nothing is said of the other members,
\* nor of structs with two catch-all maps when the maps are compiled in.
RoundTrips ==
    Repeated /\ (catching => OneCatchAll(StructOf(value))) =>
        /\ reparsed.variant = value.variant
        /\ reparsed.others = value.others
        /\ \A m \in DOMAIN value.members :
             Lossless(StructOf(value).codec[m], value.members[m])
               => reparsed.members[m] = value.members[m]

\* The name a struct has for a member received.
NameOf(S, n) ==
    IF \E m \in DOMAIN S.alias : S.alias[m] = n
    THEN CHOOSE m \in DOMAIN S.alias : S.alias[m] = n
    ELSE n

\* What stands for nothing: null and the empty value.
Nothing == {<<Null>>, <<0>>}

\* With the feature catch-all-fields nothing of an event is lost on its way
\* through a struct that has a catch-all map: every member received is written,
\* under the name it has in the struct, once, unless it stood for nothing.
NothingLost ==
    (stage \in {"written", "done"} /\ value.variant # 0 /\ catching) =>
        LET S == StructOf(value)
        IN  Len(S.claimed) = 1 =>
              \A n \in DOMAIN text.object :
                 \/ Len(Given(output.object, NameOf(S, n))) = 1
                 \/ text.object[n] \in Nothing

\* An untagged enumeration reads a text as the variant it was written from, if
\* that variant accepts the text: none before it takes the text away.
KeepsVariant ==
    (value.variant # 0 /\ text.from \in Candidates(Types[type], text))
        => value.variant = text.from
===============================================================================
