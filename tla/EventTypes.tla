----------------------------- MODULE EventTypes -----------------------------
(***************************************************************************)
(* Constructors for the tables of the event types.  A struct is given by   *)
(* its members' JSON names, grouped by kind, with the groups of the codecs *)
(* other than "exact" beside them, and by `alias` where it has one.        *)
(*   Closed(g)       a struct without a catch-all map                      *)
(*   Open(g)         a struct with the catch-all map `other`               *)
(*   Flatten(S, I)   a struct S whose flattened members are the structs I, *)
(*                   in order; S is given by its own members               *)
(*   Plain(S), Untagged(V), Tagged(V)                                      *)
(*                   a type: one struct, or an enumeration by its variants *)
(***************************************************************************)
EXTENDS Serde, TLC

LOCAL INSTANCE SequencesExt

Grouped(g, groups, name, otherwise) ==
    LET in == {x \in groups \cap DOMAIN g : name \in g[x]}
    IN  IF in = {} THEN otherwise ELSE CHOOSE x \in in : TRUE

Closed(g) ==
    LET names == UNION {g[x] : x \in Kinds \cap DOMAIN g}
    IN  [kind    |-> [m \in names |-> Grouped(g, Kinds, m, "required")],
         codec   |-> [m \in names |-> Grouped(g, Codecs, m, "exact")],
         alias   |-> IF "alias" \in DOMAIN g THEN g.alias ELSE <<>>,
         claimed |-> <<>>]

Open(g) == LET S == Closed(g) IN [S EXCEPT !.claimed = <<Declared(S)>>]

(***************************************************************************)
(* serde(flatten).  The members that are not the struct's own are gathered *)
(* and offered to the flattened structs in turn.  One without a catch-all  *)
(* map takes its members out of the gathered ones; one with a catch-all    *)
(* map is itself read as a map, looks through all of them and takes none   *)
(* out, so what follows it is offered them again.  The struct's own        *)
(* catch-all map comes last.                                               *)
(***************************************************************************)
AddFlattened(S, taken, I) ==
    [struct |-> [kind    |-> S.kind @@ I.kind,
                 codec   |-> S.codec @@ I.codec,
                 alias   |-> S.alias @@ I.alias,
                 claimed |-> S.claimed \o
                                [i \in DOMAIN I.claimed |-> I.claimed[i] \cup taken]],
     taken  |-> IF I.claimed = <<>> THEN taken \cup Declared(I) ELSE taken]

Flatten(S, inner) ==
    LET start == [struct |-> [S EXCEPT !.claimed = <<>>], taken |-> Declared(S)]
        all   == FoldLeft(LAMBDA acc, I : AddFlattened(acc.struct, acc.taken, I), start, inner)
    IN  [all.struct EXCEPT !.claimed =
            @ \o [i \in DOMAIN S.claimed |-> all.taken]]

\* A type is an enumeration of structs: the tag in the JSON text says which, or
\* the first that accepts the object is taken.
Untagged(variants) ==
    [tagged |-> FALSE, variants |-> [i \in DOMAIN variants |-> [tag |-> "", struct |-> variants[i]]]]

Plain(S) == Untagged(<<S>>)

PlainTypes(structs) == [name \in DOMAIN structs |-> Plain(structs[name])]

Tagged(variants) ==
    [tagged |-> TRUE,
     variants |-> [i \in DOMAIN variants |->
                    [tag |-> variants[i][1], struct |-> variants[i][2]]]]

\* An enumeration of unit variants: the tag is all there is.
Named(names) == Tagged([i \in DOMAIN names |-> <<names[i], Closed(<<>>)>>])
=============================================================================
