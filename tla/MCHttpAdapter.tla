--------------------------- MODULE MCHttpAdapter ---------------------------
(***************************************************************************)
(* HttpAdapter for every build: headers with up to two values, and each    *)
(* kind of body once.                                                      *)
(***************************************************************************)
EXTENDS HttpAdapter

CONSTANTS p, q

MCFeatureSets == {fs \in SUBSET {Order[i] : i \in DOMAIN Order} : fs \ {"PassThrough"} # {}}

MCValues == {p, q, Opaque, Raw}

MCSent == {<<>>, <<p>>, <<p, q>>}

Plain == [kind |-> "http", headers |-> NoHeaders, encoded |-> FALSE, type |-> "none",
          charset |-> "none", marker |-> FALSE, payload |-> "utf-8"]

MCResponses ==
  {[Plain EXCEPT !.headers = [n \in HeaderNames |-> IF n = "x" THEN x ELSE c]] :
     x \in MCSent \cup {<<p, Raw>>, <<Raw, p>>, <<Opaque>>},
     c \in MCSent \cup {<<Opaque, p>>, <<Raw>>}}
  \cup
  {[Plain EXCEPT !.encoded = e, !.type = t, !.charset = c, !.marker = m, !.payload = b] :
     e \in BOOLEAN, t \in {"prefix", "suffix", "other"},
     c \in {"none", "utf-8", "utf-16", "unknown"}, m \in BOOLEAN,
     b \in {"utf-8", "utf-16", "bytes"}}
  \cup
  {[Plain EXCEPT !.kind = k, !.payload = b] : k \in {"http", "bytes"},
                                              b \in {"utf-8", "bytes"}}

=============================================================================
