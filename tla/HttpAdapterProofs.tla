------------------------- MODULE HttpAdapterProofs -------------------------
(***************************************************************************)
(* Proofs for HttpAdapter: for any builds, any headers and parameters of   *)
(* clients and handlers, and any values in them, a service gets a response *)
(* of its kind, and what was sent arrives on either side.                  *)
(***************************************************************************)
EXTENDS HttpAdapter, SequenceTheorems, WellFoundedInduction, TLAPS

-----------------------------------------------------------------------------
(* Sequences.                                                              *)

\* A sequence with one element at most is its first and its last one.
LEMMA OneElement ==
  ASSUME NEW S, NEW s \in Seq(S), Len(s) <= 1
  PROVE  s # <<>> => s = <<Last(s)>> /\ s = <<Head(s)>>
<1> SUFFICES ASSUME s # <<>>  PROVE s = <<s[1]>> /\ Last(s) = s[1] /\ Head(s) = s[1]
  OBVIOUS
<1>1. Len(s) = 1
  <2>1. Len(s) \in Nat \ {0}
    BY EmptySeq
  <2> QED
    BY <2>1
<1>2. <<s[1]>> \in Seq(S) /\ Len(<<s[1]>>) = 1 /\ <<s[1]>>[1] = s[1]
  BY <1>1
<1>3. s = <<s[1]>>
  <2> DEFINE t == <<s[1]>>
  <2>1. t \in Seq(S) /\ Len(t) = Len(s) /\ \A i \in 1..Len(s) : s[i] = t[i]
    BY <1>1, <1>2
  <2> HIDE DEF t
  <2>2. s = t
    BY <2>1, SeqEqual
  <2> QED
    BY <2>2 DEF t
<1> QED
  BY <1>1, <1>3 DEF Last

\* A function on the numbers up to n.
LEMMA FunctionIsSeq ==
  ASSUME NEW S, NEW n \in Nat, NEW f \in [1..n -> S]
  PROVE  f \in Seq(S) /\ Len(f) = n /\ DOMAIN f = 1..n
OBVIOUS

\* A set of numbers that is not empty has a least one.
LEMMA Least ==
  ASSUME NEW T \in SUBSET Nat, T # {}
  PROVE  \E i \in T : \A j \in T : i <= j
<1>1. PICK i \in T : \A j \in T : ~ (<<j, i>> \in OpToRel(<, Nat))
  BY NatLessThanWellFounded, WFMin
<1>2. ASSUME NEW j \in T  PROVE i <= j
  <2>1. ~ (j < i)
    BY <1>1 DEF OpToRel
  <2> QED
    BY <2>1
<1> QED
  BY <1>2

\* Where every value is visible, all of them are kept: by induction on the
\* places, for the equation that defines `kept`.
LEMMA AllVisible ==
  ASSUME NEW S, NEW vs \in Seq(S), \A i \in 1..Len(vs) : vs[i] \notin {Opaque, Raw}
  PROVE  Visible(vs) = vs
<1> DEFINE n == Len(vs)
           step(g) == [i \in 0..n |-> IF i = 0 THEN <<>>
                                      ELSE IF vs[i] \in {Opaque, Raw} THEN g[i - 1]
                                      ELSE Append(g[i - 1], vs[i])]
           f == [i \in 0..n |-> SubSeq(vs, 1, i)]
           kept == CHOOSE g : g = step(g)
<1>1. n \in Nat
  OBVIOUS
<1>2. /\ SubSeq(vs, 1, 0) = <<>> /\ SubSeq(vs, 1, n) = vs
      /\ \A i \in 1..n : /\ i - 1 \in 0..n
                         /\ Append(SubSeq(vs, 1, i - 1), vs[i]) = SubSeq(vs, 1, i)
  OBVIOUS
<1>3. f = step(f)
  <2>1. \A i \in 0..n : f[i] = SubSeq(vs, 1, i)
    OBVIOUS
  <2> HIDE DEF f
  <2>2. ASSUME NEW i \in 0..n  PROVE f[i] = step(f)[i]
    <3>1. CASE i = 0
      BY <1>2, <2>1, <3>1
    <3>2. CASE i # 0
      <4>1. i \in 1..n /\ i - 1 \in 0..n /\ vs[i] \notin {Opaque, Raw}
        BY <1>1, <3>2
      <4>2. step(f)[i] = Append(f[i - 1], vs[i])
        BY <3>2, <4>1
      <4>3. f[i - 1] = SubSeq(vs, 1, i - 1)
        BY <2>1, <4>1
      <4> QED
        BY <1>2, <2>1, <4>1, <4>2, <4>3
    <3> QED
      BY <3>1, <3>2
  <2>3. f = [i \in 0..n |-> f[i]]
    BY DEF f
  <2> QED
    BY <2>2, <2>3
<1>4. kept = step(kept)
  BY <1>3
<1> HIDE DEF f, kept
<1>5. /\ kept[0] = <<>>
      /\ \A i \in 1..n : kept[i] = Append(kept[i - 1], vs[i])
  <2>1. step(kept)[0] = <<>>
    BY <1>1
  <2>2. ASSUME NEW i \in 1..n  PROVE step(kept)[i] = Append(kept[i - 1], vs[i])
    <3>1. i \in 0..n /\ i # 0 /\ vs[i] \notin {Opaque, Raw}
      BY <1>1
    <3> QED
      BY <3>1
  <2> HIDE DEF step
  <2> QED
    BY <1>4, <2>1, <2>2
<1>6. \A i \in 0..n : kept[i] = SubSeq(vs, 1, i)
  <2> DEFINE T == {i \in 0..n : kept[i] # SubSeq(vs, 1, i)}
  <2> SUFFICES ASSUME T # {}  PROVE FALSE
    OBVIOUS
  <2>0. T \in SUBSET Nat
    BY <1>1
  <2>1. PICK i \in T : \A j \in T : i <= j
    <3> HIDE DEF T
    <3> QED
      BY <2>0, Least
  <2>2. i \in 0..n /\ i # 0
    BY <1>2, <1>5, <2>1
  <2>3. i \in 1..n /\ i - 1 \in 0..n /\ ~(i <= i - 1)
    BY <1>1, <2>2
  <2>4. kept[i - 1] = SubSeq(vs, 1, i - 1)
    BY <2>1, <2>3
  <2> QED
    BY <1>2, <1>5, <2>1, <2>3, <2>4
<1>7. Visible(vs) = kept[n]
  BY DEF Visible, kept
<1> QED
  BY <1>1, <1>2, <1>6, <1>7

-----------------------------------------------------------------------------
(* The invariant.                                                          *)

\* A variant is taken when it is the first that fits.
Taken(o) == \E i \in Fitting : /\ \A j \in Fitting : i <= j
                               /\ o = Order[i]

\* What is known of the client: all, until the handler's future is gone.
ClientOK ==
  /\ client.service \in Services
  /\ pc \in {"event", "handling"} =>
       client \in [service : Services, x : Sent, query : Sent,
                   trace : Traces, invocation : Traces]

\* The decision, and the request that was made by it.
OriginOK ==
  /\ pc = "rejected" => Fitting = {}
  /\ pc \notin {"event", "rejected"} => Taken(origin)
  /\ pc = "handling" => request = update_xray_trace_id_header(from(origin))

\* What the client gets is made of the handler's response in one of two ways.
Converted ==
  LET l == from_response(response.headers)
  IN  got = [format |-> l.format, headers |-> ClientHeaders(l), body |-> convert(response).data]

Streamed ==
  /\ response.kind = "http"
  /\ got = [format |-> "stream", body |-> response.payload,
            headers |-> StreamedHeaders(into_stream_response(response.headers))]

ResponseOK ==
  /\ pc \in {"responding", "answered"} => response \in Responses
  /\ pc = "answered" => Converted \/ Streamed

IInv == ClientOK /\ OriginOK /\ ResponseOK

\* Nothing has been decided about an event that has just come.
LEMMA InitIInv ==
  ASSUME Init
  PROVE  IInv
BY DEF Init, IInv, ClientOK, OriginOK, ResponseOK

\* Every step keeps the invariant.
LEMMA NextIInv ==
  ASSUME IInv, [Next]_vars
  PROVE  IInv'
<1> USE DEF IInv, ClientOK, OriginOK, ResponseOK
<1>1. ASSUME UNCHANGED <<features, client>>
      PROVE  Fitting' = Fitting /\ \A o : Taken(o)' = Taken(o)
  BY <1>1 DEF Fitting, Taken
<1>2. CASE Rejected
  BY <1>1, <1>2 DEF Rejected
<1>3. CASE call
  <2>1. PICK i \in Fitting : /\ \A j \in Fitting : i <= j
                             /\ origin' = Order[i]
                             /\ request' = update_xray_trace_id_header(from(Order[i]))
    BY <1>3 DEF call
  <2>2. pc' = "handling" /\ UNCHANGED <<features, client, response, got>> /\ pc = "event"
    BY <1>3 DEF call
  <2>3. Taken(origin')
    BY <2>1 DEF Taken
  <2>4. Taken(origin)'
    BY <1>1, <2>2, <2>3
  <2>5. \A o : from(o)' = from(o)
    BY <2>2 DEF from, extend, query, SingleValue, MultiValue
  <2>6. request' = update_xray_trace_id_header(from(origin))'
    BY <2>1, <2>2, <2>5 DEF update_xray_trace_id_header
  <2> QED
    BY <2>2, <2>4, <2>6
<1>4. CASE HandlerFails \/ \E r \in Responses : HandlerReturns(r)
  <2>1. client'.service = client.service /\ features' = features /\ origin' = origin
    BY <1>4 DEF HandlerFails, HandlerReturns
  <2>2. Taken(origin)' = Taken(origin)
    BY <2>1 DEF Taken, Fitting
  <2> QED
    BY <1>4, <2>1, <2>2 DEF HandlerFails, HandlerReturns
<1>5. CASE BodyPanics
  BY <1>1, <1>5 DEF BodyPanics
<1>6. CASE Respond
  <2>1. UNCHANGED <<features, client, origin, request, response>> /\ pc = "responding"
    BY <1>6 DEF Respond
  <2>2. pc' \in {"answered", "unserializable"} /\ (pc' = "answered" => Converted')
    BY <1>6 DEF Respond, Converted, from_response, ClientHeaders
  <2> QED
    BY <1>1, <2>1, <2>2
<1>7. CASE RespondStreaming
  BY <1>1, <1>7 DEF RespondStreaming, Streamed
<1>8. CASE UNCHANGED vars
  <2>1. UNCHANGED <<pc, features, client, origin, request, response, got>>
    BY <1>8 DEF vars
  <2>2. Converted' = Converted /\ Streamed' = Streamed
    <3>1. ClientHeaders(from_response(response.headers))'
            = ClientHeaders(from_response(response.headers))
      BY <2>1 DEF from_response, ClientHeaders
    <3>2. from_response(response.headers)' = from_response(response.headers)
      BY <2>1 DEF from_response
    <3> QED
      BY <2>1, <3>1, <3>2 DEF Converted, Streamed
  <2>3. \A o : from(o)' = from(o)
    BY <2>1 DEF from, extend, query, SingleValue, MultiValue
  <2>4. update_xray_trace_id_header(from(origin))' = update_xray_trace_id_header(from(origin))
    BY <2>1, <2>3 DEF update_xray_trace_id_header
  <2> QED
    BY <1>1, <2>1, <2>2, <2>4
<1> QED
  BY <1>2, <1>3, <1>4, <1>5, <1>6, <1>7, <1>8 DEF Next

\* In every state what the handler sees and what the client gets is made of what
\* was sent and returned, for the first variant that fits (deserializer.rs:28-55,
\* request.rs, response.rs).
THEOREM Invariant == Spec => []IInv
<1>1. Init => IInv
  BY InitIInv
<1>2. IInv /\ [Next]_vars => IInv'
  BY NextIInv
<1> QED
  BY <1>1, <1>2, PTL DEF Spec

-----------------------------------------------------------------------------
(* The decision.                                                           *)

\* The variants whose types an event of a service deserializes as, but for the
\* last one, which fits any event.
Variants ==
  [rest |-> {"ApiGatewayV1"}, http |-> {"ApiGatewayV2"}, albSingle |-> {"Alb"},
   albMulti |-> {"Alb"}, websocket |-> {"WebSocket"},
   websocketMethod |-> {"ApiGatewayV1", "WebSocket"}, lattice |-> {"VpcLatticeV2"},
   other |-> {}]

\* The table of the required fields against the one of the events.
LEMMA FieldsDecide ==
  ASSUME NEW s \in Services, NEW i \in DOMAIN Order
  PROVE  /\ Requires[Order[i]] \subseteq EventFields[s] =>
              i = 6 \/ Order[i] \in Variants[s]
         /\ Order[i] = FeatureOf[s] => Requires[Order[i]] \subseteq EventFields[s]
<1>1. i \in {1, 2, 3, 4, 5, 6}
  BY DEF Order
<1>2. s \in {"rest", "http", "albSingle", "albMulti", "websocket", "websocketMethod",
             "lattice", "other"}
  BY DEF Services, EventFields
<1>3. CASE s \in {"rest", "http"}
  BY <1>1, <1>3 DEF Order, Requires, RestFields, HttpFields, AlbFields,
     WebSocketFields, LatticeFields, EventFields, Variants, FeatureOf
<1>4. CASE s \in {"albSingle", "albMulti"}
  BY <1>1, <1>4 DEF Order, Requires, RestFields, HttpFields, AlbFields,
     WebSocketFields, LatticeFields, EventFields, Variants, FeatureOf
<1>5. CASE s \in {"websocket", "websocketMethod"}
  BY <1>1, <1>5 DEF Order, Requires, RestFields, HttpFields, AlbFields,
     WebSocketFields, LatticeFields, EventFields, Variants, FeatureOf
<1>6. CASE s \in {"lattice", "other"}
  BY <1>1, <1>6 DEF Order, Requires, RestFields, HttpFields, AlbFields,
     WebSocketFields, LatticeFields, EventFields, Variants, FeatureOf
<1> QED
  BY <1>2, <1>3, <1>4, <1>5, <1>6

\* Each service has its variant, and only bare values the last one.
LEMMA OrderOfFeatures ==
  ASSUME NEW s \in Services
  PROVE  \E j \in 1..6 : Order[j] = FeatureOf[s] /\ (j = 6 => s = "other")
<1>1. s \in {"rest", "http", "albSingle", "albMulti", "websocket", "websocketMethod",
             "lattice", "other"}
  BY DEF Services, EventFields
<1>2. CASE s = "rest"
  <2> WITNESS 1 \in 1..6
  <2> QED
    BY <1>2 DEF Order, FeatureOf
<1>3. CASE s = "http"
  <2> WITNESS 2 \in 1..6
  <2> QED
    BY <1>3 DEF Order, FeatureOf
<1>4. CASE s \in {"albSingle", "albMulti"}
  <2> WITNESS 3 \in 1..6
  <2> QED
    BY <1>4 DEF Order, FeatureOf
<1>5. CASE s \in {"websocket", "websocketMethod"}
  <2> WITNESS 4 \in 1..6
  <2> QED
    BY <1>5 DEF Order, FeatureOf
<1>6. CASE s = "lattice"
  <2> WITNESS 5 \in 1..6
  <2> QED
    BY <1>6 DEF Order, FeatureOf
<1>7. CASE s = "other"
  <2> WITNESS 6 \in 1..6
  <2> QED
    BY <1>7 DEF Order, FeatureOf
<1> QED
  BY <1>1, <1>2, <1>3, <1>4, <1>5, <1>6, <1>7

\* An event is taken for one of its service, or for a bare value if the build
\* does not have the variant of the service.
LEMMA TakenInKind ==
  ASSUME NEW o, Taken(o), client.service \in Services
  PROVE  \/ o \in Variants[client.service]
         \/ /\ o = "PassThrough"
            /\ FeatureOf[client.service] \in features => client.service = "other"
<1> DEFINE s == client.service
<1>1. PICK i \in Fitting : /\ \A j \in Fitting : i <= j
                           /\ o = Order[i]
  BY DEF Taken
<1>2. /\ i \in DOMAIN Order /\ Order[i] \in features
      /\ Requires[Order[i]] \subseteq EventFields[s]
  BY <1>1 DEF Fitting
<1>3. CASE i # 6
  BY <1>1, <1>2, <1>3, FieldsDecide
<1>4. CASE i = 6
  <2>1. o = "PassThrough"
    BY <1>1, <1>4 DEF Order
  <2>2. PICK j \in 1..6 : Order[j] = FeatureOf[s] /\ (j = 6 => s = "other")
    BY OrderOfFeatures
  <2>3. FeatureOf[s] \in features => j \in Fitting
    BY <2>2, FieldsDecide DEF Fitting, Order
  <2>4. FeatureOf[s] \in features => j = 6
    BY <1>1, <1>4, <2>2, <2>3
  <2> QED
    BY <2>1, <2>2, <2>4
<1> QED
  BY <1>3, <1>4

-----------------------------------------------------------------------------
(* The theorems.                                                           *)

\* Whatever features a build has, no service gets the response of another one
\* (deserializer.rs:28-55, response.rs:77-191).
THEOREM InKind == Spec => []ResponseInKind
<1>1. ASSUME IInv  PROVE ResponseInKind
  <2> DEFINE s == client.service
  <2>1. s \in Services
    BY <1>1 DEF IInv, ClientOK
  <2>2. ASSUME pc = "rejected"  PROVE FeatureOf[s] \notin features
    <3>1. PICK j \in 1..6 : Order[j] = FeatureOf[s]
      BY <2>1, OrderOfFeatures
    <3>2. FeatureOf[s] \in features => j \in Fitting
      BY <2>1, <3>1, FieldsDecide DEF Fitting, Order
    <3> QED
      BY <1>1, <2>2, <3>2 DEF IInv, OriginOK
  <2>3. ASSUME pc = "answered", got.format # "stream"
        PROVE  got.format \in {FormatOf[s]} \cup
                                IF FeatureOf[s] \in features THEN {} ELSE {"value"}
    <3>1. got.format = from_response(response.headers).format
      BY <1>1, <2>3 DEF IInv, ResponseOK, Converted, Streamed
    <3>2. \/ origin \in Variants[s]
          \/ /\ origin = "PassThrough"
             /\ FeatureOf[s] \in features => s = "other"
      BY <1>1, <2>1, <2>3, TakenInKind DEF IInv, OriginOK
    <3>3. CASE origin = "PassThrough" /\ (FeatureOf[s] \in features => s = "other")
      BY <3>1, <3>3 DEF from_response, PassThroughValue, FormatOf
    <3>4. CASE origin \in Variants[s]
      <4>1. s \in {"rest", "http", "albSingle", "albMulti", "websocket",
                   "websocketMethod", "lattice", "other"}
        BY <2>1 DEF Services, EventFields
      <4>2. from_response(response.headers).format = FormatOf[s]
        BY <3>4, <4>1 DEF Variants, FormatOf, from_response, ProxyResponse,
                          HttpV2Response, AlbResponse, LatticeResponse
      <4> QED
        BY <3>1, <4>2
    <3> QED
      BY <3>2, <3>3, <3>4
  <2> QED
    BY <2>2, <2>3 DEF ResponseInKind
<1> QED
  BY <1>1, Invariant, PTL

\* The handler sees all values that were sent, in order, where the event has them in
\* one map or there is one at most (request.rs:199-219, 252-269; lib.rs:362-368).
THEOREM RequestComplete == Spec => []RequestArrives
<1>1. ASSUME IInv  PROVE RequestArrives
  <2> SUFFICES ASSUME pc = "handling"  PROVE RequestArrives
    BY DEF RequestArrives
  <2> DEFINE s == client.service
  <2>1. /\ s \in Services
        /\ client.x \in Seq(Values) /\ client.query \in Seq(Values)
    BY <1>1, AdapterAssumption DEF IInv, ClientOK
  <2>2. request = update_xray_trace_id_header(from(origin))
    BY <1>1 DEF IInv, OriginOK
  <2>3. \/ origin \in Variants[s]
        \/ origin = "PassThrough"
    BY <1>1, <2>1, TakenInKind DEF IInv, OriginOK
  <2>4. s \in {"rest", "http", "albSingle", "albMulti", "websocket", "websocketMethod",
               "lattice", "other"}
    BY <2>1 DEF Services, EventFields
  <2>5. client.invocation # NoTrace => request.trace = client.invocation
    BY <2>2 DEF update_xray_trace_id_header, from
  <2>6. ASSUME origin # "PassThrough"
        PROVE  /\ request.x = extend /\ request.query = query
               /\ request.trace \in {client.trace, client.invocation}
    BY <2>2, <2>6 DEF update_xray_trace_id_header, from
  <2>7. /\ Len(client.x) <= 1 /\ client.x # <<>> => <<Last(client.x)>> = client.x
        /\ Len(client.query) <= 1 /\ client.query # <<>> =>
             <<Last(client.query)>> = client.query
    BY <2>1, OneElement
  <2>8. ASSUME NEW v  PROVE <<v>> # <<>>
    OBVIOUS
  <2>9. ASSUME s # "other"
        PROVE  /\ IF s = "http" THEN extend = Joined(client.x)
                  ELSE s \in {"albMulti", "lattice"} \/ Len(client.x) <= 1 =>
                         extend = client.x
               /\ s # "albSingle" \/ Len(client.query) <= 1 => query = client.query
    <3>1. CASE s \in {"rest", "websocket", "websocketMethod", "albSingle"}
      BY <2>7, <2>8, <3>1 DEF extend, SingleValue, MultiValue, query
    <3>2. CASE s = "http"
      BY <2>8, <3>2 DEF extend, SingleValue, MultiValue, query, Joined
    <3>3. CASE s \in {"lattice", "albMulti"}
      BY <2>7, <3>3 DEF extend, SingleValue, MultiValue, query
    <3> QED
      BY <2>4, <2>9, <3>1, <3>2, <3>3
  <2>10. origin # "PassThrough" => s # "other"
    BY <2>3 DEF Variants
  <2> QED
    BY <2>5, <2>6, <2>9, <2>10 DEF RequestArrives
<1> QED
  BY <1>1, Invariant, PTL

\* A body arrives as it is, or readable (response.rs:342-408).
THEOREM BodyReadable == Spec => []BodyArrives
<1>1. ASSUME IInv  PROVE BodyArrives
  <2> SUFFICES ASSUME pc = "answered"  PROVE BodyArrives
    BY DEF BodyArrives
  <2>1. response \in ResponseTypes /\ (response.type = "none" => response.charset = "none")
    BY <1>1, AdapterAssumption DEF IInv, ResponseOK
  <2>2. \/ got.body = convert(response).data
        \/ got.body = response.payload
    BY <1>1 DEF IInv, ResponseOK, Converted, Streamed
  <2>3. /\ response.payload \in {"utf-8", "utf-16", "bytes"}
        /\ response.charset \in {"none", "utf-8", "utf-16", "unknown"}
        /\ response.encoded \in BOOLEAN
    BY <2>1 DEF ResponseTypes
  <2> QED
    BY <2>1, <2>2, <2>3 DEF BodyArrives, convert, Textual, Charset
<1> QED
  BY <1>1, Invariant, PTL

-----------------------------------------------------------------------------
(* The headers of responses.                                               *)

\* What the client of a service may see of the values that were set.
HeadersSeen(h, seen, streamed) ==
  LET visible(vs) == ~Contains(vs, Opaque) /\ ~Contains(vs, Raw)
  IN  /\ IF streamed THEN visible(h["x"]) => seen["x"] = h["x"]
         ELSE seen["x"] = IF client.service \in {"http", "albSingle", "lattice"}
                          THEN First(h["x"]) ELSE h["x"]
      /\ IF ~streamed /\ client.service \in {"albSingle", "lattice"}
         THEN seen["set-cookie"] = First(h["set-cookie"])
         ELSE /\ Len(seen["set-cookie"]) = Len(h["set-cookie"])
              /\ \A i \in DOMAIN h["set-cookie"] :
                   h["set-cookie"][i] \notin {Opaque, Raw} =>
                     seen["set-cookie"][i] = h["set-cookie"][i]
              /\ visible(h["set-cookie"]) => seen["set-cookie"] = h["set-cookie"]

\* What is put in place of the values, apart from their own.
Replaced == Values \cup {"", "mended"}

\* Cookies are replaced in place, and only those that are not visible.
LEMMA CookiesInPlace ==
  ASSUME NEW vs \in Seq(Values), NEW cs \in [DOMAIN vs -> Replaced],
         \A i \in DOMAIN vs : vs[i] \notin {Opaque, Raw} => cs[i] = vs[i]
  PROVE  /\ cs \in Seq(Replaced)
         /\ Len(cs) = Len(vs)
         /\ ~Contains(vs, Opaque) /\ ~Contains(vs, Raw) => cs = vs
<1>1. Len(vs) \in Nat /\ DOMAIN vs = 1..Len(vs)
  BY LenProperties
<1>2. vs \in Seq(Replaced)
  <2>1. Values \subseteq Replaced
    BY DEF Replaced
  <2> QED
    BY <2>1, SeqMonotonic
<1>3. cs \in Seq(Replaced) /\ Len(cs) = Len(vs) /\ DOMAIN cs = DOMAIN vs
  BY <1>1, FunctionIsSeq
<1>4. ASSUME ~Contains(vs, Opaque), ~Contains(vs, Raw)
      PROVE  cs = vs
  <2>1. \A i \in 1..Len(vs) : cs[i] = vs[i]
    BY <1>1, <1>4 DEF Contains
  <2> QED
    BY <1>2, <1>3, <2>1, SeqEqual
<1> QED
  BY <1>3, <1>4

\* What each service reads of the fields.
LEMMA FieldsRead ==
  ASSUME NEW l, DOMAIN l.multi = HeaderNames, NEW n \in HeaderNames
  PROVE  /\ client.service = "albSingle" =>
              ClientHeaders(l)[n] = serialize_headers(l.headers)[n]
         /\ client.service = "albMulti" => ClientHeaders(l)[n] = l.multi[n]
         /\ client.service \notin {"albSingle", "albMulti"} =>
              ClientHeaders(l)[n] = serialize_headers(l.headers)[n] \o l.multi[n]
                                    \o (IF n = "set-cookie" THEN l.cookies ELSE <<>>)
<1> DEFINE single == serialize_headers(l.headers)
<1> HIDE DEF single
<1>1. ClientHeaders(l)[n] =
        CASE client.service = "albSingle" -> single[n]
          [] client.service = "albMulti" -> l.multi[n]
          [] OTHER -> single[n] \o l.multi[n]
                      \o (IF n = "set-cookie" THEN l.cookies ELSE <<>>)
  BY DEF ClientHeaders, single
<1> QED
  BY <1>1 DEF single

\* The services' reading of the fields, for a response of their kind.
LEMMA FieldsSeen ==
  ASSUME NEW h \in [HeaderNames -> Seq(Values)], client.service \in Services,
         origin \in Variants[client.service]
  PROVE  HeadersSeen(h, ClientHeaders(from_response(h)), FALSE)
<1> DEFINE s == client.service  l == from_response(h)  seen == ClientHeaders(l)
<1>1. /\ h["x"] \in Seq(Values) /\ h["set-cookie"] \in Seq(Values)
      /\ "x" \in HeaderNames /\ "set-cookie" \in HeaderNames
      /\ DOMAIN h = HeaderNames
  BY DEF HeaderNames
<1>2. s \in {"rest", "http", "albSingle", "albMulti", "websocket", "websocketMethod",
             "lattice", "other"}
  BY DEF Services, EventFields
<1>3. s # "other"
  BY DEF Variants
<1>4. First(<<>>) = <<>> /\ \A vs \in Seq(Values) : <<>> \o vs = vs /\ vs \o <<>> = vs
  BY DEF First
<1>5. \A vs \in Seq(Values) : First(vs) \in Seq(Values)
  BY DEF First
<1>6. \A vs \in Seq(Values) : DOMAIN vs = 1..Len(vs)
  OBVIOUS
<1>7. CASE s \in {"rest", "websocket", "websocketMethod"}
  <2>1. l = [format |-> "proxy", headers |-> NoHeaders, multi |-> h, cookies |-> <<>>]
    BY <1>7 DEF Variants, from_response, ProxyResponse
  <2>2. /\ serialize_headers(l.headers)["x"] = <<>>
        /\ serialize_headers(l.headers)["set-cookie"] = <<>>
    BY <1>1, <1>4, <2>1 DEF serialize_headers, NoHeaders
  <2>3. seen["x"] = h["x"] /\ seen["set-cookie"] = h["set-cookie"]
    <3>1. /\ DOMAIN l.multi = HeaderNames /\ l.multi = h /\ l.cookies = <<>>
          /\ s \notin {"albSingle", "albMulti"}
      BY <1>1, <1>7, <2>1
    <3>2. \A n \in HeaderNames : <<>> \o h[n] \o <<>> = h[n]
      BY <1>4
    <3> HIDE DEF l
    <3>3. /\ seen["x"] = serialize_headers(l.headers)["x"] \o l.multi["x"] \o <<>>
          /\ seen["set-cookie"] = serialize_headers(l.headers)["set-cookie"]
                                  \o l.multi["set-cookie"] \o l.cookies
      BY <1>1, <3>1, FieldsRead
    <3>4. seen["x"] = <<>> \o h["x"] \o <<>>
      BY <2>2, <3>1, <3>3
    <3>5. seen["set-cookie"] = <<>> \o h["set-cookie"] \o <<>>
      BY <2>2, <3>1, <3>3
    <3> QED
      BY <1>1, <3>2, <3>4, <3>5
  <2> QED
    BY <1>1, <1>6, <1>7, <2>3 DEF HeadersSeen
<1>8. CASE s \in {"albSingle", "albMulti", "lattice"}
  <2>1. /\ l.headers = h
        /\ l.multi = IF s = "lattice" THEN NoHeaders ELSE h
        /\ l.cookies = <<>>
    BY <1>8 DEF Variants, from_response, AlbResponse, LatticeResponse
  <2>2. /\ DOMAIN l.multi = HeaderNames
        /\ \A n \in HeaderNames : serialize_headers(l.headers)[n] = First(h[n])
    BY <1>1, <2>1 DEF serialize_headers, NoHeaders
  <2>3. CASE s = "lattice"
    <3>1. \A n \in HeaderNames : l.multi[n] = <<>>
      BY <2>1, <2>3 DEF NoHeaders
    <3>2. seen["x"] = First(h["x"]) /\ seen["set-cookie"] = First(h["set-cookie"])
      <4>1. \A n \in HeaderNames : /\ First(h[n]) \o l.multi[n] \o <<>> = First(h[n])
                                   /\ First(h[n]) \o l.multi[n] \o l.cookies = First(h[n])
        BY <1>4, <1>5, <2>1, <3>1
      <4>2. s \notin {"albSingle", "albMulti"}
        BY <2>3
      <4> HIDE DEF l
      <4> QED
        BY <1>1, <2>2, <4>1, <4>2, FieldsRead
    <3> QED
      BY <2>3, <3>2 DEF HeadersSeen
  <2>4. CASE s # "lattice"
    <3>0. l.multi = h
      BY <2>1, <2>4
    <3>1. \A n \in HeaderNames : seen[n] = IF s = "albSingle" THEN First(h[n]) ELSE h[n]
      BY <1>8, <2>2, <2>4, <3>0, FieldsRead
    <3> QED
      BY <1>1, <1>6, <1>8, <2>4, <3>1 DEF HeadersSeen
  <2> QED
    BY <2>3, <2>4
<1>9. CASE s = "http"
  <2> DEFINE sent == h["set-cookie"]  cs == [i \in DOMAIN sent |-> Cookie(sent[i])]
  <2>1. l = [format |-> "httpV2", headers |-> [h EXCEPT !["set-cookie"] = <<>>],
             multi |-> NoHeaders, cookies |-> cs]
    BY <1>9 DEF Variants, from_response, HttpV2Response
  <2>2. /\ cs \in Seq(Replaced)
        /\ Len(cs) = Len(sent)
        /\ \A i \in DOMAIN sent : sent[i] \notin {Opaque, Raw} => cs[i] = sent[i]
        /\ ~Contains(sent, Opaque) /\ ~Contains(sent, Raw) => cs = sent
    <3>1. cs \in [DOMAIN sent -> Replaced]
      <4>1. \A i \in DOMAIN sent : Cookie(sent[i]) \in Replaced
        BY <1>1, LenProperties, ElementOfSeq DEF Cookie, Replaced
      <4> QED
        BY <4>1
    <3>2. \A i \in DOMAIN sent : sent[i] \notin {Opaque, Raw} => cs[i] = sent[i]
      BY DEF Cookie
    <3> HIDE DEF cs
    <3> QED
      BY <1>1, <3>1, <3>2, CookiesInPlace
  <2> HIDE DEF cs
  <2>3. /\ serialize_headers(l.headers)["x"] = First(h["x"])
        /\ serialize_headers(l.headers)["set-cookie"] = <<>>
        /\ l.multi["x"] = <<>> /\ l.multi["set-cookie"] = <<>>
        /\ DOMAIN l.multi = HeaderNames
        /\ l.cookies = cs
    BY <1>1, <1>4, <2>1 DEF serialize_headers, NoHeaders, HeaderNames
  <2>4. <<>> \o <<>> = <<>> /\ <<>> \o cs = cs
    BY <2>2, EmptySeq, ConcatEmptySeq
  <2>5. seen["x"] = First(h["x"]) /\ seen["set-cookie"] = cs
    <3>1. First(h["x"]) \o <<>> \o <<>> = First(h["x"]) /\ <<>> \o <<>> \o cs = cs
      BY <1>1, <1>4, <1>5, <2>4
    <3>2. s \notin {"albSingle", "albMulti"}
      BY <1>9
    <3> HIDE DEF l
    <3> QED
      BY <1>1, <2>3, <3>1, <3>2, FieldsRead
  <2> QED
    BY <1>9, <2>2, <2>5 DEF HeadersSeen
<1> QED
  BY <1>2, <1>3, <1>7, <1>8, <1>9

\* The prelude of a stream, which every service reads alike.
LEMMA PreludeSeen ==
  ASSUME NEW h \in [HeaderNames -> Seq(Values)]
  PROVE  HeadersSeen(h, StreamedHeaders(into_stream_response(h)), TRUE)
<1> DEFINE sent == h["set-cookie"]
           cs == [i \in DOMAIN sent |-> Mended(sent[i])]
           p == into_stream_response(h)
<1>1. /\ h["x"] \in Seq(Values) /\ sent \in Seq(Values)
      /\ "x" \in HeaderNames /\ "set-cookie" \in HeaderNames
      /\ DOMAIN h = HeaderNames
  BY DEF HeaderNames
<1>2. /\ cs \in Seq(Replaced)
      /\ Len(cs) = Len(sent)
      /\ \A i \in DOMAIN sent : sent[i] \notin {Opaque, Raw} => cs[i] = sent[i]
      /\ ~Contains(sent, Opaque) /\ ~Contains(sent, Raw) => cs = sent
  <2>1. cs \in [DOMAIN sent -> Replaced]
    <3>1. \A i \in DOMAIN sent : Mended(sent[i]) \in Replaced
      BY <1>1, LenProperties, ElementOfSeq DEF Mended, Replaced
    <3> QED
      BY <3>1
  <2>2. \A i \in DOMAIN sent : sent[i] \notin {Opaque, Raw} => cs[i] = sent[i]
    BY DEF Mended
  <2> HIDE DEF cs
  <2> QED
    BY <1>1, <2>1, <2>2, CookiesInPlace
<1> HIDE DEF cs
<1>3. p = [headers |-> [h EXCEPT !["set-cookie"] = <<>>], cookies |-> cs]
  BY DEF into_stream_response, cs
<1>4. Visible(<<>>) = <<>>
  <2>1. <<>> \in Seq(Values) /\ \A i \in 1..Len(<<>>) : <<>>[i] \notin {Opaque, Raw}
    OBVIOUS
  <2> QED
    BY <2>1, AllVisible
<1>5. /\ PreludeHeaders(p.headers)["x"] = Visible(h["x"])
      /\ PreludeHeaders(p.headers)["set-cookie"] = <<>>
      /\ DOMAIN PreludeHeaders(p.headers) = HeaderNames
  BY <1>1, <1>3, <1>4 DEF PreludeHeaders
<1>6. <<>> \o cs = cs
  BY <1>2, ConcatEmptySeq
<1>7. /\ StreamedHeaders(p)["x"] = Visible(h["x"])
      /\ StreamedHeaders(p)["set-cookie"] = cs
  <2> DEFINE q == PreludeHeaders(p.headers)
  <2>1. StreamedHeaders(p) = [q EXCEPT !["set-cookie"] = q["set-cookie"] \o cs]
    BY <1>3 DEF StreamedHeaders
  <2>2. q = [n \in HeaderNames |-> q[n]]
    BY <1>5 DEF PreludeHeaders
  <2> HIDE DEF q
  <2> QED
    BY <1>1, <1>5, <1>6, <2>1, <2>2 DEF q
<1>8. ~Contains(h["x"], Opaque) /\ ~Contains(h["x"], Raw) => Visible(h["x"]) = h["x"]
  BY <1>1, AllVisible DEF Contains
<1> QED
  BY <1>2, <1>7, <1>8 DEF HeadersSeen

\* The client gets every value that the handler set, once and in order, if the
\* format has room for several or there is one at most, and each cookie that is
\* text at its place (response.rs:77-178, streaming.rs:140-168).
THEOREM HeadersComplete == Spec => []HeadersArrive
<1>1. ASSUME IInv  PROVE HeadersArrive
  <2> SUFFICES ASSUME pc = "answered", got.format # "value"  PROVE HeadersArrive
    BY DEF HeadersArrive
  <2>1. response.headers \in [HeaderNames -> Seq(Values)] /\ client.service \in Services
    BY <1>1, AdapterAssumption DEF IInv, ClientOK, ResponseOK, ResponseTypes
  <2>2. HeadersSeen(response.headers, got.headers, got.format = "stream")
    <3>1. CASE Streamed
      <4>1. /\ got.format = "stream"
            /\ got.headers = StreamedHeaders(into_stream_response(response.headers))
        BY <3>1 DEF Streamed
      <4>2. (got.format = "stream") = TRUE
        BY <4>1
      <4> QED
        BY <2>1, <4>1, <4>2, PreludeSeen
    <3>2. CASE Converted
      <4>1. /\ got.format = from_response(response.headers).format
            /\ got.headers = ClientHeaders(from_response(response.headers))
        BY <3>2 DEF Converted
      <4>2. origin \in Variants[client.service] \/ origin = "PassThrough"
        BY <1>1, <2>1, TakenInKind DEF IInv, OriginOK
      <4>3. origin # "PassThrough"
        BY <4>1 DEF from_response, PassThroughValue
      <4>4. got.format # "stream"
        BY <4>1 DEF from_response, PassThroughValue, ProxyResponse, HttpV2Response,
                    AlbResponse, LatticeResponse
      <4>5. (got.format = "stream") = FALSE
        BY <4>4
      <4> QED
        BY <2>1, <4>1, <4>2, <4>3, <4>5, FieldsSeen
    <3> QED
      BY <1>1, <3>1, <3>2 DEF IInv, ResponseOK
  <2>3. \A n \in HeaderNames :
          /\ Len(response.headers[n]) <= 1 => First(response.headers[n]) = response.headers[n]
          /\ (\A i \in DOMAIN response.headers[n] :
                response.headers[n][i] \notin {Opaque, Raw})
             => /\ ~Contains(response.headers[n], Opaque)
                /\ ~Contains(response.headers[n], Raw)
    <3> SUFFICES ASSUME NEW n \in HeaderNames, NEW h \in Seq(Values),
                        h = response.headers[n]
                 PROVE  /\ Len(h) <= 1 => First(h) = h
                        /\ (\A i \in DOMAIN h : h[i] \notin {Opaque, Raw}) =>
                             ~Contains(h, Opaque) /\ ~Contains(h, Raw)
      BY <2>1
    <3>1. Len(h) <= 1 => First(h) = h
      BY OneElement DEF First
    <3>2. DOMAIN h = 1..Len(h)
      OBVIOUS
    <3> QED
      BY <3>1, <3>2 DEF Contains
  <2>4. HeaderNames = {"x", "set-cookie"}
    BY DEF HeaderNames
  <2> QED
    BY <2>2, <2>3, <2>4 DEF HeadersArrive, HeadersSeen, OneValue
<1> QED
  BY <1>1, Invariant, PTL

=============================================================================
