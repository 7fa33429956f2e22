---------------------------- MODULE HttpAdapter ----------------------------
(***************************************************************************)
(* The adapters of lambda-http: an event of one of five services is        *)
(* recognised (deserializer.rs), converted to a request (request.rs), and  *)
(* the handler's response to a response of the same service (response.rs), *)
(* which lambda-events serializes, or, for a streamed response, to the     *)
(* prelude of a stream whatever the service is (streaming.rs).             *)
(*                                                                         *)
(* What the client sends and gets is here as well: the services put        *)
(* requests into events and read responses as the comments of the code and *)
(* the fixtures of lambda-events say.  A header map gives each name the    *)
(* sequence of its values.                                                 *)
(***************************************************************************)
EXTENDS Naturals, Sequences, SequencesExt

CONSTANTS
  FeatureSets, (* sets of crate features that builds enable                 *)
  Values,      (* values of headers and parameters                          *)
  Sent,        (* what clients send: values of "x" and of the query         *)
  Traces,      (* trace ids: of the client, of the invocation               *)
  Responses,   (* what handlers return                                      *)
  NoTrace

\* A value of the handler that is not visible ASCII, and one that is not UTF-8.
CONSTANTS Opaque, Raw

HeaderNames == {"x", "set-cookie"}

(***************************************************************************)
(* A response: of the conversion of its body, whether the body's type      *)
(* decides it (ConvertBody, "http") or it is binary in any case ("bytes"); *)
(* whether there is a content encoding; what its content type is like and  *)
(* the charset in it; whether it has x-lambda-http-content-encoding.       *)
(***************************************************************************)
ResponseTypes ==
  [kind : {"http", "bytes"}, headers : [HeaderNames -> Seq(Values)],
   encoded : BOOLEAN, type : {"none", "prefix", "suffix", "other"},
   charset : {"none", "utf-8", "utf-16", "unknown"}, marker : BOOLEAN,
   payload : {"utf-8", "utf-16", "bytes"}]

\* A charset is part of a content type.
ASSUME AdapterAssumption ==
  /\ Sent \subseteq Seq(Values)
  /\ \A r \in Responses : /\ r \in ResponseTypes
                          /\ r.type = "none" => r.charset = "none"

VARIABLES
  pc,
  features,
  client,   (* the service it talks to, and what it sent                    *)
  origin,
  request,  (* what the handler sees                                        *)
  response, (* what the handler returns                                     *)
  got       (* what the client gets                                         *)

vars == <<pc, features, client, origin, request, response, got>>

None == "none"

-----------------------------------------------------------------------------
(* The events.                                                             *)

\* The fields that tell the types apart.  A WebSocket event may have a method.
EventFields ==
  [rest |-> {"httpMethod", "requestContext.httpMethod"},
   http |-> {"requestContext.http"},
   albSingle |-> {"httpMethod", "requestContext.elb"},
   albMulti |-> {"httpMethod", "requestContext.elb"},
   websocket |-> {"requestContext.connectedAt"},
   websocketMethod |-> {"httpMethod", "requestContext.httpMethod",
                        "requestContext.connectedAt"},
   lattice |-> {"requestContext.serviceArn"},
   other |-> {}]

Services == DOMAIN EventFields

\* The response that a service expects.
FormatOf ==
  [rest |-> "proxy", http |-> "httpV2", albSingle |-> "alb", albMulti |-> "alb",
   websocket |-> "proxy", websocketMethod |-> "proxy", lattice |-> "lattice",
   other |-> "value"]

Joined(vs) == IF vs = <<>> THEN <<>> ELSE <<vs>>

\* Faulty variant: a request context whose method is not required.
RestFieldsNoContext == {"httpMethod"}

\* The fields without which each type does not deserialize, of those that tell the
\* types apart; any event is a bare value.
RestFields == {"httpMethod", "requestContext.httpMethod"}
HttpFields == {"requestContext.http"}
AlbFields == {"httpMethod", "requestContext.elb"}
WebSocketFields == {"requestContext.connectedAt"}
LatticeFields == {"requestContext.serviceArn"}

\* The type of each variant.
Requires ==
  [ApiGatewayV1 |-> RestFields, ApiGatewayV2 |-> HttpFields, Alb |-> AlbFields,
   WebSocket |-> WebSocketFields, VpcLatticeV2 |-> LatticeFields, PassThrough |-> {}]

Order == <<"ApiGatewayV1", "ApiGatewayV2", "Alb", "WebSocket", "VpcLatticeV2",
           "PassThrough">>

\* The places in this order of the variants that fit.
Fitting == {i \in DOMAIN Order :
              /\ Order[i] \in features
              /\ Requires[Order[i]] \subseteq EventFields[client.service]}

-----------------------------------------------------------------------------
(* The request.                                                            *)

\* The header "x" in the event's `headers`: the last value, all of them, or
\* all of them joined by commas, which still are one value.
SingleValue ==
  CASE client.service \in {"rest", "websocket", "websocketMethod", "albSingle"} ->
         IF client.x = <<>> THEN <<>> ELSE <<Last(client.x)>>
    [] client.service = "http" -> Joined(client.x)
    [] client.service = "lattice" -> client.x
    [] OTHER -> <<>>

\* The same in `multi_value_headers`, where the type has it.
MultiValue ==
  IF client.service \in {"rest", "websocket", "websocketMethod", "albMulti"}
  THEN client.x ELSE <<>>

\* Faulty variant: only one of the two fields is looked at.
only_multi == MultiValue

\* multi.extend(single): a name of the second map replaces the first one's.
extend == IF SingleValue # <<>> THEN SingleValue ELSE MultiValue

\* The multi-valued parameters if there are any, else the single ones; all of
\* the raw query string (httpV2).
query == IF client.service = "albSingle" /\ client.query # <<>>
         THEN <<Last(client.query)>> ELSE client.query

\* From<LambdaRequest>.  A pass-through request has the event as its body only.
from(type) ==
  IF type = "PassThrough" THEN [x |-> <<>>, query |-> <<>>, trace |-> NoTrace]
  ELSE [x |-> extend, query |-> query, trace |-> client.trace]

update_xray_trace_id_header(r) ==
  IF client.invocation # NoTrace THEN [r EXCEPT !.trace = client.invocation] ELSE r

-----------------------------------------------------------------------------
(* The body: ConvertBody, for a payload that is text in the encoding       *)
(* `payload` or no text at all ("bytes").                                  *)

Charset(r) == IF r.type = "none" \/ r.charset \notin {"utf-8", "utf-16"}
              THEN "utf-8" ELSE r.charset

\* Faulty variant: the type is looked at before the content encoding.
TextualFirst(r) == r.type \in {"none", "prefix", "suffix"} \/ r.marker

\* A prefix or suffix of the content type, or the header
\* x-lambda-http-content-encoding, makes it text, but a content encoding binary.
Textual(r) == /\ ~r.encoded
              /\ r.type \in {"none", "prefix", "suffix"} \/ r.marker

\* Text is decoded, what does not decode is replaced; text is sent as UTF-8.
convert(r) ==
  IF r.kind = "http" /\ Textual(r)
  THEN [base64 |-> FALSE,
        data |-> IF r.payload = Charset(r) THEN "utf-8" ELSE "garbled"]
  ELSE [base64 |-> TRUE, data |-> r.payload]

-----------------------------------------------------------------------------
(* The response.                                                           *)

NoHeaders == [n \in HeaderNames |-> <<>>]

\* to_str().ok().unwrap_or_default()
Cookie(v) == IF v \in {Opaque, Raw} THEN "" ELSE v

\* Faulty variant: both fields get the headers.
ProxyResponseBoth(h) == [format |-> "proxy", headers |-> h, multi |-> h, cookies |-> <<>>]

ProxyResponse(h) ==
  [format |-> "proxy", headers |-> NoHeaders, multi |-> h, cookies |-> <<>>]

HttpV2Response(h) ==
  [format |-> "httpV2", headers |-> [h EXCEPT !["set-cookie"] = <<>>],
   multi |-> NoHeaders,
   cookies |-> [i \in DOMAIN h["set-cookie"] |-> Cookie(h["set-cookie"][i])]]

AlbResponse(h) == [format |-> "alb", headers |-> h, multi |-> h, cookies |-> <<>>]

LatticeResponse(h) ==
  [format |-> "lattice", headers |-> h, multi |-> NoHeaders, cookies |-> <<>>]

PassThroughValue ==
  [format |-> "value", headers |-> NoHeaders, multi |-> NoHeaders, cookies |-> <<>>]

from_response(h) ==
  CASE origin \in {"ApiGatewayV1", "WebSocket"} -> ProxyResponse(h)
    [] origin = "ApiGatewayV2" -> HttpV2Response(h)
    [] origin = "Alb" -> AlbResponse(h)
    [] origin = "VpcLatticeV2" -> LatticeResponse(h)
    [] OTHER -> PassThroughValue

\* serialize_headers: the first value of each name.
First(vs) == IF vs = <<>> THEN <<>> ELSE <<Head(vs)>>
serialize_headers(h) == [n \in DOMAIN h |-> First(h[n])]

\* A value that is not UTF-8 is an error, unless it is not looked at.
Serializable(l) ==
  \A n \in DOMAIN l.multi : /\ ~Contains(serialize_headers(l.headers)[n], Raw)
                            /\ ~Contains(l.multi[n], Raw)

\* What the service makes of it: API Gateway merges the two fields, an ALB
\* reads the one it is configured for.
ClientHeaders(l) ==
  LET single == serialize_headers(l.headers)
  IN [n \in DOMAIN l.multi |->
        CASE client.service = "albSingle" -> single[n]
          [] client.service = "albMulti" -> l.multi[n]
          [] OTHER -> single[n] \o l.multi[n]
                      \o (IF n = "set-cookie" THEN l.cookies ELSE <<>>)]

-----------------------------------------------------------------------------
(* The streamed response.                                                  *)

\* from_utf8_lossy
Mended(v) == IF v = Raw THEN "mended" ELSE v

\* Cookies are taken out of the headers.
into_stream_response(h) ==
  [headers |-> [h EXCEPT !["set-cookie"] = <<>>],
   cookies |-> [i \in DOMAIN h["set-cookie"] |-> Mended(h["set-cookie"][i])]]

\* The values that are visible ASCII.
Visible(vs) ==
  LET kept[i \in 0..Len(vs)] ==
        IF i = 0 THEN <<>>
        ELSE IF vs[i] \in {Opaque, Raw} THEN kept[i - 1]
        ELSE Append(kept[i - 1], vs[i])
  IN  kept[Len(vs)]

\* The JSON of a header map has these.
PreludeHeaders(h) == [n \in DOMAIN h |-> Visible(h[n])]

\* The service sets a cookie for each that it finds in the prelude.
StreamedHeaders(prelude) ==
  [PreludeHeaders(prelude.headers) EXCEPT !["set-cookie"] = @ \o prelude.cookies]

-----------------------------------------------------------------------------
Init ==
  /\ pc = "event"
  /\ features \in FeatureSets
  /\ client \in [service : Services, x : Sent, query : Sent,
                 trace : Traces, invocation : Traces]
  /\ origin = None /\ request = None /\ response = None /\ got = None

\* No type fits: the event does not deserialize.
Rejected ==
  /\ pc = "event"
  /\ Fitting = {}
  /\ pc' = "rejected"
  /\ UNCHANGED <<features, client, origin, request, response, got>>

\* Adapter::call up to the handler.  The first type that fits is taken.
call ==
  /\ pc = "event"
  /\ pc' = "handling"
  /\ \E i \in Fitting :
       /\ \A j \in Fitting : i <= j
       /\ origin' = Order[i]
       /\ request' = update_xray_trace_id_header(from(Order[i]))
  /\ UNCHANGED <<features, client, response, got>>

\* TransformResponse.  The request is gone with the handler's future.
HandlerReturns(r) ==
  /\ pc = "handling"
  /\ response' = r
  /\ request' = None
  /\ client' = [service |-> client.service]
  /\ pc' = "responding"
  /\ UNCHANGED <<features, origin, got>>

\* An error is the invocation loop's.
HandlerFails ==
  /\ pc = "handling"
  /\ pc' = "failed"
  /\ request' = None
  /\ client' = [service |-> client.service]
  /\ UNCHANGED <<features, origin, response, got>>

\* The body of the response cannot be read: expect panics.
BodyPanics ==
  /\ pc = "responding"
  /\ response.kind = "http"
  /\ pc' = "panicked"
  /\ UNCHANGED <<features, client, origin, request, response, got>>

Respond ==
  /\ pc = "responding"
  /\ LET l == from_response(response.headers)
     IN IF Serializable(l)
        THEN /\ pc' = "answered"
             /\ got' = [format |-> l.format, headers |-> ClientHeaders(l),
                        body |-> convert(response).data]
        ELSE pc' = "unserializable" /\ UNCHANGED got
  /\ UNCHANGED <<features, client, origin, request, response>>

\* StreamAdapter: the prelude does not depend on the event, and the body is sent
\* frame by frame as it is.
RespondStreaming ==
  /\ pc = "responding"
  /\ response.kind = "http"
  /\ pc' = "answered"
  /\ got' = [format |-> "stream", body |-> response.payload,
             headers |-> StreamedHeaders(into_stream_response(response.headers))]
  /\ UNCHANGED <<features, client, origin, request, response>>

Next == \/ Rejected \/ call \/ HandlerFails \/ BodyPanics
        \/ Respond \/ RespondStreaming
        \/ \E r \in Responses : HandlerReturns(r)

Spec == Init /\ [][Next]_vars

-----------------------------------------------------------------------------
(* Properties.                                                             *)

FeatureOf ==
  [rest |-> "ApiGatewayV1", http |-> "ApiGatewayV2", albSingle |-> "Alb",
   albMulti |-> "Alb", websocket |-> "WebSocket", websocketMethod |-> "WebSocket",
   lattice |-> "VpcLatticeV2", other |-> "PassThrough"]

\* Whatever features a build has, no service gets the response of another one:
\* an event is answered in the format of its service if the feature for it is
\* on; else at most as a bare value (deserializer.rs:28-55, response.rs:77-191).
\* A function that streams answers every service alike.
ResponseInKind ==
  /\ pc = "answered" /\ got.format # "stream" =>
       got.format \in {FormatOf[client.service]}
                       \cup IF FeatureOf[client.service] \in features THEN {} ELSE {"value"}
  /\ pc = "rejected" => FeatureOf[client.service] \notin features

\* The handler sees all values that the client sent, in order, where the event has
\* them all in one of its two header maps (of an HTTP API joined to one), or there
\* is one at most; nothing is said of several values of a name that both maps have.
\* It sees all values of the query, but for an ALB that sends the last of several,
\* and of trace ids the invocation's (request.rs:199-219, 252-269; lib.rs:362-368).
RequestArrives ==
  pc = "handling" =>
    /\ client.invocation # NoTrace => request.trace = client.invocation
    /\ origin # "PassThrough" =>
         /\ IF client.service = "http" THEN request.x = Joined(client.x)
            ELSE client.service \in {"albMulti", "lattice"} \/ Len(client.x) <= 1 =>
                   request.x = client.x
         /\ client.service # "albSingle" \/ Len(client.query) <= 1 =>
              request.query = client.query
         /\ request.trace \in {client.trace, client.invocation}

\* The formats with one value for a name; API Gateway v2 has room for cookies.
OneValue(n) ==
  /\ got.format # "stream"
  /\ \/ client.service \in {"albSingle", "lattice"}
     \/ client.service = "http" /\ n = "x"

\* The client gets every value that the handler set, once and in order, if the
\* format has room for several or there is one at most, and each cookie that is
\* text at its place.  Nothing is said of several values in a format with room for
\* one, nor of cookies, or headers of a stream, that are not visible ASCII
\* (response.rs:77-178, streaming.rs:140-168).
HeadersArrive ==
  pc = "answered" /\ got.format # "value" =>
    \A n \in HeaderNames :
      LET sent == response.headers[n]
          seen == got.headers[n]
          IsText(i) == sent[i] \notin {Opaque, Raw}
      IN  /\ /\ OneValue(n) => Len(sent) <= 1
             /\ n = "set-cookie" \/ got.format = "stream" =>
                  \A i \in DOMAIN sent : IsText(i)
             => seen = sent
          /\ n = "set-cookie" /\ ~OneValue(n) =>
               /\ Len(seen) = Len(sent)
               /\ \A i \in DOMAIN sent : IsText(i) => seen[i] = sent[i]

\* A body arrives as it is when it has a content encoding, and readable when it
\* is what its content type declares (response.rs:342-408).
BodyArrives ==
  pc = "answered" /\ got.format # "value" =>
    /\ response.encoded => got.body = response.payload
    /\ response.payload = (IF response.charset = "none" THEN "utf-8" ELSE response.charset)
         => got.body \in {response.payload, "utf-8"}

=============================================================================
