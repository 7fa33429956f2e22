------------------------- MODULE EventTypesPlatform -------------------------
(***************************************************************************)
(* What is read and written beside the events: the telemetry records an    *)
(* extension gets (lambda-extension), what the invocation's headers carry  *)
(* and the prelude of a streaming response (lambda-runtime), and the       *)
(* request context that lambda-http keeps with a request.                  *)
(***************************************************************************)
EXTENDS EventTypesHttp

\* lambda-extension/src/telemetry.rs.  A record is tagged by `type` and its
\* content is `record`, whose members are given here; `text` is the whole
\* content where that is a text.
LambdaTelemetry == Closed([required |-> {"time", "type", "record"}])
LogText == Closed([required |-> {"text"}])
PlatformInitStart == Closed(
    [required |-> {"initializationType", "phase"},
     omitted |-> {"runtimeVersion", "runtimeVersionArn"}])
PlatformInitRuntimeDone == Closed(
    [required |-> {"initializationType", "status"},
     omitted |-> {"phase", "errorType"},
     defaulted |-> {"spans"}])
PlatformInitReport == Closed(
    [required |-> {"initializationType", "phase", "metrics"},
     defaulted |-> {"spans"}])
PlatformStart == Closed(
    [required |-> {"requestId"},
     omitted |-> {"version", "tracing"}])
PlatformRuntimeDone == Closed(
    [required |-> {"requestId", "status"},
     omitted |-> {"errorType", "metrics", "tracing"},
     defaulted |-> {"spans"}])
PlatformReport == Closed(
    [required |-> {"requestId", "status", "metrics"},
     omitted |-> {"errorType", "tracing"},
     defaulted |-> {"spans"}])
PlatformExtension == Closed([required |-> {"name", "state", "events"}])
PlatformTelemetrySubscription == Closed([required |-> {"name", "state", "types"}])
PlatformLogsDropped == Closed([required |-> {"reason", "droppedRecords", "droppedBytes"}])
LambdaTelemetryRecord == Tagged(
    <<<<"function", LogText>>,
      <<"extension", LogText>>,
      <<"platform.initStart", PlatformInitStart>>,
      <<"platform.initRuntimeDone", PlatformInitRuntimeDone>>,
      <<"platform.initReport", PlatformInitReport>>,
      <<"platform.start", PlatformStart>>,
      <<"platform.runtimeDone", PlatformRuntimeDone>>,
      <<"platform.report", PlatformReport>>,
      <<"platform.extension", PlatformExtension>>,
      <<"platform.telemetrySubscription", PlatformTelemetrySubscription>>,
      <<"platform.logsDropped", PlatformLogsDropped>>>>)
InitType == Named(<<"on-demand", "provisioned-concurrency", "snap-start">>)
InitPhase == Named(<<"init", "invoke">>)
Status == Named(<<"success", "error", "failure", "timeout">>)
Span == Closed([required |-> {"durationMs", "name", "start"}])
TraceContext == Closed([required |-> {"type", "value"}, optional |-> {"spanId"}])
TracingType == Named(<<"X-Amzn-Trace-Id">>)
InitReportMetrics == Closed([required |-> {"durationMs"}])
ReportMetrics == Closed(
    [required |-> {"durationMs", "billedDurationMs", "memorySizeMB", "maxMemoryUsedMB"},
     omitted |-> {"initDurationMs", "restoreDurationMs"}])
RuntimeDoneMetrics == Closed([required |-> {"durationMs"}, optional |-> {"producedBytes"}])

\* lambda-runtime/src/types.rs
ClientContext == Closed([defaulted |-> {"client", "custom", "environment"}])
ClientApplication == Closed(
    [required |-> {"installationId", "appTitle", "appVersionName", "appVersionCode",
                   "appPackageName"},
     alias |-> [installationId |-> "installation_id", appTitle |-> "app_title",
                appVersionName |-> "app_version_name",
                appVersionCode |-> "app_version_code",
                appPackageName |-> "app_package_name"]])
MetadataPrelude == Closed([required |-> {"statusCode", "headers", "cookies"}])

\* lambda-http/src/request.rs
RequestContext == Untagged(
    <<ApiGatewayProxyRequestContext, ApiGatewayV2httpRequestContext,
      AlbTargetGroupRequestContext, ApiGatewayWebsocketProxyRequestContext,
      VpcLatticeRequestV2Context>>)

\* The structs and enumerations of this module by name.
PlatformStructs ==
    [LambdaTelemetry |-> LambdaTelemetry, Span |-> Span, TraceContext |-> TraceContext,
     InitReportMetrics |-> InitReportMetrics, ReportMetrics |-> ReportMetrics,
     RuntimeDoneMetrics |-> RuntimeDoneMetrics, ClientContext |-> ClientContext,
     ClientApplication |-> ClientApplication, MetadataPrelude |-> MetadataPrelude]

PlatformTypes ==
    [LambdaTelemetryRecord |-> LambdaTelemetryRecord, InitType |-> InitType,
     InitPhase |-> InitPhase, Status |-> Status, TracingType |-> TracingType,
     RequestContext |-> RequestContext]
        @@ PlainTypes(PlatformStructs)
=============================================================================
