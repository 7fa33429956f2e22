------------------------- MODULE EventTypesCloudWatch ------------------------
(***************************************************************************)
(* The events of CloudWatch and EventBridge: the details of the services   *)
(* that publish there, alarms and logs.  One definition for each struct    *)
(* and enumeration, named for it.                                          *)
(***************************************************************************)
EXTENDS EventTypes

\* event/cloudwatch_alarms/mod.rs
CloudWatchAlarm == Open(
    [required |-> {"time"},
     optional |-> {"accountId", "alarmArn", "source", "region"},
     defaulted |-> {"alarmData"}])
CloudWatchAlarmData == Open(
    [required |-> {"alarmName"},
     untyped |-> {"configuration"},
     optional |-> {"state", "previousState"}])
CloudWatchAlarmState == Open(
    [required |-> {"reason", "timestamp"},
     optional |-> {"reasonData", "actionsSuppressedBy", "actionsSuppressedReason"},
     defaulted |-> {"value"}])
CloudWatchMetricAlarmConfiguration == Open(
    [optional |-> {"description"},
     defaulted |-> {"metrics"}])
CloudWatchMetricDefinition == Open(
    [required |-> {"id", "metricStat"},
     defaulted |-> {"returnData"}])
CloudWatchMetricStatDefinition == Open(
    [required |-> {"period", "metric"},
     optional |-> {"unit", "stat"}])
CloudWatchMetricStatMetricDefinition == Open(
    [required |-> {"name", "dimensions"},
     optional |-> {"namespace"}])
CloudWatchCompositeAlarmConfiguration == Open(
    [required |-> {"alarmRule", "actionsSuppressor", "actionsSuppressorWaitPeriod",
                   "actionsSuppressorExtensionPeriod"}])
CloudWatchAlarmStateValue == Named(<<"OK", "ALARM", "INSUFFICIENT_DATA">>)
CloudWatchAlarmStateReasonDataMetric == Open(
    [required |-> {"version", "period", "threshold"},
     optional |-> {"queryDate", "startDate", "unit", "statistic"},
     defaulted |-> {"recentDatapoints", "recentLowerThresholds", "recentUpperThresholds",
                    "evaluatedDatapoints"}])
CloudWatchAlarmStateEvaluatedDatapoint == Open(
    [required |-> {"timestamp"},
     optional |-> {"sampleCount", "value", "threshold"}])
ClodWatchAlarmStateReasonDataComposite == Open([defaulted |-> {"triggeringAlarms"}])
CloudWatchAlarmStateTriggeringAlarm == Open([required |-> {"arn", "state"}])
CloudWatchAlarmStateTriggeringAlarmState == Open(
    [required |-> {"timestamp"},
     defaulted |-> {"value"}])

\* event/cloudwatch_events/cloudtrail.rs
AWSAPICall == Open(
    [required |-> {"eventVersion", "userIdentity", "eventTime", "eventSource", "eventName",
                   "awsRegion", "sourceIPAddress", "userAgent", "requestID", "eventID",
                   "eventType"},
     untyped |-> {"requestParameters"},
     optional |-> {"responseElements", "additionalEventData"}])
CloudtrailSessionIssuer == Open(
    [required |-> {"type", "principalId", "arn", "accountId"},
     optional |-> {"userName"}])
WebIdFederationData == Open([optional |-> {"federatedProvider", "attributes"}])
Attributes == Open([required |-> {"mfaAuthenticated", "creationDate"}])
CloudtrailSessionContext == Open(
    [required |-> {"attributes"},
     optional |-> {"sessionIssuer", "webIdFederationData", "sourceIdentity", "ec2RoleDelivery"}])
OnBehalfOf == Open([required |-> {"userId", "identityStoreArn"}])
CloudtrailUserIdentity == Open(
    [required |-> {"type"},
     optional |-> {"accountId", "arn", "credentialId", "invokedBy", "principalId",
                   "sessionContext", "userName", "onBehalfOf"}])

\* event/cloudwatch_events/codedeploy.rs
StateChangeNotification == Open(
    [required |-> {"instanceGroupId", "region", "application", "deploymentId", "state",
                   "deploymentGroup"}])
DeploymentStateChangeNotification == Open(
    [required |-> {"instanceId", "region", "state", "application", "deploymentId",
                   "instanceGroupId", "deploymentGroup"}])
InstanceStateChangeNotification == Open(
    [required |-> {"pipeline", "version", "state", "execution-id"}])

\* event/cloudwatch_events/codepipeline.rs
PipelineExecutionStateChange == Open(
    [required |-> {"pipeline", "version", "state", "execution-id"}])
StageExecutionStateChange == Open(
    [required |-> {"pipeline", "version", "execution-id", "stage", "state"}])
ActionExecutionStateChange == Open(
    [required |-> {"pipeline", "version", "execution-id", "stage", "action", "state", "region",
                   "type"}])
ActionExecutionStateChangeType == Open(
    [required |-> {"owner", "category", "provider", "version"}])

\* event/cloudwatch_events/ec2.rs
Ec2InstanceStateChange == Open([required |-> {"instance-id", "state"}])

\* event/cloudwatch_events/emr.rs
AutoScalingPolicyStateChange == Open(
    [required |-> {"resourceId", "clusterId", "state", "message", "scalingResourceType"}])
ClusterStateChange == Open(
    [required |-> {"severity", "stateChangeReason", "name", "clusterId", "state", "message"}])
InstanceGroupStateChange == Open(
    [required |-> {"market", "severity", "requestedInstanceCount", "instanceType",
                   "instanceGroupType", "instanceGroupId", "clusterId", "runningInstanceCount",
                   "state", "message"}])
StepStatusChange == Open(
    [required |-> {"severity", "actionOnFailure", "stepId", "name", "clusterId", "state",
                   "message"}])

\* event/cloudwatch_events/gamelift.rs
MatchmakingSearching == Open(
    [required |-> {"tickets", "estimatedWaitMillis", "type", "gameSessionInfo"}])
Ticket == Open([required |-> {"ticketId", "startTime", "players"}])
Player == Open(
    [required |-> {"playerId"},
     optional |-> {"team", "playerSessionId"},
     nullable |-> {"accepted"}])
GameSessionInfo == Open([required |-> {"players"}])
PotentialMatchCreated == Open(
    [required |-> {"tickets", "acceptanceTimeout", "ruleEvaluationMetrics",
                   "acceptanceRequired", "type", "gameSessionInfo", "matchId"}])
RuleEvaluationMetric == Open([required |-> {"ruleName", "passedCount", "failedCount"}])
AcceptMatch == Open([required |-> {"tickets", "type", "gameSessionInfo", "matchId"}])
AcceptMatchCompleted == Open(
    [required |-> {"tickets", "acceptance", "type", "gameSessionInfo", "matchId"}])
MatchmakingSucceeded == Open(
    [required |-> {"tickets", "type", "gameSessionInfo", "matchId"}])
MatchmakingTimedOut == Open(
    [required |-> {"reason", "tickets", "ruleEvaluationMetrics", "type", "message",
                   "gameSessionInfo"}])
MatchmakingCancelled == Open(
    [required |-> {"reason", "tickets", "ruleEvaluationMetrics", "type", "message",
                   "gameSessionInfo"}])
MatchmakingFailed == Open(
    [required |-> {"tickets", "customEventData", "type", "reason", "message", "gameSessionInfo",
                   "matchId"}])

\* event/cloudwatch_events/glue.rs
JobRunStateChange == Open(
    [required |-> {"jobName", "severity", "state", "jobRunId", "message"}])
CrawlerStarted == Open(
    [required |-> {"accountId", "crawlerName", "startTime", "state", "message"}])
CrawlerSucceeded == Open(
    [required |-> {"tablesCreated", "warningMessage", "partitionsUpdated", "tablesUpdated",
                   "message", "partitionsDeleted", "accountId", "runningTime (sec)",
                   "tablesDeleted", "crawlerName", "completionDate", "state",
                   "partitionsCreated", "cloudWatchLogLink"}])
CrawlerFailed == Open(
    [required |-> {"crawlerName", "errorMessage", "accountId", "cloudWatchLogLink", "state",
                   "message"}])
JobRunStatus == Open(
    [required |-> {"jobName", "severity", "notificationCondition", "state", "jobRunId",
                   "message", "startedOn"}])
NotificationCondition == Open([required |-> {"NotifyDelayAfter"}])
DataCatalogTableStateChange == Open(
    [required |-> {"databaseName", "changedPartitions", "typeOfChange", "tableName"}])
DataCatalogDatabaseStateChange == Open(
    [required |-> {"databaseName", "typeOfChange", "changedTables"}])

\* event/cloudwatch_events/health.rs
HealthEvent == Open(
    [required |-> {"eventArn", "service", "eventTypeCode", "eventTypeCategory", "startTime",
                   "endTime", "eventDescription"},
     optional |-> {"affectedEntities"}])
EventDescription == Open([required |-> {"language", "latestDescription"}])
Entity == Open([required |-> {"entityValue", "tags"}])

\* event/cloudwatch_events/kms.rs
CMKEvent == Open([required |-> {"key-id"}])

\* event/cloudwatch_events/macie.rs
MacieAlert == Open(
    [required |-> {"notification-type", "name", "tags", "url", "alert-arn", "risk-score",
                   "trigger", "created-at", "actor", "summary"}])
Trigger == Open(
    [required |-> {"rule-arn", "alert-type", "created-at", "description", "risk"}])
BucketScanSummary == Open(
    [required |-> {"Description", "IP", "Time Range", "Source ARN", "Record Count", "Location",
                   "Event Count", "Events", "recipientAccountId"}])
Ip == Open([required |-> {"34.199.185.34", "34.205.153.2", "72.21.196.70"}])
TimeRange == Open([required |-> {"count", "start", "end"}])
Location == Open([required |-> {"us-east-1"}])
ActionInfo == Open([required |-> {"count", "ISP"}, optional |-> {"errorCode"}])
BucketWritableSummary == Open(
    [required |-> {"Description", "Bucket", "Record Count", "ACL", "Event Count", "Timestamps"}])
Bucket == Open([required |-> {"secret-bucket-name"}])
Acl == Open([required |-> {"secret-bucket-name"}])
SecretBucketName == Open([required |-> {"Owner", "Grants"}])
Owner == Open([required |-> {"DisplayName", "ID"}])
Grant == Open([required |-> {"Grantee", "Permission"}])
Grantee == Open([required |-> {"type", "URI"}])
BucketContainsHighRiskObjectSummary == Open(
    [required |-> {"Description", "Object", "Record Count", "Themes", "Event Count", "DLP risk",
                   "Owner", "Timestamps"}])
AlertUpdated == Open(
    [required |-> {"notification-type", "name", "tags", "url", "alert-arn", "risk-score",
                   "created-at", "actor", "trigger"}])
UpdatedTrigger == Open([required |-> {"alert-type", "features"}])
FeatureInfo == Open(
    [required |-> {"name", "description", "narrative", "anomalous", "multiplier",
                   "excession_times", "risk"}])

\* event/cloudwatch_events/mod.rs
CloudWatchEvent == Open(
    [required |-> {"time", "resources"},
     optional |-> {"version", "id", "detail-type", "source", "account", "region", "detail"}])

\* event/cloudwatch_events/opsworks.rs
OpsworksInstanceStateChange == Open(
    [required |-> {"initiated_by", "hostname", "stack-id", "layer-ids", "instance-id",
                   "ec2-instance-id", "status"}])
CommandStateChange == Open([required |-> {"command-id", "instance-id", "type", "status"}])
DeploymentStateChange == Open(
    [required |-> {"duration", "stack-id", "instance-ids", "deployment-id", "command", "status"}])
OpsworksAlert == Open([required |-> {"stack-id", "instance-id", "type", "message"}])

\* event/cloudwatch_events/signin.rs
SignIn == Open(
    [required |-> {"eventVersion", "userIdentity", "eventTime", "eventSource", "eventName",
                   "awsRegion", "sourceIPAddress", "userAgent", "responseElements",
                   "additionalEventData", "eventID", "eventType"},
     untyped |-> {"requestParameters"}])
SigninUserIdentity == Open([required |-> {"type", "principalId", "arn", "accountId"}])
ResponseElements == Open([required |-> {"ConsoleLogin"}])
AdditionalEventData == Open([required |-> {"LoginTo", "MobileVersion", "MFAUsed"}])

\* event/cloudwatch_events/sms.rs
JobStateChange == Open(
    [required |-> {"state", "replication-run-id", "replication-job-id", "version"},
     optional |-> {"ami-id"}])

\* event/cloudwatch_events/ssm.rs
EC2AutomationStepStatusChange == Open(
    [required |-> {"ExecutionId", "Definition", "DefinitionVersion", "Status", "EndTime",
                   "StartTime", "Time", "StepName", "Action"}])
EC2AutomationExecutionStatusChange == Open(
    [required |-> {"ExecutionId", "Definition", "DefinitionVersion", "Status", "StartTime",
                   "EndTime", "Time", "ExecutedBy"}])
StateChange == Open([required |-> {"state", "atTime", "nextTransitionTime"}])
ConfigurationComplianceStateChange == Open(
    [required |-> {"compliance-status", "resource-type", "resource-id", "compliance-type"},
     optional |-> {"last-runtime", "patch-baseline-id", "serverity"}])
MaintenanceWindowTargetRegistration == Open(
    [required |-> {"window-target-id", "window-id", "status"}])
MaintenanceWindowExecutionStateChange == Open(
    [required |-> {"start-time", "end-time", "window-id", "window-execution-id", "status"}])
MaintenanceWindowTaskExecutionStateChange == Open(
    [required |-> {"start-time", "task-execution-id", "end-time", "window-id",
                   "window-execution-id", "status"}])
MaintenanceWindowTaskTargetInvocationStateChange == Open(
    [required |-> {"start-time", "end-time", "window-id", "window-execution-id",
                   "task-execution-id", "window-target-id", "status", "owner-information"}])
MaintenanceWindowStateChange == Open([required |-> {"window-id", "status"}])
ParameterStoreStateChange == Open(
    [required |-> {"operation", "name", "type", "description"}])
EC2CommandStatusChange == Open(
    [required |-> {"command-id", "document-name", "expire-after", "parameters",
                   "requested-date-time", "status"}])
EC2CommandInvocationStatusChange == Open(
    [required |-> {"command-id", "document-name", "instance-id", "requested-date-time",
                   "status"}])
EC2StateManagerAssociationStateChange == Open(
    [required |-> {"association-id", "document-name", "association-version", "document-version",
                   "targets", "creation-date", "last-successful-execution-date",
                   "last-execution-date", "last-updated-date", "status",
                   "association-status-aggregated-count", "schedule-expression",
                   "association-cwe-version"}])
EC2StateManagerInstanceAssociationStateChange == Open(
    [required |-> {"association-id", "instance-id", "document-name", "document-version",
                   "targets", "creation-date", "last-successful-execution-date",
                   "last-execution-date", "status", "detailed-status", "error-code",
                   "execution-summary", "output-url", "instance-association-cwe-version"}])

\* event/cloudwatch_events/tag.rs
TagChangeOnResource == Open(
    [required |-> {"changed-tag-keys", "service", "resource-type", "version", "tags"}])

\* event/cloudwatch_events/trustedadvisor.rs
CheckItemRefreshNotification == Open(
    [required |-> {"check-name", "check-item-detail", "status", "resource_id", "uuid"}])

\* event/cloudwatch_logs/mod.rs
LogsEvent == Open([required |-> {"awslogs"}])
LogData == Open(
    [required |-> {"owner", "logGroup", "logStream", "subscriptionFilters", "messageType",
                   "logEvents"}])
LogEntry == Open([required |-> {"id", "timestamp", "message"}])

\* event/eventbridge/mod.rs
EventBridgeEvent == Open(
    [required |-> {"detail-type", "source"},
     untyped |-> {"detail"},
     optional |-> {"version", "id", "account", "time", "region", "resources"}])

\* The structs and enumerations of this module by name.
CloudWatchStructs ==
    [CloudWatchAlarm |-> CloudWatchAlarm, CloudWatchAlarmData |-> CloudWatchAlarmData,
     CloudWatchAlarmState |-> CloudWatchAlarmState,
     CloudWatchMetricAlarmConfiguration |-> CloudWatchMetricAlarmConfiguration,
     CloudWatchMetricDefinition |-> CloudWatchMetricDefinition,
     CloudWatchMetricStatDefinition |-> CloudWatchMetricStatDefinition,
     CloudWatchMetricStatMetricDefinition |-> CloudWatchMetricStatMetricDefinition,
     CloudWatchCompositeAlarmConfiguration |-> CloudWatchCompositeAlarmConfiguration,
     CloudWatchAlarmStateReasonDataMetric |-> CloudWatchAlarmStateReasonDataMetric,
     CloudWatchAlarmStateEvaluatedDatapoint |-> CloudWatchAlarmStateEvaluatedDatapoint,
     ClodWatchAlarmStateReasonDataComposite |-> ClodWatchAlarmStateReasonDataComposite,
     CloudWatchAlarmStateTriggeringAlarm |-> CloudWatchAlarmStateTriggeringAlarm,
     CloudWatchAlarmStateTriggeringAlarmState |-> CloudWatchAlarmStateTriggeringAlarmState,
     AWSAPICall |-> AWSAPICall, CloudtrailSessionIssuer |-> CloudtrailSessionIssuer,
     WebIdFederationData |-> WebIdFederationData, Attributes |-> Attributes,
     CloudtrailSessionContext |-> CloudtrailSessionContext, OnBehalfOf |-> OnBehalfOf,
     CloudtrailUserIdentity |-> CloudtrailUserIdentity,
     StateChangeNotification |-> StateChangeNotification,
     DeploymentStateChangeNotification |-> DeploymentStateChangeNotification,
     InstanceStateChangeNotification |-> InstanceStateChangeNotification,
     PipelineExecutionStateChange |-> PipelineExecutionStateChange,
     StageExecutionStateChange |-> StageExecutionStateChange,
     ActionExecutionStateChange |-> ActionExecutionStateChange,
     ActionExecutionStateChangeType |-> ActionExecutionStateChangeType,
     Ec2InstanceStateChange |-> Ec2InstanceStateChange,
     AutoScalingPolicyStateChange |-> AutoScalingPolicyStateChange,
     ClusterStateChange |-> ClusterStateChange,
     InstanceGroupStateChange |-> InstanceGroupStateChange,
     StepStatusChange |-> StepStatusChange, MatchmakingSearching |-> MatchmakingSearching,
     Ticket |-> Ticket, Player |-> Player, GameSessionInfo |-> GameSessionInfo,
     PotentialMatchCreated |-> PotentialMatchCreated,
     RuleEvaluationMetric |-> RuleEvaluationMetric, AcceptMatch |-> AcceptMatch,
     AcceptMatchCompleted |-> AcceptMatchCompleted,
     MatchmakingSucceeded |-> MatchmakingSucceeded,
     MatchmakingTimedOut |-> MatchmakingTimedOut,
     MatchmakingCancelled |-> MatchmakingCancelled, MatchmakingFailed |-> MatchmakingFailed,
     JobRunStateChange |-> JobRunStateChange, CrawlerStarted |-> CrawlerStarted,
     CrawlerSucceeded |-> CrawlerSucceeded, CrawlerFailed |-> CrawlerFailed,
     JobRunStatus |-> JobRunStatus, NotificationCondition |-> NotificationCondition,
     DataCatalogTableStateChange |-> DataCatalogTableStateChange,
     DataCatalogDatabaseStateChange |-> DataCatalogDatabaseStateChange,
     HealthEvent |-> HealthEvent, EventDescription |-> EventDescription, Entity |-> Entity,
     CMKEvent |-> CMKEvent, MacieAlert |-> MacieAlert, Trigger |-> Trigger,
     BucketScanSummary |-> BucketScanSummary, Ip |-> Ip, TimeRange |-> TimeRange,
     Location |-> Location, ActionInfo |-> ActionInfo,
     BucketWritableSummary |-> BucketWritableSummary, Bucket |-> Bucket, Acl |-> Acl,
     SecretBucketName |-> SecretBucketName, Owner |-> Owner, Grant |-> Grant,
     Grantee |-> Grantee,
     BucketContainsHighRiskObjectSummary |-> BucketContainsHighRiskObjectSummary,
     AlertUpdated |-> AlertUpdated, UpdatedTrigger |-> UpdatedTrigger,
     FeatureInfo |-> FeatureInfo, CloudWatchEvent |-> CloudWatchEvent,
     OpsworksInstanceStateChange |-> OpsworksInstanceStateChange,
     CommandStateChange |-> CommandStateChange,
     DeploymentStateChange |-> DeploymentStateChange, OpsworksAlert |-> OpsworksAlert,
     SignIn |-> SignIn, SigninUserIdentity |-> SigninUserIdentity,
     ResponseElements |-> ResponseElements, AdditionalEventData |-> AdditionalEventData,
     JobStateChange |-> JobStateChange,
     EC2AutomationStepStatusChange |-> EC2AutomationStepStatusChange,
     EC2AutomationExecutionStatusChange |-> EC2AutomationExecutionStatusChange,
     StateChange |-> StateChange,
     ConfigurationComplianceStateChange |-> ConfigurationComplianceStateChange,
     MaintenanceWindowTargetRegistration |-> MaintenanceWindowTargetRegistration,
     MaintenanceWindowExecutionStateChange |-> MaintenanceWindowExecutionStateChange,
     MaintenanceWindowTaskExecutionStateChange |-> MaintenanceWindowTaskExecutionStateChange,
     MaintenanceWindowTaskTargetInvocationStateChange |-> MaintenanceWindowTaskTargetInvocationStateChange,
     MaintenanceWindowStateChange |-> MaintenanceWindowStateChange,
     ParameterStoreStateChange |-> ParameterStoreStateChange,
     EC2CommandStatusChange |-> EC2CommandStatusChange,
     EC2CommandInvocationStatusChange |-> EC2CommandInvocationStatusChange,
     EC2StateManagerAssociationStateChange |-> EC2StateManagerAssociationStateChange,
     EC2StateManagerInstanceAssociationStateChange |-> EC2StateManagerInstanceAssociationStateChange,
     TagChangeOnResource |-> TagChangeOnResource,
     CheckItemRefreshNotification |-> CheckItemRefreshNotification, LogsEvent |-> LogsEvent,
     LogData |-> LogData, LogEntry |-> LogEntry, EventBridgeEvent |-> EventBridgeEvent]

CloudWatchTypes ==
    [CloudWatchAlarmStateValue |-> CloudWatchAlarmStateValue]
        @@ PlainTypes(CloudWatchStructs)
=============================================================================
