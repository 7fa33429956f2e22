------------------------- MODULE EventTypesOperations ------------------------
(***************************************************************************)
(* The events of the services that build, deploy and keep: CloudFormation, *)
(* Control Tower, the Code services, S3 and others.  One definition for    *)
(* each struct and enumeration, named for it.                              *)
(***************************************************************************)
EXTENDS EventTypes

\* event/autoscaling/mod.rs
AutoScalingEvent == Open(
    [required |-> {"time", "resources"},
     optional |-> {"version", "id", "detail-type", "source", "account", "region"},
     nullable |-> {"detail"}])

\* event/cloudformation/mod.rs
CloudformationCreateRequest == Open(
    [required |-> {"RequestId", "ResponseURL", "StackId", "ResourceType", "LogicalResourceId"},
     untyped |-> {"ResourceProperties"},
     optional |-> {"ServiceToken"}])
CloudformationUpdateRequest == Open(
    [required |-> {"RequestId", "ResponseURL", "StackId", "ResourceType", "LogicalResourceId",
                   "PhysicalResourceId"},
     untyped |-> {"ResourceProperties", "OldResourceProperties"},
     optional |-> {"ServiceToken"}])
CloudformationDeleteRequest == Open(
    [required |-> {"RequestId", "ResponseURL", "StackId", "ResourceType", "LogicalResourceId",
                   "PhysicalResourceId"},
     untyped |-> {"ResourceProperties"},
     optional |-> {"ServiceToken"}])
CloudformationCloudFormationCustomResourceRequest == Tagged(
    <<<<"Create", CloudformationCreateRequest>>,
      <<"Update", CloudformationUpdateRequest>>,
      <<"Delete", CloudformationDeleteRequest>>>>)
CloudformationCloudFormationCustomResourceResponse == Open(
    [required |-> {"Status", "PhysicalResourceId", "StackId", "RequestId", "LogicalResourceId",
                   "NoEcho", "Data"},
     optional |-> {"Reason"}])
CloudFormationCustomResourceResponseStatus == Named(<<"SUCCESS", "FAILED">>)

\* event/cloudformation/provider.rs
CommonRequestParams == Open(
    [required |-> {"LogicalResourceId", "ResourceType", "RequestId", "StackId"},
     untyped |-> {"ResourceProperties"}])
ProviderCreateRequest == Flatten(Closed(<<>>), <<CommonRequestParams>>)
ProviderUpdateRequest == Flatten(Closed(
    [required |-> {"PhysicalResourceId"},
     untyped |-> {"OldResourceProperties"}]),
    <<CommonRequestParams>>)
ProviderDeleteRequest == Flatten(Closed(
    [required |-> {"PhysicalResourceId"}]),
    <<CommonRequestParams>>)
ProviderCloudFormationCustomResourceRequest == Tagged(
    <<<<"Create", ProviderCreateRequest>>,
      <<"Update", ProviderUpdateRequest>>,
      <<"Delete", ProviderDeleteRequest>>>>)
ProviderCloudFormationCustomResourceResponse == Open(
    [required |-> {"NoEcho"},
     untyped |-> {"Data"},
     optional |-> {"PhysicalResourceId"}])

\* event/code_commit/mod.rs
CodeCommitEvent == Open([required |-> {"Records"}])
CodeCommitRecord == Open(
    [required |-> {"eventTime", "eventPartNumber", "codecommit", "eventTotalParts"},
     optional |-> {"eventId", "eventVersion", "eventTriggerName", "eventName",
                   "eventTriggerConfigId", "eventSourceARN", "userIdentityARN", "eventSource",
                   "awsRegion", "customData"}])
CodeCommitCodeCommit == Open([required |-> {"references"}])
CodeCommitReference == Open([optional |-> {"commit", "ref"}, nullable |-> {"created"}])

\* event/codebuild/mod.rs
CodeBuildEvent == Open(
    [required |-> {"time", "resources", "detail"},
     optional |-> {"account", "region", "detail-type", "source", "version", "id"}])
CodeBuildEventDetail == Open(
    [required |-> {"additional-information"},
     optional |-> {"build-status", "project-name", "build-id", "current-phase",
                   "current-phase-context", "version", "completed-phase-status",
                   "completed-phase", "completed-phase-context",
                   "completed-phase-duration-seconds", "completed-phase-start",
                   "completed-phase-end"},
     duration |-> {"completed-phase-duration-seconds"}])
CodeBuildEventAdditionalInformation == Open(
    [required |-> {"artifact", "environment", "timeout-in-minutes", "build-complete",
                   "build-start-time", "source", "logs", "phases"},
     optional |-> {"build-number", "initiator", "source-version"},
     duration |-> {"timeout-in-minutes"}])
CodeBuildArtifact == Open([optional |-> {"md5sum", "sha256sum", "location"}])
CodeBuildEnvironment == Open(
    [required |-> {"privileged-mode", "environment-variables"},
     optional |-> {"image", "compute-type", "type"}])
CodeBuildEnvironmentVariable == Open([optional |-> {"name", "type", "value"}])
CodeBuildSource == Open([optional |-> {"location", "type"}])
CodeBuildLogs == Open([optional |-> {"group-name", "stream-name", "deep-link"}])
CodeBuildPhase == Open(
    [required |-> {"start-time", "phase-type"},
     optional |-> {"phase-context", "end-time", "duration-in-seconds", "phase-status"},
     duration |-> {"duration-in-seconds"}])

\* event/codedeploy/mod.rs
CodeDeployEvent == Open(
    [required |-> {"time", "resources", "detail"},
     optional |-> {"account", "region", "detail-type", "source", "version", "id"}])
CodeDeployEventDetail == Open(
    [required |-> {"state"},
     optional |-> {"instanceGroupId", "instanceId", "region", "application", "deploymentId",
                   "deploymentGroup"}])
CodeDeployLifecycleEvent == Open(
    [required |-> {"DeploymentId", "LifecycleEventHookExecutionId"}])

\* event/codepipeline_cloudwatch/mod.rs
CodePipelineCloudWatchEvent == Open(
    [required |-> {"time", "resources", "detail"},
     optional |-> {"version", "id", "detail-type", "source", "account", "region"}])
CodePipelineEventDetail == Open(
    [required |-> {"version", "state"},
     optional |-> {"pipeline", "execution-id", "stage", "action", "region", "type"}])
CodePipelineEventDetailType == Open(
    [required |-> {"version"},
     optional |-> {"owner", "category", "provider"}])

\* event/codepipeline_job/mod.rs
CodePipelineJobEvent == Open([required |-> {"CodePipeline.job"}])
CodePipelineJob == Open([required |-> {"data"}, optional |-> {"id", "accountId"}])
CodePipelineData == Open(
    [required |-> {"actionConfiguration", "inputArtifacts", "outputArtifacts",
                   "artifactCredentials"},
     optional |-> {"continuationToken"}])
CodePipelineActionConfiguration == Open([required |-> {"configuration"}])
CodePipelineConfiguration == Open([optional |-> {"FunctionName", "UserParameters"}])
CodePipelineInputArtifact == Open(
    [required |-> {"location"},
     optional |-> {"revision", "name"}])
CodePipelineInputLocation == Open([required |-> {"s3Location"}, optional |-> {"type"}])
CodePipelineS3Location == Open([optional |-> {"bucketName", "objectKey"}])
CodePipelineOutputArtifact == Open(
    [required |-> {"location"},
     optional |-> {"revision", "name"}])
CodePipelineOutputLocation == Open([required |-> {"s3Location"}, optional |-> {"type"}])
CodePipelineArtifactCredentials == Open(
    [optional |-> {"secretAccessKey", "sessionToken", "accessKeyId"}])

\* event/config/mod.rs
ConfigEvent == Open(
    [required |-> {"eventLeftScope"},
     optional |-> {"accountId", "configRuleArn", "configRuleId", "configRuleName",
                   "executionRoleArn", "invokingEvent", "resultToken", "ruleParameters",
                   "version"}])

\* event/controltower/mod.rs
ControlTowerLifecycleEvent == Closed(
    [required |-> {"eventVersion", "userIdentity", "eventTime", "eventSource", "eventName",
                   "awsRegion", "sourceIPAddress", "userAgent", "eventID", "readOnly",
                   "eventType", "serviceEventDetails"},
     optional |-> {"managementEvent", "recipientAccountId", "requestParameters",
                   "responseElements", "eventCategory"}])
ControltowerUserIdentity == Closed([required |-> {"accountId"}, optional |-> {"invokedBy"}])
OrganizationalUnit == Closed(
    [required |-> {"organizationalUnitName", "organizationalUnitId"}])
Account == Closed([required |-> {"accountName", "accountId"}])
Guardrail == Closed([required |-> {"guardrailId", "guardrailBehavior"}])
ManagedAccountStatus == Closed(
    [required |-> {"organizationalUnit", "account", "state", "message", "requestedTimestamp",
                   "completedTimestamp"}])
GuardrailStatus == Closed(
    [required |-> {"organizationalUnits", "guardrails", "state", "message", "requestTimestamp",
                   "completedTimestamp"}])
LandingZoneStatus == Closed(
    [required |-> {"state", "message", "rootOrganizationalId", "organizationalUnits",
                   "accounts", "requestedTimestamp", "completedTimestamp"}])
OrganizationalUnitRegistrationStatus == Closed(
    [required |-> {"state", "message", "organizationalUnit", "requestedTimestamp",
                   "completedTimestamp"}])
PrecheckOrganizationalUnit == Closed(
    [required |-> {"organizationalUnitName", "organizationalUnitId"},
     defaulted |-> {"failedPrechecks"}])
PrecheckAccount == Closed(
    [required |-> {"accountName", "accountId"},
     defaulted |-> {"failedPrechecks"}])
PrecheckOrganizationalUnitStatus == Closed(
    [required |-> {"organizationalUnit", "accounts", "state", "message", "requestedTimestamp",
                   "completedTimestamp"}])
BaselineStatusSummary == Closed([required |-> {"lastOperationIdentifier", "status"}])
BaselineParameterValue == Closed([required |-> {"untyped"}])
BaselineUntypedValue == Closed([required |-> {"object"}])
BaselineParameter == Closed([required |-> {"key", "value"}])
EnabledBaselineDetails == Closed(
    [required |-> {"arn", "parentIdentifier", "targetIdentifier", "baselineIdentifier",
                   "baselineVersion", "statusSummary"},
     defaulted |-> {"parameters"}])
BaselineStatus == Closed(
    [required |-> {"enabledBaselineDetails", "requestedTimestamp", "completedTimestamp"},
     optional |-> {"baselineDetails"}])
ServiceEventDetails == Tagged(
    <<<<"createManagedAccountStatus", ManagedAccountStatus>>,
      <<"updateManagedAccountStatus", ManagedAccountStatus>>,
      <<"enableGuardrailStatus", GuardrailStatus>>,
      <<"disableGuardrailStatus", GuardrailStatus>>,
      <<"setupLandingZoneStatus", LandingZoneStatus>>,
      <<"updateLandingZoneStatus", LandingZoneStatus>>,
      <<"registerOrganizationalUnitStatus", OrganizationalUnitRegistrationStatus>>,
      <<"deregisterOrganizationalUnitStatus", OrganizationalUnitRegistrationStatus>>,
      <<"precheckOrganizationalUnitStatus", PrecheckOrganizationalUnitStatus>>,
      <<"enableBaselineStatus", BaselineStatus>>,
      <<"resetEnabledBaselineStatus", BaselineStatus>>,
      <<"updateEnabledBaselineStatus", BaselineStatus>>,
      <<"disableBaselineStatus", BaselineStatus>>>>)

\* event/ecr_scan/mod.rs
EcrScanEvent == Open(
    [required |-> {"resources", "detail"},
     optional |-> {"version", "id", "detail-type", "source", "time", "region", "account"}])
EcrScanEventDetailType == Open(
    [required |-> {"finding-severity-counts", "image-tags"},
     optional |-> {"scan-status", "repository-name", "image-digest"}])
EcrScanEventFindingSeverityCounts == Open(
    [optional |-> {"CRITICAL", "HIGH", "MEDIUM", "LOW", "INFORMATIONAL", "UNDEFINED"}])

\* event/s3/batch_job.rs
S3BatchJobEvent == Open(
    [required |-> {"job", "tasks"},
     optional |-> {"invocationSchemaVersion", "invocationId"}])
S3BatchJob == Open([optional |-> {"id"}])
S3BatchJobTask == Open([optional |-> {"taskId", "s3Key", "s3VersionId", "s3BucketArn"}])
S3BatchJobResponse == Open(
    [required |-> {"results"},
     optional |-> {"invocationSchemaVersion", "treatMissingKeysAs", "invocationId"}])
S3BatchJobResult == Open([optional |-> {"taskId", "resultCode", "resultString"}])

\* event/s3/event.rs
S3Event == Open([required |-> {"Records"}])
S3EventRecord == Open(
    [required |-> {"eventTime", "userIdentity", "requestParameters", "s3"},
     optional |-> {"eventVersion", "eventSource", "awsRegion", "eventName"},
     nullable |-> {"responseElements"}])
S3UserIdentity == Open([optional |-> {"principalId"}])
S3RequestParameters == Open([optional |-> {"sourceIPAddress"}])
S3Entity == Open(
    [required |-> {"bucket", "object"},
     optional |-> {"s3SchemaVersion", "configurationId"}])
S3Bucket == Open([optional |-> {"name", "ownerIdentity", "arn"}])
S3Object == Open(
    [optional |-> {"key", "size", "urlDecodedKey", "versionId", "eTag", "sequencer"}])

\* event/s3/object_lambda.rs
S3ObjectLambdaEvent == Open(
    [required |-> {"xAmzRequestId", "userRequest", "userIdentity", "protocolVersion"},
     optional |-> {"getObjectContext", "headObjectContext", "listObjectsContext",
                   "listObjectsV2Context"},
     defaulted |-> {"configuration"}])
GetObjectContext == Open([required |-> {"inputS3Url", "outputRoute", "outputToken"}])
HeadObjectContext == Open([required |-> {"inputS3Url"}])
ListObjectsContext == Open([required |-> {"inputS3Url"}])
ListObjectsV2Context == Open([required |-> {"inputS3Url"}])
Configuration == Open(
    [required |-> {"accessPointArn", "supportingAccessPointArn"},
     optional |-> {"payload"}])
UserRequest == Open(
    [required |-> {"url"},
     nullable |-> {"headers"},
     headers |-> {"headers"}])
ObjectLambdaUserIdentity == Open(
    [required |-> {"type", "principalId", "arn", "accountId", "accessKeyId"},
     optional |-> {"sessionContext"}])
ObjectLambdaSessionContext == Open(
    [required |-> {"attributes"},
     optional |-> {"sessionIssuer"}])
ObjectLambdaSessionIssuer == Open(
    [required |-> {"type", "principalId", "arn", "accountId", "userName"}])

\* event/secretsmanager/mod.rs
SecretsManagerSecretRotationEvent == Open(
    [required |-> {"Step", "SecretId", "ClientRequestToken"}])

\* The structs and enumerations of this module by name.
OperationsStructs ==
    [AutoScalingEvent |-> AutoScalingEvent,
     CloudformationCreateRequest |-> CloudformationCreateRequest,
     CloudformationUpdateRequest |-> CloudformationUpdateRequest,
     CloudformationDeleteRequest |-> CloudformationDeleteRequest,
     CloudformationCloudFormationCustomResourceResponse |-> CloudformationCloudFormationCustomResourceResponse,
     CommonRequestParams |-> CommonRequestParams,
     ProviderCreateRequest |-> ProviderCreateRequest,
     ProviderUpdateRequest |-> ProviderUpdateRequest,
     ProviderDeleteRequest |-> ProviderDeleteRequest,
     ProviderCloudFormationCustomResourceResponse |-> ProviderCloudFormationCustomResourceResponse,
     CodeCommitEvent |-> CodeCommitEvent, CodeCommitRecord |-> CodeCommitRecord,
     CodeCommitCodeCommit |-> CodeCommitCodeCommit,
     CodeCommitReference |-> CodeCommitReference, CodeBuildEvent |-> CodeBuildEvent,
     CodeBuildEventDetail |-> CodeBuildEventDetail,
     CodeBuildEventAdditionalInformation |-> CodeBuildEventAdditionalInformation,
     CodeBuildArtifact |-> CodeBuildArtifact, CodeBuildEnvironment |-> CodeBuildEnvironment,
     CodeBuildEnvironmentVariable |-> CodeBuildEnvironmentVariable,
     CodeBuildSource |-> CodeBuildSource, CodeBuildLogs |-> CodeBuildLogs,
     CodeBuildPhase |-> CodeBuildPhase, CodeDeployEvent |-> CodeDeployEvent,
     CodeDeployEventDetail |-> CodeDeployEventDetail,
     CodeDeployLifecycleEvent |-> CodeDeployLifecycleEvent,
     CodePipelineCloudWatchEvent |-> CodePipelineCloudWatchEvent,
     CodePipelineEventDetail |-> CodePipelineEventDetail,
     CodePipelineEventDetailType |-> CodePipelineEventDetailType,
     CodePipelineJobEvent |-> CodePipelineJobEvent, CodePipelineJob |-> CodePipelineJob,
     CodePipelineData |-> CodePipelineData,
     CodePipelineActionConfiguration |-> CodePipelineActionConfiguration,
     CodePipelineConfiguration |-> CodePipelineConfiguration,
     CodePipelineInputArtifact |-> CodePipelineInputArtifact,
     CodePipelineInputLocation |-> CodePipelineInputLocation,
     CodePipelineS3Location |-> CodePipelineS3Location,
     CodePipelineOutputArtifact |-> CodePipelineOutputArtifact,
     CodePipelineOutputLocation |-> CodePipelineOutputLocation,
     CodePipelineArtifactCredentials |-> CodePipelineArtifactCredentials,
     ConfigEvent |-> ConfigEvent, ControlTowerLifecycleEvent |-> ControlTowerLifecycleEvent,
     ControltowerUserIdentity |-> ControltowerUserIdentity,
     OrganizationalUnit |-> OrganizationalUnit, Account |-> Account, Guardrail |-> Guardrail,
     ManagedAccountStatus |-> ManagedAccountStatus, GuardrailStatus |-> GuardrailStatus,
     LandingZoneStatus |-> LandingZoneStatus,
     OrganizationalUnitRegistrationStatus |-> OrganizationalUnitRegistrationStatus,
     PrecheckOrganizationalUnit |-> PrecheckOrganizationalUnit,
     PrecheckAccount |-> PrecheckAccount,
     PrecheckOrganizationalUnitStatus |-> PrecheckOrganizationalUnitStatus,
     BaselineStatusSummary |-> BaselineStatusSummary,
     BaselineParameterValue |-> BaselineParameterValue,
     BaselineUntypedValue |-> BaselineUntypedValue, BaselineParameter |-> BaselineParameter,
     EnabledBaselineDetails |-> EnabledBaselineDetails, BaselineStatus |-> BaselineStatus,
     EcrScanEvent |-> EcrScanEvent, EcrScanEventDetailType |-> EcrScanEventDetailType,
     EcrScanEventFindingSeverityCounts |-> EcrScanEventFindingSeverityCounts,
     S3BatchJobEvent |-> S3BatchJobEvent, S3BatchJob |-> S3BatchJob,
     S3BatchJobTask |-> S3BatchJobTask, S3BatchJobResponse |-> S3BatchJobResponse,
     S3BatchJobResult |-> S3BatchJobResult, S3Event |-> S3Event,
     S3EventRecord |-> S3EventRecord, S3UserIdentity |-> S3UserIdentity,
     S3RequestParameters |-> S3RequestParameters, S3Entity |-> S3Entity, S3Bucket |-> S3Bucket,
     S3Object |-> S3Object, S3ObjectLambdaEvent |-> S3ObjectLambdaEvent,
     GetObjectContext |-> GetObjectContext, HeadObjectContext |-> HeadObjectContext,
     ListObjectsContext |-> ListObjectsContext, ListObjectsV2Context |-> ListObjectsV2Context,
     Configuration |-> Configuration, UserRequest |-> UserRequest,
     ObjectLambdaUserIdentity |-> ObjectLambdaUserIdentity,
     ObjectLambdaSessionContext |-> ObjectLambdaSessionContext,
     ObjectLambdaSessionIssuer |-> ObjectLambdaSessionIssuer,
     SecretsManagerSecretRotationEvent |-> SecretsManagerSecretRotationEvent]

OperationsTypes ==
    [CloudformationCloudFormationCustomResourceRequest |-> CloudformationCloudFormationCustomResourceRequest,
     CloudFormationCustomResourceResponseStatus |-> CloudFormationCustomResourceResponseStatus,
     ProviderCloudFormationCustomResourceRequest |-> ProviderCloudFormationCustomResourceRequest,
     ServiceEventDetails |-> ServiceEventDetails]
        @@ PlainTypes(OperationsStructs)
=============================================================================
