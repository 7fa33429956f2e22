--------------------------- MODULE EventTypesUsers ---------------------------
(***************************************************************************)
(* The events of the services that serve end users: Cognito, Lex, Connect, *)
(* SES, Chime, Bedrock agents, IoT and client VPN.  One definition for     *)
(* each struct and enumeration, named for it.                              *)
(***************************************************************************)
EXTENDS EventTypes

\* event/bedrock_agent_runtime/mod.rs
AgentEvent == Open(
    [required |-> {"messageVersion", "agent", "inputText", "sessionId", "actionGroup",
                   "apiPath", "httpMethod", "sessionAttributes", "promptSessionAttributes"},
     omitted |-> {"parameters", "requestBody"}])
RequestBody == Open([required |-> {"content"}])
Content == Open([required |-> {"properties"}])
Property == Open([required |-> {"name", "type", "value"}])
Parameter == Open([required |-> {"name", "type", "value"}])
Agent == Open([required |-> {"name", "id", "alias", "version"}])

\* event/chime_bot/mod.rs
ChimeBotEvent == Open(
    [required |-> {"Sender", "Discussion", "EventTimestamp"},
     optional |-> {"EventType", "InboundHttpsEndpoint", "Message"}])
ChimeBotEventSender == Open([optional |-> {"SenderId", "SenderIdType"}])
ChimeBotEventDiscussion == Open([optional |-> {"DiscussionId", "DiscussionType"}])
ChimeBotEventInboundHttpsEndpoint == Open([optional |-> {"EndpointType", "Url"}])

\* event/clientvpn/mod.rs
ClientVpnConnectionHandlerRequest == Open(
    [optional |-> {"connection-id", "endpoint-id", "common-name", "username", "platform",
                   "platform-version", "public-ip", "client-openvpn-version", "schema-version"}])
ClientVpnConnectionHandlerResponse == Open(
    [required |-> {"allow", "posture-compliance-statuses"},
     optional |-> {"error-msg-on-failed-posture-compliance", "schema-version"}])

\* event/cognito/mod.rs
CognitoEvent == Open(
    [required |-> {"version"},
     optional |-> {"datasetName", "eventType", "identityId", "identityPoolId", "region"},
     nullable |-> {"datasetRecords"}])
CognitoDatasetRecord == Open([optional |-> {"newValue", "oldValue", "op"}])
CognitoEventUserPoolsPreSignupTriggerSource == Named(
    <<"PreSignUp_SignUp",
      "PreSignUp_AdminCreateUser",
      "PreSignUp_ExternalProvider">>)
CognitoEventUserPoolsPreAuthenticationTriggerSource == Named(
    <<"PreAuthentication_Authentication">>)
CognitoEventUserPoolsPostConfirmationTriggerSource == Named(
    <<"PostConfirmation_ConfirmForgotPassword",
      "PostConfirmation_ConfirmSignUp">>)
CognitoEventUserPoolsPreTokenGenTriggerSource == Named(
    <<"TokenGeneration_HostedAuth",
      "TokenGeneration_Authentication",
      "TokenGeneration_NewPasswordChallenge",
      "TokenGeneration_AuthenticateDevice",
      "TokenGeneration_RefreshTokens">>)
CognitoEventUserPoolsPostAuthenticationTriggerSource == Named(
    <<"PostAuthentication_Authentication">>)
CognitoEventUserPoolsMigrateUserTriggerSource == Named(
    <<"UserMigration_Authentication",
      "UserMigration_ForgotPassword">>)
CognitoEventUserPoolsCallerContext == Open([optional |-> {"awsSdkVersion", "clientId"}])
CognitoEventUserPoolsHeader == Closed(
    [required |-> {"callerContext"},
     optional |-> {"version", "triggerSource", "region", "userPoolId", "userName"}])
CognitoEventUserPoolsPreSignup == Flatten(Open(
    [required |-> {"request", "response"}]),
    <<CognitoEventUserPoolsHeader>>)
CognitoEventUserPoolsPreAuthentication == Flatten(Open(
    [required |-> {"request", "response"}]),
    <<CognitoEventUserPoolsHeader>>)
CognitoEventUserPoolsPostConfirmation == Flatten(Open(
    [required |-> {"request", "response"}]),
    <<CognitoEventUserPoolsHeader>>)
CognitoEventUserPoolsPreTokenGen == Flatten(Open(
    [required |-> {"request", "response"}]),
    <<CognitoEventUserPoolsHeader>>)
CognitoEventUserPoolsPostAuthentication == Flatten(Open(
    [required |-> {"request", "response"}]),
    <<CognitoEventUserPoolsHeader>>)
CognitoEventUserPoolsMigrateUser == Flatten(Open(
    [required |-> {"request", "response"}]),
    <<CognitoEventUserPoolsHeader>>)
CognitoEventUserPoolsPreSignupRequest == Open(
    [nullable |-> {"userAttributes", "validationData", "clientMetadata"}])
CognitoEventUserPoolsPreSignupResponse == Open(
    [required |-> {"autoConfirmUser", "autoVerifyEmail", "autoVerifyPhone"}])
CognitoEventUserPoolsPreAuthenticationRequest == Open(
    [nullable |-> {"userAttributes", "validationData"}])
CognitoEventUserPoolsPreAuthenticationResponse == Open(<<>>)
CognitoEventUserPoolsPostConfirmationRequest == Open(
    [nullable |-> {"userAttributes", "clientMetadata"}])
CognitoEventUserPoolsPostConfirmationResponse == Open(<<>>)
CognitoEventUserPoolsPreTokenGenRequest == Open(
    [nullable |-> {"userAttributes", "groupConfiguration", "clientMetadata"}])
CognitoEventUserPoolsPreTokenGenResponse == Open([optional |-> {"claimsOverrideDetails"}])
CognitoEventUserPoolsPreTokenGenV2 == Flatten(Open(
    [required |-> {"request", "response"}]),
    <<CognitoEventUserPoolsHeader>>)
CognitoEventUserPoolsPreTokenGenRequestV2 == Open(
    [required |-> {"scopes"},
     nullable |-> {"userAttributes", "groupConfiguration", "clientMetadata"}])
CognitoEventUserPoolsPreTokenGenResponseV2 == Open(
    [optional |-> {"claimsAndScopeOverrideDetails"}])
ClaimsAndScopeOverrideDetailsV2 == Open(
    [required |-> {"groupOverrideDetails"},
     optional |-> {"idTokenGeneration", "accessTokenGeneration"}])
CognitoIdTokenGenerationV2 == Open(
    [required |-> {"claimsToAddOrOverride", "claimsToSuppress"}])
CognitoAccessTokenGenerationV2 == Open(
    [required |-> {"claimsToAddOrOverride", "claimsToSuppress", "scopesToAdd",
                   "scopesToSuppress"}])
CognitoEventUserPoolsPostAuthenticationRequest == Open(
    [required |-> {"newDeviceUsed"},
     nullable |-> {"userAttributes", "clientMetadata"}])
CognitoEventUserPoolsPostAuthenticationResponse == Open(<<>>)
CognitoEventUserPoolsMigrateUserRequest == Open(
    [optional |-> {"password"},
     nullable |-> {"validationData", "clientMetadata"}])
CognitoEventUserPoolsMigrateUserResponse == Open(
    [optional |-> {"finalUserStatus", "messageAction", "desiredDeliveryMediums"},
     nullable |-> {"userAttributes", "forceAliasCreation"}])
ClaimsOverrideDetails == Open(
    [required |-> {"groupOverrideDetails", "claimsToSuppress"},
     nullable |-> {"claimsToAddOrOverride"}])
GroupConfiguration == Open(
    [required |-> {"groupsToOverride", "iamRolesToOverride"},
     optional |-> {"preferredRole"}])
CognitoEventUserPoolsChallengeResult == Open(
    [required |-> {"challengeResult"},
     optional |-> {"challengeName", "challengeMetadata"}])
CognitoEventUserPoolsDefineAuthChallengeRequest == Open(
    [required |-> {"session"},
     defaulted |-> {"userNotFound"},
     nullable |-> {"userAttributes", "clientMetadata"}])
CognitoEventUserPoolsDefineAuthChallengeResponse == Open(
    [optional |-> {"challengeName"},
     nullable |-> {"issueTokens", "failAuthentication"}])
CognitoEventUserPoolsDefineAuthChallenge == Flatten(Open(
    [required |-> {"request", "response"}]),
    <<CognitoEventUserPoolsHeader>>)
CognitoEventUserPoolsDefineAuthChallengeTriggerSource == Named(
    <<"DefineAuthChallenge_Authentication">>)
CognitoEventUserPoolsCreateAuthChallengeRequest == Open(
    [required |-> {"session"},
     optional |-> {"challengeName"},
     defaulted |-> {"userNotFound"},
     nullable |-> {"userAttributes", "clientMetadata"}])
CognitoEventUserPoolsCreateAuthChallengeResponse == Open(
    [optional |-> {"challengeMetadata"},
     nullable |-> {"publicChallengeParameters", "privateChallengeParameters"}])
CognitoEventUserPoolsCreateAuthChallenge == Flatten(Open(
    [required |-> {"request", "response"}]),
    <<CognitoEventUserPoolsHeader>>)
CognitoEventUserPoolsCreateAuthChallengeTriggerSource == Named(
    <<"CreateAuthChallenge_Authentication">>)
CognitoEventUserPoolsVerifyAuthChallengeRequest == Open(
    [optional |-> {"challengeAnswer"},
     defaulted |-> {"userNotFound"},
     nullable |-> {"userAttributes", "privateChallengeParameters", "clientMetadata"}])
CognitoEventUserPoolsVerifyAuthChallengeResponse == Open([nullable |-> {"answerCorrect"}])
CognitoEventUserPoolsVerifyAuthChallenge == Flatten(Open(
    [required |-> {"request", "response"}]),
    <<CognitoEventUserPoolsHeader>>)
CognitoEventUserPoolsVerifyAuthChallengeTriggerSource == Named(
    <<"VerifyAuthChallengeResponse_Authentication">>)
CognitoEventUserPoolsCustomMessage == Flatten(Open(
    [required |-> {"request", "response"}]),
    <<CognitoEventUserPoolsHeader>>)
CognitoEventUserPoolsCustomMessageTriggerSource == Named(
    <<"CustomMessage_SignUp",
      "CustomMessage_AdminCreateUser",
      "CustomMessage_ResendCode",
      "CustomMessage_ForgotPassword",
      "CustomMessage_UpdateUserAttribute",
      "CustomMessage_VerifyUserAttribute",
      "CustomMessage_Authentication">>)
CognitoEventUserPoolsCustomMessageRequest == Open(
    [optional |-> {"codeParameter", "usernameParameter"},
     nullable |-> {"userAttributes", "clientMetadata"}])
CognitoEventUserPoolsCustomMessageResponse == Open(
    [optional |-> {"smsMessage", "emailMessage", "emailSubject"}])

\* event/connect/mod.rs
ConnectEvent == Open([required |-> {"Details"}, optional |-> {"Name"}])
ConnectDetails == Open([required |-> {"ContactData"}, nullable |-> {"Parameters"}])
ConnectContactData == Open(
    [required |-> {"CustomerEndpoint", "SystemEndpoint"},
     optional |-> {"Channel", "ContactId", "InitialContactId", "InitiationMethod",
                   "PreviousContactId", "Queue", "InstanceARN"},
     nullable |-> {"Attributes"}])
ConnectEndpoint == Open([optional |-> {"Address", "Type"}])
ConnectQueue == Open([optional |-> {"Name", "ARN"}])

\* event/iot/mod.rs
IoTCoreCustomAuthorizerRequest == Open(
    [required |-> {"signatureVerified", "protocols"},
     optional |-> {"token", "protocolData", "connectionMetadata"}])
IoTCoreProtocolData == Open([optional |-> {"tls", "http", "mqtt"}])
IoTCoreTlsContext == Open(
    [optional |-> {"serverName", "x509CertificatePem", "principalId"}])
IoTCoreHttpContext == Open(
    [optional |-> {"queryString"},
     defaulted |-> {"headers"},
     headers |-> {"headers"}])
IoTCoreMqttContext == Open(
    [optional |-> {"clientId", "username"},
     defaulted |-> {"password"}])
IoTCoreConnectionMetadata == Open([optional |-> {"id"}])
IoTCoreCustomAuthorizerResponse == Open(
    [required |-> {"isAuthenticated", "disconnectAfterInSeconds", "refreshAfterInSeconds",
                   "policyDocuments"},
     optional |-> {"principalId"}])

\* event/iot_1_click/mod.rs
IoTOneClickEvent == Open([required |-> {"deviceEvent", "deviceInfo", "placementInfo"}])
IoTOneClickDeviceEvent == Open([required |-> {"buttonClicked"}])
IoTOneClickButtonClicked == Open([optional |-> {"clickType", "reportedTime"}])
IoTOneClickDeviceInfo == Open(
    [required |-> {"remainingLife"},
     optional |-> {"type", "deviceId"},
     nullable |-> {"attributes"}])
IoTOneClickPlacementInfo == Open(
    [optional |-> {"projectName", "placementName"},
     nullable |-> {"attributes", "devices"}])

\* event/iot_button/mod.rs
IoTButtonEvent == Open([optional |-> {"serialNumber", "clickType", "batteryVoltage"}])

\* event/iot_deprecated/mod.rs
IoTCustomAuthorizerRequest == Open(
    [optional |-> {"httpContext", "mqttContext", "tlsContext", "token", "tokenSignature"}])
IoTCustomAuthorizerResponse == Open(
    [required |-> {"isAuthenticated", "disconnectAfterInSeconds", "refreshAfterInSeconds",
                   "policyDocuments"},
     optional |-> {"principalId"}])

\* event/lex/mod.rs
LexEvent == Open(
    [optional |-> {"messageVersion", "invocationSource", "userId", "inputTranscript",
                   "sessionAttributes", "bot", "outputDialogMode", "currentIntent",
                   "alternativeIntents", "dialogAction"},
     nullable |-> {"requestAttributes"}])
LexBot == Open([optional |-> {"name", "alias", "version"}])
LexCurrentIntent == Open(
    [optional |-> {"name", "nluIntentConfidenceScore", "slots", "confirmationStatus"},
     nullable |-> {"slotDetails"}])
LexAlternativeIntents == Open(
    [optional |-> {"name", "nluIntentConfidenceScore", "slots", "confirmationStatus"},
     nullable |-> {"slotDetails"}])
SlotDetail == Open([optional |-> {"resolutions", "originalValue"}])
LexDialogAction == Open(
    [optional |-> {"type", "fulfillmentState", "intentName", "slots", "slotToElicit",
                   "responseCard"},
     nullable |-> {"message"}])
LexResponse == Open([required |-> {"sessionAttributes"}, optional |-> {"dialogAction"}])
LexResponseCard == Open([optional |-> {"version", "contentType", "genericAttachments"}])
Attachment == Open(
    [optional |-> {"title", "subTitle", "imageUrl", "attachmentLinkUrl", "buttons"}])

\* event/ses/mod.rs
SimpleEmailEvent == Open([required |-> {"Records"}])
SimpleEmailRecord == Open(
    [required |-> {"ses"},
     optional |-> {"eventVersion", "eventSource"}])
SimpleEmailService == Open([required |-> {"mail", "receipt"}, optional |-> {"content"}])
SimpleEmailMessage == Open(
    [required |-> {"commonHeaders", "timestamp", "destination", "headers", "headersTruncated"},
     optional |-> {"source", "messageId"}])
SimpleEmailReceipt == Open(
    [required |-> {"recipients", "timestamp", "spamVerdict", "dkimVerdict", "dmarcVerdict",
                   "spfVerdict", "virusVerdict", "action", "processingTimeMillis"},
     optional |-> {"dmarcPolicy"}])
SimpleEmailHeader == Open([optional |-> {"name", "value"}])
SimpleEmailCommonHeaders == Open(
    [required |-> {"from"},
     optional |-> {"returnPath", "messageId", "date", "subject"},
     defaulted |-> {"to"}])
SimpleEmailReceiptAction == Open(
    [optional |-> {"type", "topicArn", "bucketName", "objectKey", "smtpReplyCode", "statusCode",
                   "message", "sender", "invocationType", "functionArn", "organizationArn"}])
SimpleEmailVerdict == Open([optional |-> {"status"}])
SimpleEmailDisposition == Open([required |-> {"disposition"}])

\* The structs and enumerations of this module by name.
UsersStructs ==
    [AgentEvent |-> AgentEvent, RequestBody |-> RequestBody, Content |-> Content,
     Property |-> Property, Parameter |-> Parameter, Agent |-> Agent,
     ChimeBotEvent |-> ChimeBotEvent, ChimeBotEventSender |-> ChimeBotEventSender,
     ChimeBotEventDiscussion |-> ChimeBotEventDiscussion,
     ChimeBotEventInboundHttpsEndpoint |-> ChimeBotEventInboundHttpsEndpoint,
     ClientVpnConnectionHandlerRequest |-> ClientVpnConnectionHandlerRequest,
     ClientVpnConnectionHandlerResponse |-> ClientVpnConnectionHandlerResponse,
     CognitoEvent |-> CognitoEvent, CognitoDatasetRecord |-> CognitoDatasetRecord,
     CognitoEventUserPoolsCallerContext |-> CognitoEventUserPoolsCallerContext,
     CognitoEventUserPoolsHeader |-> CognitoEventUserPoolsHeader,
     CognitoEventUserPoolsPreSignup |-> CognitoEventUserPoolsPreSignup,
     CognitoEventUserPoolsPreAuthentication |-> CognitoEventUserPoolsPreAuthentication,
     CognitoEventUserPoolsPostConfirmation |-> CognitoEventUserPoolsPostConfirmation,
     CognitoEventUserPoolsPreTokenGen |-> CognitoEventUserPoolsPreTokenGen,
     CognitoEventUserPoolsPostAuthentication |-> CognitoEventUserPoolsPostAuthentication,
     CognitoEventUserPoolsMigrateUser |-> CognitoEventUserPoolsMigrateUser,
     CognitoEventUserPoolsPreSignupRequest |-> CognitoEventUserPoolsPreSignupRequest,
     CognitoEventUserPoolsPreSignupResponse |-> CognitoEventUserPoolsPreSignupResponse,
     CognitoEventUserPoolsPreAuthenticationRequest |-> CognitoEventUserPoolsPreAuthenticationRequest,
     CognitoEventUserPoolsPreAuthenticationResponse |-> CognitoEventUserPoolsPreAuthenticationResponse,
     CognitoEventUserPoolsPostConfirmationRequest |-> CognitoEventUserPoolsPostConfirmationRequest,
     CognitoEventUserPoolsPostConfirmationResponse |-> CognitoEventUserPoolsPostConfirmationResponse,
     CognitoEventUserPoolsPreTokenGenRequest |-> CognitoEventUserPoolsPreTokenGenRequest,
     CognitoEventUserPoolsPreTokenGenResponse |-> CognitoEventUserPoolsPreTokenGenResponse,
     CognitoEventUserPoolsPreTokenGenV2 |-> CognitoEventUserPoolsPreTokenGenV2,
     CognitoEventUserPoolsPreTokenGenRequestV2 |-> CognitoEventUserPoolsPreTokenGenRequestV2,
     CognitoEventUserPoolsPreTokenGenResponseV2 |-> CognitoEventUserPoolsPreTokenGenResponseV2,
     ClaimsAndScopeOverrideDetailsV2 |-> ClaimsAndScopeOverrideDetailsV2,
     CognitoIdTokenGenerationV2 |-> CognitoIdTokenGenerationV2,
     CognitoAccessTokenGenerationV2 |-> CognitoAccessTokenGenerationV2,
     CognitoEventUserPoolsPostAuthenticationRequest |-> CognitoEventUserPoolsPostAuthenticationRequest,
     CognitoEventUserPoolsPostAuthenticationResponse |-> CognitoEventUserPoolsPostAuthenticationResponse,
     CognitoEventUserPoolsMigrateUserRequest |-> CognitoEventUserPoolsMigrateUserRequest,
     CognitoEventUserPoolsMigrateUserResponse |-> CognitoEventUserPoolsMigrateUserResponse,
     ClaimsOverrideDetails |-> ClaimsOverrideDetails,
     GroupConfiguration |-> GroupConfiguration,
     CognitoEventUserPoolsChallengeResult |-> CognitoEventUserPoolsChallengeResult,
     CognitoEventUserPoolsDefineAuthChallengeRequest |-> CognitoEventUserPoolsDefineAuthChallengeRequest,
     CognitoEventUserPoolsDefineAuthChallengeResponse |-> CognitoEventUserPoolsDefineAuthChallengeResponse,
     CognitoEventUserPoolsDefineAuthChallenge |-> CognitoEventUserPoolsDefineAuthChallenge,
     CognitoEventUserPoolsCreateAuthChallengeRequest |-> CognitoEventUserPoolsCreateAuthChallengeRequest,
     CognitoEventUserPoolsCreateAuthChallengeResponse |-> CognitoEventUserPoolsCreateAuthChallengeResponse,
     CognitoEventUserPoolsCreateAuthChallenge |-> CognitoEventUserPoolsCreateAuthChallenge,
     CognitoEventUserPoolsVerifyAuthChallengeRequest |-> CognitoEventUserPoolsVerifyAuthChallengeRequest,
     CognitoEventUserPoolsVerifyAuthChallengeResponse |-> CognitoEventUserPoolsVerifyAuthChallengeResponse,
     CognitoEventUserPoolsVerifyAuthChallenge |-> CognitoEventUserPoolsVerifyAuthChallenge,
     CognitoEventUserPoolsCustomMessage |-> CognitoEventUserPoolsCustomMessage,
     CognitoEventUserPoolsCustomMessageRequest |-> CognitoEventUserPoolsCustomMessageRequest,
     CognitoEventUserPoolsCustomMessageResponse |-> CognitoEventUserPoolsCustomMessageResponse,
     ConnectEvent |-> ConnectEvent, ConnectDetails |-> ConnectDetails,
     ConnectContactData |-> ConnectContactData, ConnectEndpoint |-> ConnectEndpoint,
     ConnectQueue |-> ConnectQueue,
     IoTCoreCustomAuthorizerRequest |-> IoTCoreCustomAuthorizerRequest,
     IoTCoreProtocolData |-> IoTCoreProtocolData, IoTCoreTlsContext |-> IoTCoreTlsContext,
     IoTCoreHttpContext |-> IoTCoreHttpContext, IoTCoreMqttContext |-> IoTCoreMqttContext,
     IoTCoreConnectionMetadata |-> IoTCoreConnectionMetadata,
     IoTCoreCustomAuthorizerResponse |-> IoTCoreCustomAuthorizerResponse,
     IoTOneClickEvent |-> IoTOneClickEvent, IoTOneClickDeviceEvent |-> IoTOneClickDeviceEvent,
     IoTOneClickButtonClicked |-> IoTOneClickButtonClicked,
     IoTOneClickDeviceInfo |-> IoTOneClickDeviceInfo,
     IoTOneClickPlacementInfo |-> IoTOneClickPlacementInfo, IoTButtonEvent |-> IoTButtonEvent,
     IoTCustomAuthorizerRequest |-> IoTCustomAuthorizerRequest,
     IoTCustomAuthorizerResponse |-> IoTCustomAuthorizerResponse, LexEvent |-> LexEvent,
     LexBot |-> LexBot, LexCurrentIntent |-> LexCurrentIntent,
     LexAlternativeIntents |-> LexAlternativeIntents, SlotDetail |-> SlotDetail,
     LexDialogAction |-> LexDialogAction, LexResponse |-> LexResponse,
     LexResponseCard |-> LexResponseCard, Attachment |-> Attachment,
     SimpleEmailEvent |-> SimpleEmailEvent, SimpleEmailRecord |-> SimpleEmailRecord,
     SimpleEmailService |-> SimpleEmailService, SimpleEmailMessage |-> SimpleEmailMessage,
     SimpleEmailReceipt |-> SimpleEmailReceipt, SimpleEmailHeader |-> SimpleEmailHeader,
     SimpleEmailCommonHeaders |-> SimpleEmailCommonHeaders,
     SimpleEmailReceiptAction |-> SimpleEmailReceiptAction,
     SimpleEmailVerdict |-> SimpleEmailVerdict,
     SimpleEmailDisposition |-> SimpleEmailDisposition]

UsersTypes ==
    [CognitoEventUserPoolsPreSignupTriggerSource |-> CognitoEventUserPoolsPreSignupTriggerSource,
     CognitoEventUserPoolsPreAuthenticationTriggerSource |-> CognitoEventUserPoolsPreAuthenticationTriggerSource,
     CognitoEventUserPoolsPostConfirmationTriggerSource |-> CognitoEventUserPoolsPostConfirmationTriggerSource,
     CognitoEventUserPoolsPreTokenGenTriggerSource |-> CognitoEventUserPoolsPreTokenGenTriggerSource,
     CognitoEventUserPoolsPostAuthenticationTriggerSource |-> CognitoEventUserPoolsPostAuthenticationTriggerSource,
     CognitoEventUserPoolsMigrateUserTriggerSource |-> CognitoEventUserPoolsMigrateUserTriggerSource,
     CognitoEventUserPoolsDefineAuthChallengeTriggerSource |-> CognitoEventUserPoolsDefineAuthChallengeTriggerSource,
     CognitoEventUserPoolsCreateAuthChallengeTriggerSource |-> CognitoEventUserPoolsCreateAuthChallengeTriggerSource,
     CognitoEventUserPoolsVerifyAuthChallengeTriggerSource |-> CognitoEventUserPoolsVerifyAuthChallengeTriggerSource,
     CognitoEventUserPoolsCustomMessageTriggerSource |-> CognitoEventUserPoolsCustomMessageTriggerSource]
        @@ PlainTypes(UsersStructs)
=============================================================================
