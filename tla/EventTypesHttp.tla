---------------------------- MODULE EventTypesHttp ---------------------------
(***************************************************************************)
(* The events of the services that call a function over HTTP: API Gateway, *)
(* the load balancer, function URLs, VPC Lattice, AppSync and the policies *)
(* of authorizers.  One definition for each struct and enumeration, named  *)
(* for it.                                                                 *)
(***************************************************************************)
EXTENDS EventTypes

\* event/alb/mod.rs
AlbTargetGroupRequest == Open(
    [required |-> {"httpMethod", "requestContext"},
     optional |-> {"path", "body"},
     defaulted |-> {"queryStringParameters", "multiValueQueryStringParameters"},
     nullable |-> {"headers", "multiValueHeaders", "isBase64Encoded"},
     method |-> {"httpMethod"},
     headers |-> {"headers"}])
AlbTargetGroupRequestContext == Open([required |-> {"elb"}])
ElbContext == Open([optional |-> {"targetGroupArn"}])
AlbTargetGroupResponse == Open(
    [required |-> {"statusCode"},
     optional |-> {"statusDescription"},
     omitted |-> {"body"},
     defaulted |-> {"headers", "multiValueHeaders"},
     nullable |-> {"isBase64Encoded"},
     headers |-> {"headers"}])

\* event/apigw/mod.rs
ApiGatewayProxyRequest == Open(
    [required |-> {"httpMethod", "requestContext"},
     optional |-> {"resource", "path", "body"},
     nullable |-> {"headers", "multiValueHeaders", "queryStringParameters",
                   "multiValueQueryStringParameters", "pathParameters", "stageVariables",
                   "isBase64Encoded"},
     method |-> {"httpMethod"},
     headers |-> {"headers"}])
ApiGatewayProxyResponse == Open(
    [required |-> {"statusCode"},
     omitted |-> {"body"},
     nullable |-> {"headers", "multiValueHeaders", "isBase64Encoded"},
     headers |-> {"headers"}])
ApiGatewayProxyRequestContext == Open(
    [required |-> {"httpMethod"},
     optional |-> {"accountId", "resourceId", "stage", "domainName", "domainPrefix",
                   "requestId", "protocol", "resourcePath", "path", "requestTime", "apiId"},
     omitted |-> {"operationName"},
     defaulted |-> {"identity", "requestTimeEpoch"},
     nullableOmitted |-> {"authorizer"},
     method |-> {"httpMethod"}])
ApiGatewayV2httpRequest == Open(
    [required |-> {"requestContext"},
     optional |-> {"type", "methodArn", "identitySource", "authorizationToken", "resource",
                   "version", "routeKey", "rawPath", "rawQueryString"},
     omitted |-> {"cookies", "body"},
     defaulted |-> {"httpMethod", "isBase64Encoded"},
     nullable |-> {"headers", "stageVariables"},
     nullableOmitted |-> {"queryStringParameters", "pathParameters"},
     method |-> {"httpMethod"},
     headers |-> {"headers"},
     alias |-> [rawPath |-> "path"]])
ApiGatewayV2httpRequestContext == Open(
    [required |-> {"http"},
     optional |-> {"routeKey", "accountId", "stage", "requestId", "apiId", "domainName",
                   "domainPrefix", "time"},
     omitted |-> {"authorizer", "authentication"},
     defaulted |-> {"timeEpoch"}])
ApiGatewayRequestAuthorizer == Open(
    [omitted |-> {"jwt", "iam"},
     nullableOmitted |-> {"lambda"}])
ApiGatewayRequestAuthorizerJwtDescription == Open(
    [omitted |-> {"scopes"},
     nullable |-> {"claims"}])
ApiGatewayRequestAuthorizerIamDescription == Open(
    [optional |-> {"accessKey", "accountId", "callerId", "principalOrgId", "userArn", "userId"},
     omitted |-> {"cognitoIdentity"}])
ApiGatewayRequestAuthorizerCognitoIdentity == Open(
    [required |-> {"amr"},
     optional |-> {"identityId", "identityPoolId"}])
ApiGatewayV2httpRequestContextHttpDescription == Open(
    [required |-> {"method"},
     optional |-> {"path", "protocol", "sourceIp", "userAgent"},
     method |-> {"method"}])
ApiGatewayV2httpResponse == Open(
    [required |-> {"statusCode", "cookies"},
     omitted |-> {"body"},
     nullable |-> {"headers", "multiValueHeaders", "isBase64Encoded"},
     headers |-> {"headers"}])
ApiGatewayRequestIdentity == Open(
    [optional |-> {"cognitoIdentityPoolId", "accountId", "cognitoIdentityId", "caller",
                   "apiKey", "apiKeyId", "accessKey", "sourceIp", "cognitoAuthenticationType",
                   "cognitoAuthenticationProvider", "userArn", "userAgent", "user"}])
ApiGatewayWebsocketProxyRequest == Open(
    [required |-> {"requestContext"},
     optional |-> {"resource", "path", "body"},
     omitted |-> {"httpMethod"},
     nullable |-> {"headers", "multiValueHeaders", "queryStringParameters",
                   "multiValueQueryStringParameters", "pathParameters", "stageVariables",
                   "isBase64Encoded"},
     method |-> {"httpMethod"},
     headers |-> {"headers"}])
ApiGatewayWebsocketProxyRequestContext == Open(
    [required |-> {"connectedAt", "requestTimeEpoch"},
     optional |-> {"accountId", "resourceId", "stage", "requestId", "resourcePath", "apiId",
                   "connectionId", "domainName", "error", "eventType", "extendedRequestId",
                   "integrationLatency", "messageDirection", "messageId", "requestTime",
                   "routeKey", "status", "disconnectStatusCode", "disconnectReason"},
     omitted |-> {"httpMethod"},
     defaulted |-> {"identity"},
     nullableOmitted |-> {"authorizer"},
     method |-> {"httpMethod"}])
ApiGatewayCustomAuthorizerRequestTypeRequestIdentity == Open(
    [optional |-> {"apiKeyId", "apiKey", "sourceIp", "clientCert"}])
ApiGatewayCustomAuthorizerRequestTypeRequestIdentityClientCert == Open(
    [required |-> {"validity"},
     optional |-> {"clientCertPem", "issuerDN", "serialNumber", "subjectDN"}])
ApiGatewayCustomAuthorizerRequestTypeRequestIdentityClientCertValidity == Open(
    [optional |-> {"notAfter", "notBefore"}])
ApiGatewayV2httpRequestContextAuthentication == Open([optional |-> {"clientCert"}])
ApiGatewayV2httpRequestContextAuthenticationClientCert == Open(
    [required |-> {"validity"},
     optional |-> {"clientCertPem", "issuerDN", "serialNumber", "subjectDN"}])
ApiGatewayV2httpRequestContextAuthenticationClientCertValidity == Open(
    [optional |-> {"notAfter", "notBefore"}])
ApiGatewayV2CustomAuthorizerV1RequestTypeRequestContext == Open(
    [required |-> {"identity", "httpMethod"},
     optional |-> {"path", "accountId", "resourceId", "stage", "requestId", "resourcePath",
                   "apiId"},
     method |-> {"httpMethod"}])
ApiGatewayV2CustomAuthorizerV1Request == Open(
    [required |-> {"httpMethod", "requestContext"},
     optional |-> {"version", "type", "methodArn", "identitySource", "authorizationToken",
                   "resource", "path"},
     defaulted |-> {"headers"},
     nullable |-> {"queryStringParameters", "pathParameters", "stageVariables"},
     method |-> {"httpMethod"},
     headers |-> {"headers"}])
ApiGatewayV2CustomAuthorizerV2Request == Open(
    [required |-> {"requestContext"},
     optional |-> {"version", "type", "routeArn", "routeKey", "rawPath", "rawQueryString"},
     omitted |-> {"identitySource"},
     defaulted |-> {"cookies", "headers"},
     nullable |-> {"queryStringParameters", "pathParameters", "stageVariables"},
     headers |-> {"headers"}])
ApiGatewayCustomAuthorizerContext == Open(
    [optional |-> {"principalId", "stringKey", "numKey"},
     nullable |-> {"boolKey"}])
ApiGatewayCustomAuthorizerRequestTypeRequestContext == Open(
    [optional |-> {"path", "accountId", "resourceId", "stage", "requestId", "identity",
                   "resourcePath", "apiId"},
     omitted |-> {"httpMethod"},
     method |-> {"httpMethod"}])
ApiGatewayCustomAuthorizerRequest == Open(
    [optional |-> {"type", "authorizationToken", "methodArn"}])
ApiGatewayCustomAuthorizerRequestTypeRequest == Open(
    [required |-> {"requestContext"},
     optional |-> {"type", "methodArn", "resource", "path"},
     omitted |-> {"httpMethod"},
     nullable |-> {"headers", "multiValueHeaders", "queryStringParameters",
                   "multiValueQueryStringParameters", "pathParameters", "stageVariables"},
     method |-> {"httpMethod"},
     headers |-> {"headers"}])
ApiGatewayCustomAuthorizerResponse == Open(
    [required |-> {"policyDocument"},
     optional |-> {"principalId", "context", "usageIdentifierKey"}])
ApiGatewayV2CustomAuthorizerSimpleResponse == Open(
    [required |-> {"isAuthorized"},
     optional |-> {"context"}])
ApiGatewayV2CustomAuthorizerIamPolicyResponse == Open(
    [required |-> {"policyDocument"},
     optional |-> {"principalId", "context"}])
ApiGatewayCustomAuthorizerPolicy == Open(
    [required |-> {"Statement"},
     optional |-> {"Version"}])

\* event/appsync/mod.rs
AppSyncResolverTemplate == Open(
    [required |-> {"operation"},
     optional |-> {"version", "payload"}])
AppSyncIamIdentity == Open(
    [required |-> {"sourceIp"},
     optional |-> {"accountId", "cognitoIdentityAuthProvider", "cognitoIdentityAuthType",
                   "cognitoIdentityPoolId", "cognitoIdentityId", "username", "userArn"}])
AppSyncCognitoIdentity == Open(
    [required |-> {"sourceIp"},
     optional |-> {"sub", "issuer", "username", "defaultAuthStrategy"},
     nullable |-> {"claims"}])
AppSyncLambdaAuthorizerRequest == Open(
    [required |-> {"requestContext"},
     optional |-> {"authorizationToken"}])
AppSyncLambdaAuthorizerRequestContext == Open(
    [optional |-> {"apiId", "accountId", "requestId", "queryString", "operationName"},
     nullable |-> {"variables"}])
AppSyncLambdaAuthorizerResponse == Open(
    [required |-> {"isAuthorized"},
     optional |-> {"deniedFields", "ttlOverride"},
     nullable |-> {"resolverContext"}])
AppSyncDirectResolverEvent == Open(
    [required |-> {"request", "info", "stash"},
     optional |-> {"arguments", "identity", "source", "prev"}])
AppSyncRequest == Open([optional |-> {"domainName"}, nullable |-> {"headers"}])
AppSyncInfo == Open(
    [required |-> {"selectionSetGraphQL", "parentTypeName", "fieldName"},
     untyped |-> {"variables"},
     defaulted |-> {"selectionSetList"}])
AppSyncPrevResult == Open([untyped |-> {"result"}])
AppSyncIdentityOIDC == Open([required |-> {"issuer", "sub"}, untyped |-> {"claims"}])
AppSyncIdentityLambda == Open([untyped |-> {"resolverContext"}])
AppSyncIdentity == Untagged(
    <<AppSyncIamIdentity, AppSyncCognitoIdentity, AppSyncIdentityOIDC, AppSyncIdentityLambda>>)

\* event/iam/mod.rs
IamPolicyDocument == Open([required |-> {"Statement"}, optional |-> {"Version"}])
IamPolicyStatement == Open(
    [required |-> {"Action", "Resource"},
     omitted |-> {"Condition"},
     defaulted |-> {"Effect"}])
IamPolicyEffect == Named(<<"Allow", "Deny">>)

\* event/lambda_function_urls/mod.rs
LambdaFunctionUrlRequest == Open(
    [required |-> {"requestContext", "isBase64Encoded"},
     optional |-> {"version", "rawPath", "rawQueryString", "cookies", "body"},
     defaulted |-> {"headers"},
     nullable |-> {"queryStringParameters"},
     headers |-> {"headers"}])
LambdaFunctionUrlRequestContext == Open(
    [required |-> {"timeEpoch", "http"},
     optional |-> {"accountId", "requestId", "authorizer", "apiId", "domainName",
                   "domainPrefix", "time"}])
LambdaFunctionUrlRequestContextAuthorizerDescription == Open([optional |-> {"iam"}])
LambdaFunctionUrlRequestContextAuthorizerIamDescription == Open(
    [optional |-> {"accessKey", "accountId", "callerId", "userArn", "userId"}])
LambdaFunctionUrlRequestContextHttpDescription == Open(
    [optional |-> {"method", "path", "protocol", "sourceIp", "userAgent"}])
LambdaFunctionUrlResponse == Open(
    [required |-> {"statusCode", "isBase64Encoded", "cookies"},
     optional |-> {"body"},
     defaulted |-> {"headers"},
     headers |-> {"headers"}])

\* event/vpc_lattice/common.rs
VpcLatticeResponse == Open(
    [required |-> {"statusCode"},
     optional |-> {"body"},
     defaulted |-> {"isBase64Encoded"},
     nullableOmitted |-> {"headers"},
     headers |-> {"headers"}])

\* event/vpc_lattice/v1.rs
VpcLatticeRequestV1 == Open(
    [optional |-> {"body"},
     omitted |-> {"raw_path", "method"},
     defaulted |-> {"query_string_parameters"},
     nullable |-> {"headers", "is_base64_encoded"},
     method |-> {"method"}])

\* event/vpc_lattice/v2.rs
VpcLatticeRequestV2 == Open(
    [required |-> {"requestContext"},
     optional |-> {"body"},
     omitted |-> {"path", "method"},
     defaulted |-> {"version", "queryStringParameters"},
     nullable |-> {"headers", "isBase64Encoded"},
     method |-> {"method"}])

\* event/vpc_lattice/mod.rs
VpcLatticeRequest == Untagged(<<VpcLatticeRequestV2, VpcLatticeRequestV1>>)

\* event/vpc_lattice/v2.rs
VpcLatticeRequestV2Context == Open(
    [required |-> {"serviceNetworkArn", "serviceArn", "targetGroupArn", "region", "timeEpoch"},
     optional |-> {"identity"}])
VpcLatticeRequestV2Identity == Open(
    [optional |-> {"sourceVpcArn", "type", "principal", "principalOrgID", "sessionName",
                   "x509IssuerOu", "x509SanDns", "x509SanNameCn", "x509SanUri", "x509SubjectCn"}])

\* The structs and enumerations of this module by name.
HttpStructs ==
    [AlbTargetGroupRequest |-> AlbTargetGroupRequest,
     AlbTargetGroupRequestContext |-> AlbTargetGroupRequestContext, ElbContext |-> ElbContext,
     AlbTargetGroupResponse |-> AlbTargetGroupResponse,
     ApiGatewayProxyRequest |-> ApiGatewayProxyRequest,
     ApiGatewayProxyResponse |-> ApiGatewayProxyResponse,
     ApiGatewayProxyRequestContext |-> ApiGatewayProxyRequestContext,
     ApiGatewayV2httpRequest |-> ApiGatewayV2httpRequest,
     ApiGatewayV2httpRequestContext |-> ApiGatewayV2httpRequestContext,
     ApiGatewayRequestAuthorizer |-> ApiGatewayRequestAuthorizer,
     ApiGatewayRequestAuthorizerJwtDescription |-> ApiGatewayRequestAuthorizerJwtDescription,
     ApiGatewayRequestAuthorizerIamDescription |-> ApiGatewayRequestAuthorizerIamDescription,
     ApiGatewayRequestAuthorizerCognitoIdentity |-> ApiGatewayRequestAuthorizerCognitoIdentity,
     ApiGatewayV2httpRequestContextHttpDescription |-> ApiGatewayV2httpRequestContextHttpDescription,
     ApiGatewayV2httpResponse |-> ApiGatewayV2httpResponse,
     ApiGatewayRequestIdentity |-> ApiGatewayRequestIdentity,
     ApiGatewayWebsocketProxyRequest |-> ApiGatewayWebsocketProxyRequest,
     ApiGatewayWebsocketProxyRequestContext |-> ApiGatewayWebsocketProxyRequestContext,
     ApiGatewayCustomAuthorizerRequestTypeRequestIdentity |-> ApiGatewayCustomAuthorizerRequestTypeRequestIdentity,
     ApiGatewayCustomAuthorizerRequestTypeRequestIdentityClientCert |-> ApiGatewayCustomAuthorizerRequestTypeRequestIdentityClientCert,
     ApiGatewayCustomAuthorizerRequestTypeRequestIdentityClientCertValidity |-> ApiGatewayCustomAuthorizerRequestTypeRequestIdentityClientCertValidity,
     ApiGatewayV2httpRequestContextAuthentication |-> ApiGatewayV2httpRequestContextAuthentication,
     ApiGatewayV2httpRequestContextAuthenticationClientCert |-> ApiGatewayV2httpRequestContextAuthenticationClientCert,
     ApiGatewayV2httpRequestContextAuthenticationClientCertValidity |-> ApiGatewayV2httpRequestContextAuthenticationClientCertValidity,
     ApiGatewayV2CustomAuthorizerV1RequestTypeRequestContext |-> ApiGatewayV2CustomAuthorizerV1RequestTypeRequestContext,
     ApiGatewayV2CustomAuthorizerV1Request |-> ApiGatewayV2CustomAuthorizerV1Request,
     ApiGatewayV2CustomAuthorizerV2Request |-> ApiGatewayV2CustomAuthorizerV2Request,
     ApiGatewayCustomAuthorizerContext |-> ApiGatewayCustomAuthorizerContext,
     ApiGatewayCustomAuthorizerRequestTypeRequestContext |-> ApiGatewayCustomAuthorizerRequestTypeRequestContext,
     ApiGatewayCustomAuthorizerRequest |-> ApiGatewayCustomAuthorizerRequest,
     ApiGatewayCustomAuthorizerRequestTypeRequest |-> ApiGatewayCustomAuthorizerRequestTypeRequest,
     ApiGatewayCustomAuthorizerResponse |-> ApiGatewayCustomAuthorizerResponse,
     ApiGatewayV2CustomAuthorizerSimpleResponse |-> ApiGatewayV2CustomAuthorizerSimpleResponse,
     ApiGatewayV2CustomAuthorizerIamPolicyResponse |-> ApiGatewayV2CustomAuthorizerIamPolicyResponse,
     ApiGatewayCustomAuthorizerPolicy |-> ApiGatewayCustomAuthorizerPolicy,
     AppSyncResolverTemplate |-> AppSyncResolverTemplate,
     AppSyncIamIdentity |-> AppSyncIamIdentity,
     AppSyncCognitoIdentity |-> AppSyncCognitoIdentity,
     AppSyncLambdaAuthorizerRequest |-> AppSyncLambdaAuthorizerRequest,
     AppSyncLambdaAuthorizerRequestContext |-> AppSyncLambdaAuthorizerRequestContext,
     AppSyncLambdaAuthorizerResponse |-> AppSyncLambdaAuthorizerResponse,
     AppSyncDirectResolverEvent |-> AppSyncDirectResolverEvent,
     AppSyncRequest |-> AppSyncRequest, AppSyncInfo |-> AppSyncInfo,
     AppSyncPrevResult |-> AppSyncPrevResult, AppSyncIdentityOIDC |-> AppSyncIdentityOIDC,
     AppSyncIdentityLambda |-> AppSyncIdentityLambda, IamPolicyDocument |-> IamPolicyDocument,
     IamPolicyStatement |-> IamPolicyStatement,
     LambdaFunctionUrlRequest |-> LambdaFunctionUrlRequest,
     LambdaFunctionUrlRequestContext |-> LambdaFunctionUrlRequestContext,
     LambdaFunctionUrlRequestContextAuthorizerDescription |-> LambdaFunctionUrlRequestContextAuthorizerDescription,
     LambdaFunctionUrlRequestContextAuthorizerIamDescription |-> LambdaFunctionUrlRequestContextAuthorizerIamDescription,
     LambdaFunctionUrlRequestContextHttpDescription |-> LambdaFunctionUrlRequestContextHttpDescription,
     LambdaFunctionUrlResponse |-> LambdaFunctionUrlResponse,
     VpcLatticeResponse |-> VpcLatticeResponse, VpcLatticeRequestV1 |-> VpcLatticeRequestV1,
     VpcLatticeRequestV2 |-> VpcLatticeRequestV2,
     VpcLatticeRequestV2Context |-> VpcLatticeRequestV2Context,
     VpcLatticeRequestV2Identity |-> VpcLatticeRequestV2Identity]

HttpTypes ==
    [AppSyncIdentity |-> AppSyncIdentity, IamPolicyEffect |-> IamPolicyEffect,
     VpcLatticeRequest |-> VpcLatticeRequest]
        @@ PlainTypes(HttpStructs)
=============================================================================
