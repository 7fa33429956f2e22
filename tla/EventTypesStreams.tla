-------------------------- MODULE EventTypesStreams --------------------------
(***************************************************************************)
(* The events that carry batches of records: queues, topics, streams and   *)
(* change streams, and the responses to them.  One definition for each     *)
(* struct and enumeration, named for it.                                   *)
(***************************************************************************)
EXTENDS EventTypes

\* event/activemq/mod.rs
ActiveMqEvent == Open(
    [required |-> {"messages"},
     optional |-> {"eventSource", "eventSourceArn"}])
ActiveMqMessage == Open(
    [required |-> {"timestamp", "deliveryMode", "destination", "redelivered", "expiration",
                   "priority", "brokerInTime", "brokerOutTime"},
     optional |-> {"messageID", "messageType", "correlationID", "replyTo", "type", "data"},
     nullable |-> {"properties"}])
ActiveMqDestination == Open([optional |-> {"physicalName"}])

\* event/documentdb/events/commom_types.rs
DatabaseCollection == Open([required |-> {"db"}, optional |-> {"coll"}])
DocumentId == Open([required |-> {"_data"}])
DocumentKeyIdOid == Open([required |-> {"$oid"}])
DocumentKeyId == Open([required |-> {"_id"}])
InnerTimestamp == Open([required |-> {"t", "i"}])
Timestamp == Open([required |-> {"$timestamp"}])

\* event/documentdb/events/delete_event.rs
ChangeDeleteEvent == Open(
    [required |-> {"_id", "documentKey", "ns"},
     optional |-> {"clusterTime", "lsid", "txnNumber"}])

\* event/documentdb/events/drop_database_event.rs
ChangeDropDatabaseEvent == Open(
    [required |-> {"_id", "ns"},
     optional |-> {"clusterTime", "lsid", "txnNumber"}])

\* event/documentdb/events/drop_event.rs
ChangeDropEvent == Open(
    [required |-> {"_id", "ns"},
     optional |-> {"clusterTime", "lsid", "txnNumber"}])

\* event/documentdb/events/insert_event.rs
ChangeInsertEvent == Open(
    [required |-> {"_id", "documentKey", "ns"},
     optional |-> {"clusterTime", "lsid", "txnNumber"}])

\* event/documentdb/events/invalidate_event.rs
ChangeInvalidateEvent == Open([required |-> {"_id"}, optional |-> {"clusterTime"}])

\* event/documentdb/events/rename_event.rs
ChangeRenameEvent == Open(
    [required |-> {"_id", "ns", "to"},
     optional |-> {"clusterTime", "lsid", "txnNumber"}])

\* event/documentdb/events/replace_event.rs
ChangeReplaceEvent == Open(
    [required |-> {"_id", "documentKey", "ns"},
     optional |-> {"clusterTime", "lsid", "txnNumber"}])

\* event/documentdb/events/update_event.rs
UpdateTruncate == Open([required |-> {"field", "newSize"}])
UpdateDescription == Open(
    [required |-> {"removedFields", "truncatedArrays", "updatedFields"}])
ChangeUpdateEvent == Open(
    [required |-> {"_id", "documentKey", "ns", "updateDescription"},
     optional |-> {"clusterTime", "lsid", "txnNumber"}])

\* event/documentdb/mod.rs
ChangeEvent == Tagged(
    <<<<"insert", ChangeInsertEvent>>,
      <<"delete", ChangeDeleteEvent>>,
      <<"drop", ChangeDropEvent>>,
      <<"dropDatabase", ChangeDropDatabaseEvent>>,
      <<"invalidate", ChangeInvalidateEvent>>,
      <<"replace", ChangeReplaceEvent>>,
      <<"update", ChangeUpdateEvent>>,
      <<"rename", ChangeRenameEvent>>>>)
DocumentDbInnerEvent == Open([required |-> {"event"}])
DocumentDbEvent == Open(
    [required |-> {"events"},
     optional |-> {"eventSourceArn", "eventSource"}])

\* event/dynamodb/mod.rs
StreamViewType == Named(<<"NEW_IMAGE", "OLD_IMAGE", "NEW_AND_OLD_IMAGES", "KEYS_ONLY">>)
StreamStatus == Named(<<"ENABLING", "ENABLED", "DISABLING", "DISABLED">>)
SharedIteratorType == Named(
    <<"TRIM_HORIZON",
      "LATEST",
      "AT_SEQUENCE_NUMBER",
      "AFTER_SEQUENCE_NUMBER">>)
OperationType == Named(<<"INSERT", "MODIFY", "REMOVE">>)
KeyType == Named(<<"HASH", "RANGE">>)
DynamodbEvent == Open([required |-> {"Records"}])
EventRecord == Open(
    [required |-> {"awsRegion", "dynamodb", "eventID", "eventName"},
     optional |-> {"eventSource", "eventVersion", "eventSourceARN", "userIdentity",
                   "recordFormat", "tableName"}])
DynamodbUserIdentity == Open([defaulted |-> {"type", "principalId"}])
StreamRecord == Open(
    [required |-> {"SizeBytes"},
     optional |-> {"SequenceNumber", "StreamViewType"},
     defaulted |-> {"ApproximateCreationDateTime"},
     nullable |-> {"Keys", "NewImage", "OldImage"},
     epoch |-> {"ApproximateCreationDateTime"}])

\* event/firehose/mod.rs
KinesisFirehoseEvent == Open(
    [required |-> {"records"},
     optional |-> {"invocationId", "deliveryStreamArn", "sourceKinesisStreamArn", "region"}])
KinesisFirehoseEventRecord == Open(
    [required |-> {"approximateArrivalTimestamp", "data"},
     optional |-> {"recordId", "kinesisRecordMetadata"},
     millis |-> {"approximateArrivalTimestamp"}])
KinesisFirehoseResponse == Open([required |-> {"records"}])
KinesisFirehoseResponseRecord == Open(
    [required |-> {"data", "metadata"},
     optional |-> {"recordId", "result"}])
KinesisFirehoseResponseRecordMetadata == Open([nullable |-> {"partitionKeys"}])
KinesisFirehoseRecordMetadata == Open(
    [required |-> {"subsequenceNumber", "approximateArrivalTimestamp"},
     optional |-> {"shardId", "partitionKey", "sequenceNumber"},
     millis |-> {"approximateArrivalTimestamp"}])

\* event/kafka/mod.rs
KafkaEvent == Open(
    [optional |-> {"eventSource", "eventSourceArn", "bootstrapServers"},
     nullable |-> {"records"}])
KafkaRecord == Open(
    [required |-> {"partition", "offset", "timestamp", "headers"},
     optional |-> {"topic", "timestampType", "key", "value"},
     millis |-> {"timestamp"}])

\* event/kinesis/analytics.rs
KinesisAnalyticsOutputDeliveryEvent == Open(
    [required |-> {"records"},
     optional |-> {"invocationId", "applicationArn"}])
KinesisAnalyticsOutputDeliveryEventRecord == Open(
    [required |-> {"data"},
     optional |-> {"recordId"}])
KinesisAnalyticsOutputDeliveryResponse == Open([required |-> {"records"}])
KinesisAnalyticsOutputDeliveryResponseRecord == Open([optional |-> {"recordId", "result"}])

\* event/kinesis/event.rs
KinesisEvent == Open([required |-> {"Records"}])
KinesisEventRecord == Open(
    [required |-> {"kinesis"},
     optional |-> {"awsRegion", "eventID", "eventName", "eventSource", "eventSourceARN",
                   "eventVersion", "invokeIdentityArn"}])
KinesisRecord == Open(
    [required |-> {"approximateArrivalTimestamp", "data"},
     optional |-> {"kinesisSchemaVersion"},
     defaulted |-> {"encryptionType", "partitionKey", "sequenceNumber"},
     seconds |-> {"approximateArrivalTimestamp"}])
KinesisEncryptionType == Named(<<"NONE", "KMS">>)

\* event/rabbitmq/mod.rs
RabbitMqEvent == Open(
    [optional |-> {"eventSource", "eventSourceArn"},
     nullable |-> {"rmqMessagesByQueue"}])
RabbitMqMessage == Open(
    [required |-> {"basicProperties", "redelivered"},
     optional |-> {"data"}])
RabbitMqBasicProperties == Open(
    [required |-> {"deliveryMode", "priority", "bodySize"},
     optional |-> {"contentType", "contentEncoding", "correlationId", "replyTo", "expiration",
                   "messageId", "timestamp", "type", "userId", "appId", "clusterId"},
     nullable |-> {"headers"}])

\* event/sns/mod.rs
SnsEvent == Open([required |-> {"Records"}])
SnsRecord == Open(
    [required |-> {"EventSource", "EventVersion", "EventSubscriptionArn", "Sns"}])
SnsMessage == Open(
    [required |-> {"Type", "MessageId", "TopicArn", "Timestamp", "SignatureVersion",
                   "Signature", "SigningCertUrl", "UnsubscribeUrl", "Message"},
     optional |-> {"Subject"},
     nullable |-> {"MessageAttributes"},
     alias |-> [SigningCertUrl |-> "SigningCertURL", UnsubscribeUrl |-> "UnsubscribeURL"]])
SnsSubscriptionMessage == Open(
    [required |-> {"Type", "MessageId", "TopicArn", "Timestamp", "SignatureVersion",
                   "Signature", "SigningCertUrl", "Token", "Message"},
     optional |-> {"Subject", "SubscribeUrl"},
     nullable |-> {"MessageAttributes"},
     alias |-> [SigningCertUrl |-> "SigningCertURL", SubscribeUrl |-> "SubscribeURL"]])
SnsEventObj == Open([required |-> {"Records"}])
SnsRecordObj == Open(
    [required |-> {"EventSource", "EventVersion", "EventSubscriptionArn", "Sns"}])
SnsMessageObj == Open(
    [required |-> {"Type", "MessageId", "TopicArn", "Timestamp", "SignatureVersion",
                   "Signature", "SigningCertUrl", "UnsubscribeUrl", "Message"},
     optional |-> {"Subject"},
     nullable |-> {"MessageAttributes"},
     alias |-> [SigningCertUrl |-> "SigningCertURL", UnsubscribeUrl |-> "UnsubscribeURL"]])
MessageAttribute == Open([required |-> {"Type", "Value"}])
CloudWatchAlarmPayload == Open(
    [required |-> {"AlarmName", "AlarmDescription", "AWSAccountId", "NewStateValue",
                   "NewStateReason", "StateChangeTime", "Region", "AlarmArn", "OldStateValue",
                   "Trigger"}])
CloudWatchAlarmTrigger == Open(
    [required |-> {"Period", "EvaluationPeriods", "ComparisonOperator", "Threshold",
                   "TreatMissingData", "EvaluateLowSampleCountPercentile"},
     optional |-> {"MetricName", "Namespace", "StatisticType", "Statistic", "Unit"},
     defaulted |-> {"Metrics", "Dimensions"}])
CloudWatchMetricDataQuery == Open(
    [required |-> {"Id"},
     optional |-> {"Expression", "Label", "MetricStat", "Period"},
     nullable |-> {"ReturnData"}])
CloudWatchMetricStat == Open(
    [required |-> {"Metric", "Period", "Stat"},
     optional |-> {"Unit"}])
CloudWatchMetric == Open(
    [optional |-> {"MetricName", "Namespace"},
     defaulted |-> {"Dimensions"}])
CloudWatchDimension == Open([required |-> {"name", "value"}])

\* event/sqs/mod.rs
SqsEvent == Open([required |-> {"Records"}])
SqsMessage == Open(
    [optional |-> {"messageId", "receiptHandle", "body", "md5OfBody", "md5OfMessageAttributes",
                   "eventSourceARN", "eventSource", "awsRegion"},
     nullable |-> {"attributes", "messageAttributes"}])
SqsEventObj == Open([required |-> {"Records"}])
SqsMessageObj == Open(
    [required |-> {"body"},
     optional |-> {"messageId", "receiptHandle", "md5OfBody", "md5OfMessageAttributes",
                   "eventSourceARN", "eventSource", "awsRegion"},
     nullable |-> {"attributes", "messageAttributes"}])
SqsMessageAttribute == Open(
    [optional |-> {"stringValue", "binaryValue", "dataType"},
     defaulted |-> {"stringListValues", "binaryListValues"}])
SqsBatchResponse == Open([required |-> {"batchItemFailures"}])
BatchItemFailure == Open([required |-> {"itemIdentifier"}])
SqsApiEventObj == Open([required |-> {"Messages"}])
SqsApiEvent == Open([required |-> {"messages"}])
SqsApiMessageObj == Open(
    [required |-> {"Body"},
     optional |-> {"MessageId", "ReceiptHandle", "Md5OfBody", "Md5OfMessageAttributes"},
     nullable |-> {"Attributes", "MessageAttributes"}])
SqsApiMessage == Open(
    [optional |-> {"MessageId", "ReceiptHandle", "Body", "Md5OfBody", "Md5OfMessageAttributes"},
     nullable |-> {"Attributes", "MessageAttributes"}])

\* event/streams/mod.rs
KinesisEventResponse == Open([required |-> {"batchItemFailures"}])
KinesisBatchItemFailure == Open([optional |-> {"itemIdentifier"}])
DynamoDbEventResponse == Open([required |-> {"batchItemFailures"}])
DynamoDbBatchItemFailure == Open([optional |-> {"itemIdentifier"}])
SqsEventResponse == Open([required |-> {"batchItemFailures"}])
SqsBatchItemFailure == Open([optional |-> {"itemIdentifier"}])

\* time_window.rs
Window == Closed([required |-> {"start", "end"}])
TimeWindowProperties == Closed(
    [required |-> {"window", "isFinalInvokeForWindow", "isWindowTerminatedEarly"},
     optional |-> {"shardId", "eventSourceARN"},
     nullable |-> {"state"}])

\* event/dynamodb/mod.rs
TimeWindowEvent == Flatten(Open(<<>>), <<DynamodbEvent, TimeWindowProperties>>)

\* event/kinesis/event.rs
KinesisTimeWindowEvent == Flatten(Open(<<>>), <<KinesisEvent, TimeWindowProperties>>)

\* time_window.rs
TimeWindowEventResponseProperties == Closed([nullable |-> {"state"}])

\* event/dynamodb/mod.rs
TimeWindowEventResponse == Flatten(Open(
    [required |-> {"batchItemFailures"}]),
    <<TimeWindowEventResponseProperties>>)

\* event/kinesis/event.rs
KinesisTimeWindowEventResponse == Flatten(Open(<<>>), <<TimeWindowEventResponseProperties>>)

\* The structs and enumerations of this module by name.
StreamsStructs ==
    [ActiveMqEvent |-> ActiveMqEvent, ActiveMqMessage |-> ActiveMqMessage,
     ActiveMqDestination |-> ActiveMqDestination, DatabaseCollection |-> DatabaseCollection,
     DocumentId |-> DocumentId, DocumentKeyIdOid |-> DocumentKeyIdOid,
     DocumentKeyId |-> DocumentKeyId, InnerTimestamp |-> InnerTimestamp,
     Timestamp |-> Timestamp, ChangeDeleteEvent |-> ChangeDeleteEvent,
     ChangeDropDatabaseEvent |-> ChangeDropDatabaseEvent, ChangeDropEvent |-> ChangeDropEvent,
     ChangeInsertEvent |-> ChangeInsertEvent, ChangeInvalidateEvent |-> ChangeInvalidateEvent,
     ChangeRenameEvent |-> ChangeRenameEvent, ChangeReplaceEvent |-> ChangeReplaceEvent,
     UpdateTruncate |-> UpdateTruncate, UpdateDescription |-> UpdateDescription,
     ChangeUpdateEvent |-> ChangeUpdateEvent, DocumentDbInnerEvent |-> DocumentDbInnerEvent,
     DocumentDbEvent |-> DocumentDbEvent, DynamodbEvent |-> DynamodbEvent,
     EventRecord |-> EventRecord, DynamodbUserIdentity |-> DynamodbUserIdentity,
     StreamRecord |-> StreamRecord, KinesisFirehoseEvent |-> KinesisFirehoseEvent,
     KinesisFirehoseEventRecord |-> KinesisFirehoseEventRecord,
     KinesisFirehoseResponse |-> KinesisFirehoseResponse,
     KinesisFirehoseResponseRecord |-> KinesisFirehoseResponseRecord,
     KinesisFirehoseResponseRecordMetadata |-> KinesisFirehoseResponseRecordMetadata,
     KinesisFirehoseRecordMetadata |-> KinesisFirehoseRecordMetadata,
     KafkaEvent |-> KafkaEvent, KafkaRecord |-> KafkaRecord,
     KinesisAnalyticsOutputDeliveryEvent |-> KinesisAnalyticsOutputDeliveryEvent,
     KinesisAnalyticsOutputDeliveryEventRecord |-> KinesisAnalyticsOutputDeliveryEventRecord,
     KinesisAnalyticsOutputDeliveryResponse |-> KinesisAnalyticsOutputDeliveryResponse,
     KinesisAnalyticsOutputDeliveryResponseRecord |-> KinesisAnalyticsOutputDeliveryResponseRecord,
     KinesisEvent |-> KinesisEvent, KinesisEventRecord |-> KinesisEventRecord,
     KinesisRecord |-> KinesisRecord, RabbitMqEvent |-> RabbitMqEvent,
     RabbitMqMessage |-> RabbitMqMessage, RabbitMqBasicProperties |-> RabbitMqBasicProperties,
     SnsEvent |-> SnsEvent, SnsRecord |-> SnsRecord, SnsMessage |-> SnsMessage,
     SnsSubscriptionMessage |-> SnsSubscriptionMessage, SnsEventObj |-> SnsEventObj,
     SnsRecordObj |-> SnsRecordObj, SnsMessageObj |-> SnsMessageObj,
     MessageAttribute |-> MessageAttribute, CloudWatchAlarmPayload |-> CloudWatchAlarmPayload,
     CloudWatchAlarmTrigger |-> CloudWatchAlarmTrigger,
     CloudWatchMetricDataQuery |-> CloudWatchMetricDataQuery,
     CloudWatchMetricStat |-> CloudWatchMetricStat, CloudWatchMetric |-> CloudWatchMetric,
     CloudWatchDimension |-> CloudWatchDimension, SqsEvent |-> SqsEvent,
     SqsMessage |-> SqsMessage, SqsEventObj |-> SqsEventObj, SqsMessageObj |-> SqsMessageObj,
     SqsMessageAttribute |-> SqsMessageAttribute, SqsBatchResponse |-> SqsBatchResponse,
     BatchItemFailure |-> BatchItemFailure, SqsApiEventObj |-> SqsApiEventObj,
     SqsApiEvent |-> SqsApiEvent, SqsApiMessageObj |-> SqsApiMessageObj,
     SqsApiMessage |-> SqsApiMessage, KinesisEventResponse |-> KinesisEventResponse,
     KinesisBatchItemFailure |-> KinesisBatchItemFailure,
     DynamoDbEventResponse |-> DynamoDbEventResponse,
     DynamoDbBatchItemFailure |-> DynamoDbBatchItemFailure,
     SqsEventResponse |-> SqsEventResponse, SqsBatchItemFailure |-> SqsBatchItemFailure,
     Window |-> Window, TimeWindowProperties |-> TimeWindowProperties,
     TimeWindowEvent |-> TimeWindowEvent, KinesisTimeWindowEvent |-> KinesisTimeWindowEvent,
     TimeWindowEventResponseProperties |-> TimeWindowEventResponseProperties,
     TimeWindowEventResponse |-> TimeWindowEventResponse,
     KinesisTimeWindowEventResponse |-> KinesisTimeWindowEventResponse]

StreamsTypes ==
    [ChangeEvent |-> ChangeEvent, StreamViewType |-> StreamViewType,
     StreamStatus |-> StreamStatus, SharedIteratorType |-> SharedIteratorType,
     OperationType |-> OperationType, KeyType |-> KeyType,
     KinesisEncryptionType |-> KinesisEncryptionType]
        @@ PlainTypes(StreamsStructs)
=============================================================================
