------------------------------- MODULE MCEvents -------------------------------
(***************************************************************************)
(* Every type of the tables, for TLC; and, for the claim that a caller is  *)
(* recognised, the identities of AppSync's authorization modes.            *)
(***************************************************************************)
EXTENDS Events, EventTypesHttp, EventTypesStreams, EventTypesUsers,
        EventTypesCloudWatch, EventTypesOperations, EventTypesPlatform

MCTypes == HttpTypes @@ StreamsTypes @@ UsersTypes @@ CloudWatchTypes @@ OperationsTypes
             @@ PlatformTypes

MCIdentities == [AppSyncIdentity |-> AppSyncIdentity]

MCUnknown == "x-unknown"

\* Every millisecond of a second.
MCFractionValues == 0..999
===============================================================================
