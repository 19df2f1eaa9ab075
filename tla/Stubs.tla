------------------------------- MODULE Stubs -------------------------------
(***************************************************************************)
(* The stubs of the three services and their decorators: what becomes of   *)
(* one RPC on its way from RetryLoop() to gRPC and of its answer on the    *)
(* way back (spanner_stub.cc, database_admin_stub.cc,                      *)
(* instance_admin_stub.cc, *_metadata*.cc, *_logging*.cc, log_wrapper.h).  *)
(*                                                                         *)
(* A ClientContext is the sequence of its metadata, to which each use      *)
(* adds.  An object that the application names is its resource name and    *)
(* the resource name of the instance or project it is in.  One call goes   *)
(* down through the decorators, to gRPC, and up again, once for each try.  *)
(***************************************************************************)
EXTENDS RetryLoop, Sequences, ResourceNames

CONSTANTS
  Replies,      \* what gRPC can answer: a status, and a value if it is OK
  MaxFailures   \* that the retry policy tolerates

ASSUME StubsAssumption ==
  /\ MaxFailures \in Nat
  /\ \A a \in Replies : IsOk(a.status) => a.status = OkStatus

VARIABLES
  call,         \* the call: its service, rpc and request, and whether it may
                \* be repeated
  tracing,      \* the components whose calls are logged
  at,           \* the decorator that has the call, or its way back
  context,      \* the ClientContext of the try
  failures,     \* the failures that the retry policy has counted
  sent,         \* what the tries sent to gRPC
  replies,      \* what gRPC answered
  log,          \* what was logged
  result        \* what the try returns, or the call when it is done

stubVars == <<call, tracing, at, context, failures, sent, replies, log, result>>

(***************************************************************************)
(* The RPCs of each stub, by what they return: a StatusOr, a Status, a     *)
(* stream or an asynchronous response reader.                              *)
(***************************************************************************)
SpannerStub ==
  [status_or |-> {"CreateSession", "BatchCreateSessions", "GetSession",
                  "ListSessions", "ExecuteSql", "ExecuteBatchDml",
                  "BeginTransaction", "Commit", "PartitionQuery",
                  "PartitionRead"},
   status    |-> {"DeleteSession", "Rollback"},
   stream    |-> {"ExecuteStreamingSql", "StreamingRead"},
   async     |-> {"AsyncBatchCreateSessions", "AsyncGetSession",
                  "AsyncDeleteSession"}]

DatabaseAdminStub ==
  [status_or |-> {"CreateDatabase", "GetDatabase", "GetDatabaseDdl",
                  "UpdateDatabase", "ListDatabases", "RestoreDatabase",
                  "GetIamPolicy", "SetIamPolicy", "TestIamPermissions",
                  "CreateBackup", "GetBackup", "ListBackups", "UpdateBackup",
                  "ListBackupOperations", "ListDatabaseOperations",
                  "GetOperation"},
   status    |-> {"DropDatabase", "DeleteBackup", "CancelOperation"}]

InstanceAdminStub ==
  [status_or |-> {"GetInstance", "CreateInstance", "UpdateInstance",
                  "GetInstanceConfig", "ListInstanceConfigs", "ListInstances",
                  "GetIamPolicy", "SetIamPolicy", "TestIamPermissions",
                  "GetOperation"},
   status    |-> {"DeleteInstance"}]

Services == [spanner |-> SpannerStub, database_admin |-> DatabaseAdminStub,
             instance_admin |-> InstanceAdminStub]

RpcsOf(service) == UNION {Services[service][k] : k \in DOMAIN Services[service]}

KindOf(service, rpc) ==
  CHOOSE k \in DOMAIN Services[service] : rpc \in Services[service][k]

(***************************************************************************)
(* The field of the request by which the RPCs are routed.                  *)
(***************************************************************************)
MetadataSpannerStub ==
  [database |-> {"CreateSession", "BatchCreateSessions",
                 "AsyncBatchCreateSessions", "ListSessions"},
   name     |-> {"GetSession", "AsyncGetSession", "DeleteSession",
                 "AsyncDeleteSession"},
   session  |-> {"ExecuteSql", "ExecuteStreamingSql", "ExecuteBatchDml",
                 "StreamingRead", "BeginTransaction", "Commit", "Rollback",
                 "PartitionQuery", "PartitionRead"}]

DatabaseAdminMetadata ==
  [parent   |-> {"CreateDatabase", "ListDatabases", "RestoreDatabase",
                 "CreateBackup", "ListBackups", "ListBackupOperations",
                 "ListDatabaseOperations"},
   name     |-> {"GetDatabase", "GetBackup", "DeleteBackup", "UpdateBackup",
                 "GetOperation", "CancelOperation"},
   database |-> {"GetDatabaseDdl", "UpdateDatabase", "DropDatabase"},
   resource |-> {"GetIamPolicy", "SetIamPolicy", "TestIamPermissions"}]

InstanceAdminMetadata ==
  [parent   |-> {"CreateInstance", "ListInstanceConfigs", "ListInstances"},
   name     |-> {"GetInstance", "UpdateInstance", "DeleteInstance",
                 "GetInstanceConfig", "GetOperation"},
   resource |-> {"GetIamPolicy", "SetIamPolicy", "TestIamPermissions"}]

Routing == [spanner |-> MetadataSpannerStub,
            database_admin |-> DatabaseAdminMetadata,
            instance_admin |-> InstanceAdminMetadata]

FieldOf(service, rpc) ==
  CHOOSE f \in DOMAIN Routing[service] : rpc \in Routing[service][f]

\* The request names the object in the field that the service expects, or
\* the instance or project of an object that is to be created or listed.
MakeRequest(service, rpc, object) ==
  LET field == FieldOf(service, rpc)
  IN [field |-> field,
      resource |-> IF field = "parent" THEN object.parent ELSE object.name]

(***************************************************************************)
(* The decorators.                                                         *)
(***************************************************************************)
\* The fields of a message inside of the request are named with their path;
\* GetDatabaseDdl() is routed by a field its request does not have.
ParamName(rpc, request) ==
  CASE rpc = "UpdateBackup"   -> "backup.name"
    [] rpc = "UpdateInstance" -> "instance.name"
    [] rpc = "GetDatabaseDdl" -> "name"
    [] OTHER                  -> request.field

SetMetadata(metadata, rpc, request) ==
  metadata \o <<[header |-> "x-goog-request-params",
                param |-> ParamName(rpc, request), value |-> request.resource],
               [header |-> "x-goog-api-client", param |-> "", value |-> "version"]>>

\* Mutant: the status of gRPC is not looked at.
UnaryResult_NoStatus(kind, answer) ==
  [status |-> OkStatus, value |-> IF kind = "status" THEN {} ELSE answer.value]

\* A status that is not OK becomes the result of the call.
UnaryResult(kind, answer) ==
  IF ~IsOk(answer.status) THEN [status |-> answer.status, value |-> {}]
  ELSE [status |-> OkStatus,
        value |-> IF kind = "status" THEN {} ELSE answer.value]

\* Streams and asynchronous calls have no status yet.
DefaultSpannerStub(rpc, answer) ==
  LET kind == KindOf("spanner", rpc)
  IN IF kind \in {"stream", "async"}
     THEN [status |-> OkStatus, value |-> answer.value]
     ELSE UnaryResult(kind, answer)

DefaultDatabaseAdminStub(rpc, answer) ==
  UnaryResult(KindOf("database_admin", rpc), answer)

DefaultInstanceAdminStub(rpc, answer) ==
  UnaryResult(KindOf("instance_admin", rpc), answer)

DefaultCall(service, rpc, answer) ==
  CASE service = "spanner"        -> DefaultSpannerStub(rpc, answer)
    [] service = "database_admin" -> DefaultDatabaseAdminStub(rpc, answer)
    [] service = "instance_admin" -> DefaultInstanceAdminStub(rpc, answer)

\* Mutant: an error is logged as the response that there is not.
LogWrapper_NoStatus(kind, rpc, r) ==
  CASE kind \in {"stream", "async"} -> <<rpc, "not null">>
    [] kind = "status" -> <<rpc, "status", r.status>>
    [] OTHER -> <<rpc, "response", r.value>>

\* What LogWrapper() writes after the call; of a stream or an asynchronous
\* call it can only say that there is one.
LogWrapper(kind, rpc, r) ==
  CASE kind \in {"stream", "async"} -> <<rpc, "not null">>
    [] kind = "status" -> <<rpc, "status", r.status>>
    [] kind = "status_or" /\ ~IsOk(r.status) -> <<rpc, "status", r.status>>
    [] OTHER -> <<rpc, "response", r.value>>

\* The RPCs that the logging decorators pass through LogWrapper(): all.
LoggingSpannerStub   == RpcsOf("spanner")
DatabaseAdminLogging == RpcsOf("database_admin")
InstanceAdminLogging == RpcsOf("instance_admin")

IsLogged(service, rpc) ==
  \/ service = "spanner" /\ rpc \in LoggingSpannerStub
  \/ service = "database_admin" /\ rpc \in DatabaseAdminLogging
  \/ service = "instance_admin" /\ rpc \in InstanceAdminLogging

\* The outermost decorator of a new stub.
Outermost == IF "rpc" \in tracing THEN "logging" ELSE "metadata"

CreateDefaultSpannerStub       == Outermost
CreateDefaultDatabaseAdminStub == Outermost
CreateDefaultInstanceAdminStub == Outermost

StubOf(service) ==
  CASE service = "spanner"        -> CreateDefaultSpannerStub
    [] service = "database_admin" -> CreateDefaultDatabaseAdminStub
    [] service = "instance_admin" -> CreateDefaultInstanceAdminStub

(***************************************************************************)
(* A call with its tries.                                                  *)
(***************************************************************************)
\* What a call is about: an instance, a database or a backup of it, or a
\* session of the database.
ObjectOf(service, rpc, in) ==
  CASE service = "instance_admin" ->
         [name |-> InstanceName(in), parent |-> <<"projects", in.project>>]
    [] service = "database_admin" ->
         [name |-> IF rpc \in {"GetBackup", "DeleteBackup", "UpdateBackup"}
                   THEN BackupName(in, "b") ELSE DatabaseName(in, "d"),
          parent |-> InstanceName(in)]
    [] OTHER ->
         [name |-> IF rpc \in MetadataSpannerStub.database THEN DatabaseName(in, "d")
                   ELSE SessionName(in, "d", "s"),
          parent |-> DatabaseName(in, "d")]

StubInit ==
  /\ \E service \in {"spanner", "database_admin", "instance_admin"}, in \in Ids :
     \E rpc \in RpcsOf(service), is_idempotent \in BOOLEAN :
       call = [service |-> service, rpc |-> rpc, is_idempotent |-> is_idempotent,
               request |-> MakeRequest(service, rpc, ObjectOf(service, rpc, in))]
  /\ tracing \in SUBSET {"rpc"}
  /\ at = "loop" /\ context = <<>> /\ failures = 0
  /\ sent = <<>> /\ replies = <<>> /\ log = <<>>
  /\ result = [status |-> OkStatus, value |-> {}]

\* Mutant: the tries of a call share their context.
NextContext_Shared == context

\* Each try has a context of its own.
NextContext == <<>>

\* RetryLoop() calls the stub.
Try ==
  /\ at = "loop"
  /\ context' = NextContext
  /\ at' = StubOf(call.service)
  /\ UNCHANGED <<call, tracing, failures, sent, replies, log, result>>

LogRequest ==
  /\ at = "logging"
  /\ log' = IF IsLogged(call.service, call.rpc)
            THEN Append(log, <<call.rpc, "request", call.request>>) ELSE log
  /\ at' = "metadata"
  /\ UNCHANGED <<call, tracing, context, failures, sent, replies, result>>

AddMetadata ==
  /\ at = "metadata"
  /\ context' = SetMetadata(context, call.rpc, call.request)
  /\ at' = "default"
  /\ UNCHANGED <<call, tracing, failures, sent, replies, log, result>>

\* The default stub calls gRPC and has its answer.
Send ==
  /\ at = "default"
  /\ \E a \in Replies :
       /\ replies' = Append(replies, a)
       /\ result' = DefaultCall(call.service, call.rpc, a)
  /\ sent' = Append(sent, [context |-> context, request |-> call.request])
  /\ at' = IF "rpc" \in tracing THEN "logged" ELSE "returned"
  /\ UNCHANGED <<call, tracing, context, failures, log>>

LogResponse ==
  /\ at = "logged"
  /\ log' = IF IsLogged(call.service, call.rpc)
            THEN Append(log, LogWrapper(KindOf(call.service, call.rpc), call.rpc, result))
            ELSE log
  /\ at' = "returned"
  /\ UNCHANGED <<call, tracing, context, failures, sent, replies, result>>

\* RetryLoop() has the result of a try.
TryReturns ==
  /\ at = "returned"
  /\ IF ~IsOk(result.status)
          /\ CallsAgain(call.is_idempotent, result.status, failures, MaxFailures)
     THEN failures' = failures + 1 /\ at' = "loop" /\ UNCHANGED result
     ELSE /\ at' = "done"
          /\ result' = IF IsOk(result.status) THEN result
                       ELSE [result EXCEPT !.status = LoopResult(call.is_idempotent, @)]
          /\ UNCHANGED failures
  /\ UNCHANGED <<call, tracing, context, sent, replies, log>>

StubNext == Try \/ LogRequest \/ AddMetadata \/ Send \/ LogResponse \/ TryReturns

StubSpec == StubInit /\ [][StubNext]_stubVars

(***************************************************************************)
(* Properties.                                                             *)
(***************************************************************************)
\* Every try of a call goes out with its request unchanged, one header that
\* routes it to the resource of the request and one that identifies the
\* library, whichever try it is and whether or not calls are logged.
EveryTryIsRouted ==
  \A i \in DOMAIN sent :
    LET Headers(h) == {k \in DOMAIN sent[i].context : sent[i].context[k].header = h}
    IN /\ sent[i].request = call.request
       /\ \E k \in DOMAIN sent[i].context :
            /\ Headers("x-goog-request-params") = {k}
            /\ sent[i].context[k].value = call.request.resource
       /\ \E k \in DOMAIN sent[i].context : Headers("x-goog-api-client") = {k}

\* A stream or an asynchronous call has no status when it is returned.
Deferred == KindOf(call.service, call.rpc) \in {"stream", "async"}

\* An answer that RetryLoop() hands on, though it is an error.
Final(i) ==
  \/ Deferred \/ IsOk(replies[i].status) \/ ~call.is_idempotent
  \/ ~IsRetryable(replies[i].status) \/ i > MaxFailures

\* A call ends with the first answer that is not to be tried again, and with
\* what the service said in it: its response, or the code and the text of its
\* error.
ResultPassesThrough ==
  at = "done" =>
    LET n == Len(replies)
    IN /\ n = Len(sent) /\ n > 0
       /\ \A i \in 1 .. n : Final(i) <=> i = n
       /\ IF Deferred THEN IsOk(result.status) /\ result.value = replies[n].value
          ELSE /\ result.status.code = replies[n].status.code
               /\ replies[n].status.message \subseteq result.status.message
               /\ KindOf(call.service, call.rpc) = "status_or" /\ IsOk(result.status)
                    => result.value = replies[n].value

\* The log of a call that is done has the request and the answer of each try,
\* and nothing is logged unless it is asked for.
LogIsComplete ==
  IF "rpc" \notin tracing THEN log = <<>>
  ELSE at = "done" =>
         /\ Len(log) = 2 * Len(replies)
         /\ \A i \in DOMAIN replies :
              /\ log[2 * i - 1] = <<call.rpc, "request", call.request>>
              /\ IF Deferred THEN log[2 * i] = <<call.rpc, "not null">>
                 ELSE IF IsOk(replies[i].status)
                         /\ KindOf(call.service, call.rpc) = "status_or"
                 THEN log[2 * i] = <<call.rpc, "response", replies[i].value>>
                 ELSE log[2 * i] = <<call.rpc, "status", replies[i].status>>

\* The decorators add headers and log lines to a call, and change nothing.
CallsPassThrough == EveryTryIsRouted /\ ResultPassesThrough /\ LogIsComplete
=============================================================================
