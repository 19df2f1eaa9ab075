------------------------------ MODULE Requests ------------------------------
(***************************************************************************)
(* The requests that the library builds from what the application gives    *)
(* it: key sets (keys.cc), mutations (mutations.h), statements             *)
(* (sql_statement.cc), partitions (read_partition.cc, query_partition.cc), *)
(* and transaction options (transaction.cc).                               *)
(***************************************************************************)
EXTENDS TimePoints, Sequences

(***************************************************************************)
(* KeySet.  A key is a sequence of Values; its protobuf has no types.      *)
(***************************************************************************)
AppendKey(key) == [i \in DOMAIN key |-> key[i].value]

KeySetOf(all) == [all |-> all, keys |-> <<>>, ranges |-> <<>>]

AddKey(ks, key) ==
  IF ks.all THEN ks ELSE [ks EXCEPT !.keys = Append(@, AppendKey(key))]

KeyBound(key, bound) == [key |-> key, bound |-> bound]

\* Mutant: the kind of the first bound is used for both.
AddRange_SameBound(ks, start, end) ==
  IF ks.all THEN ks
  ELSE [ks EXCEPT !.ranges =
          Append(@, [start |-> KeyBound(AppendKey(start.key), start.bound),
                     end |-> KeyBound(AppendKey(end.key), start.bound)])]

AddRange(ks, start, end) ==
  IF ks.all THEN ks
  ELSE [ks EXCEPT !.ranges =
          Append(@, [start |-> KeyBound(AppendKey(start.key), start.bound),
                     end |-> KeyBound(AppendKey(end.key), end.bound)])]

(***************************************************************************)
(* Mutations: rows of a table, or the keys to delete.                      *)
(***************************************************************************)
WriteMutationBuilder(op, table, columns) ==
  [op |-> op, table |-> table, columns |-> columns, values |-> <<>>]

AddRow(m, values) ==
  [m EXCEPT !.values = Append(@, [i \in DOMAIN values |-> values[i].value])]

MakeWriteMutation(op, table, columns, values) ==
  AddRow(WriteMutationBuilder(op, table, columns), values)

MakeDeleteMutation(table, keys) ==
  [op |-> "delete", table |-> table, key_set |-> keys]

(***************************************************************************)
(* SqlStatement: the parameters, a function from names to Values, become   *)
(* one map with their protobufs and one with their types.                  *)
(***************************************************************************)
StatementToProto(s) ==
  [sql |-> s.sql,
   params |-> [n \in DOMAIN s.params |-> s.params[n].value],
   param_types |-> [n \in DOMAIN s.params |-> s.params[n].type]]

GetParameter(s, name) == IF name \in DOMAIN s.params THEN Ok(s.params[name])
                         ELSE Failed

(***************************************************************************)
(* Transaction options.                                                    *)
(***************************************************************************)
ReadOnlyOptions(bound, value) ==
  [bound |-> bound, value |-> value, return_read_timestamp |-> TRUE]

StalenessOptions(bound, ns, per_second) ==
  ReadOnlyOptions(bound, DurationToProto(ns, per_second))

\* The selector of a new Transaction.
BeginSelector(mode, opts) == [kind |-> "begin", mode |-> mode, opts |-> opts]
SingleUseSelector(opts) == [kind |-> "single_use", mode |-> "read_only", opts |-> opts]
IdSelector(id) == [kind |-> "id", id |-> id]

(***************************************************************************)
(* Reads and queries.                                                      *)
(***************************************************************************)
ReadRequest(session, selector, params) ==
  [session |-> session, transaction |-> selector, table |-> params.table,
   index |-> params.index, columns |-> params.columns, key_set |-> params.keys,
   limit |-> params.limit, partition_token |-> params.partition_token]

PartitionReadRequest(session, selector, params) ==
  [session |-> session, transaction |-> selector, table |-> params.table,
   index |-> params.index, columns |-> params.columns, key_set |-> params.keys]

SqlRequest(session, selector, params) ==
  [session |-> session, transaction |-> selector,
   sql |-> StatementToProto(params.statement),
   optimizer_version |-> params.optimizer_version,
   partition_token |-> params.partition_token]

\* The version that the call asks for, else the client, else the environment.
OverlayQueryOptions(preferred, fallback, environment) ==
  IF preferred.has THEN preferred
  ELSE IF fallback.has THEN fallback
  ELSE environment

(***************************************************************************)
(* Partitions: what another process needs for its part of a read.  The     *)
(* session and the transaction go with each part.                          *)
(***************************************************************************)
MakeReadPartition(transaction_id, session_id, token, params) ==
  ReadRequest(session_id, IdSelector(transaction_id),
              [params EXCEPT !.partition_token = token])

\* The request is the form in which a partition is sent; parsing it gives the
\* request again.
SerializeReadPartition(partition) == [wire |-> "ReadRequest", proto |-> partition]
DeserializeReadPartition(text) ==
  IF text.wire = "ReadRequest" THEN Ok(text.proto) ELSE Failed

\* Mutant: the options of the read are not restored.
MakeReadParams_NoIndex(p) ==
  [session |-> p.session, selector |-> IdSelector(p.transaction.id),
   params |-> [table |-> p.table, index |-> "", columns |-> p.columns,
               keys |-> p.key_set, limit |-> p.limit,
               partition_token |-> p.partition_token]]

\* MakeReadParams(): a transaction on the session of the partition.
MakeReadParams(p) ==
  [session |-> p.session, selector |-> IdSelector(p.transaction.id),
   params |-> [table |-> p.table, index |-> p.index, columns |-> p.columns,
               keys |-> p.key_set, limit |-> p.limit,
               partition_token |-> p.partition_token]]

MakeQueryPartition(transaction_id, session_id, token, statement) ==
  [transaction_id |-> transaction_id, session_id |-> session_id,
   partition_token |-> token, statement |-> statement]

SerializeQueryPartition(p) ==
  [wire |-> "ExecuteSqlRequest",
   proto |-> [partition_token |-> p.partition_token, session |-> p.session_id,
              transaction |-> IdSelector(p.transaction_id),
              sql |-> StatementToProto(p.statement)]]

\* A parameter without a type is left out.
DeserializeQueryPartition(text) ==
  LET proto == text.proto
      names == DOMAIN proto.sql.params \cap DOMAIN proto.sql.param_types
  IN IF text.wire # "ExecuteSqlRequest" THEN Failed
     ELSE Ok(MakeQueryPartition(proto.transaction.id, proto.session,
               proto.partition_token,
               [sql |-> proto.sql.sql,
                params |-> [n \in names |-> [type |-> proto.sql.param_types[n],
                                             value |-> proto.sql.params[n]]]]))

\* MakeSqlParams() leaves the query options to the call that uses it.
MakeSqlParams(p, optimizer_version) ==
  [session |-> p.session_id, selector |-> IdSelector(p.transaction_id),
   params |-> [statement |-> p.statement, optimizer_version |-> optimizer_version,
               partition_token |-> p.partition_token]]
=============================================================================
