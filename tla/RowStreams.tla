----------------------------- MODULE RowStreams -----------------------------
(***************************************************************************)
(* Rows (row.h, row.cc) and what a result says of itself: its sources and  *)
(* the classes that the application sees (results.h, results.cc).  The     *)
(* iterators over rows are in ResultLoop.                                  *)
(***************************************************************************)
EXTENDS Values

Row(values, columns) == [values |-> values, columns |-> columns]

RowSize(row) == Len(row.columns)

\* Row::get(pos); positions count from 0.
GetAt(row, pos) ==
  IF pos < Len(row.values) THEN Ok(row.values[pos + 1]) ELSE Failed

\* Row::get(name): the first column of that name.
GetNamed(row, name) ==
  LET at == {i \in DOMAIN row.columns : row.columns[i] = name}
  IN IF at = {} THEN Failed
     ELSE GetAt(row, (CHOOSE i \in at : \A j \in at : i <= j) - 1)

\* Row::get<Tuple>(): every value has to convert.
GetTuple(Ts, row) ==
  LET r == [i \in DOMAIN Ts |-> Get(Ts[i], row.values[i])]
  IN IF RowSize(row) # Len(Ts) THEN Failed
     ELSE IF \E i \in DOMAIN Ts : ~r[i].ok THEN Failed
     ELSE Ok([i \in DOMAIN Ts |-> r[i].value])

(***************************************************************************)
(* Sources: what a result is made from.  Metadata and statistics are       *)
(* optional, and so are their parts.                                       *)
(***************************************************************************)
StatusOnlyResultSetSource == [metadata |-> Null, stats |-> Null]

\* One message is the whole result of a DML statement.
DmlResultSetSource(result_set) ==
  [metadata |-> result_set.metadata, stats |-> result_set.stats]

\* Mutant: metadata that come again replace the ones there are.
KeepsMetadata_Last(source) == FALSE

KeepsMetadata(source) == source.metadata.has

\* PartialResultSetSource: the first metadata and the last statistics stay.
ReadFromStream(source, message) ==
  [metadata |-> IF KeepsMetadata(source) \/ ~message.metadata.has
                THEN source.metadata ELSE message.metadata,
   stats |-> IF message.stats.has THEN message.stats ELSE source.stats]

(***************************************************************************)
(* RowStream, ProfileQueryResult, DmlResult, ProfileDmlResult: what they   *)
(* tell about a source.                                                    *)
(***************************************************************************)
GetReadTimestamp(source) ==
  IF source.metadata.has /\ source.metadata.value.transaction.has
  THEN source.metadata.value.transaction.value.read_timestamp
  ELSE Null

GetExecutionStats(source) ==
  IF source.stats.has THEN source.stats.value.query_stats ELSE Null

GetExecutionPlan(source) ==
  IF source.stats.has THEN source.stats.value.query_plan ELSE Null

\* Without statistics an empty optional is read: anything may happen.
GetRowsModified(source) ==
  IF source.stats.has THEN source.stats.value.row_count_exact ELSE "undefined"

RowStream(source) == [ReadTimestamp |-> GetReadTimestamp(source)]

ProfileQueryResult(source) ==
  [ReadTimestamp  |-> GetReadTimestamp(source),
   ExecutionStats |-> GetExecutionStats(source),
   ExecutionPlan  |-> GetExecutionPlan(source)]

DmlResult(source) == [RowsModified |-> GetRowsModified(source)]

ProfileDmlResult(source) ==
  [RowsModified   |-> GetRowsModified(source),
   ExecutionStats |-> GetExecutionStats(source),
   ExecutionPlan  |-> GetExecutionPlan(source)]
=============================================================================
