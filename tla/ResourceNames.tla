--------------------------- MODULE ResourceNames ---------------------------
(***************************************************************************)
(* The names of resources, as the sequences of their parts (instance.cc,   *)
(* database.cc, backup.cc).                                                *)
(***************************************************************************)
EXTENDS Sequences

CONSTANT Ids     \* Instance: the ids of a project and an instance of it

InstanceName(in) == <<"projects", in.project, "instances", in.instance>>
DatabaseName(in, database) == InstanceName(in) \o <<"databases", database>>
BackupName(in, backup) == InstanceName(in) \o <<"backups", backup>>

\* The service names the sessions of a database.
SessionName(in, database, session) ==
  DatabaseName(in, database) \o <<"sessions", session>>
=============================================================================
