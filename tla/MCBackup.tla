------------------------------ MODULE MCBackup ------------------------------
(* The database machine and its backups on a small instance. *)
EXTENDS Backup

MCConfFiles == <<"postgresql.conf", "pg_hba.conf">>
=============================================================================
