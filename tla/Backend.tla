------------------------------ MODULE Backend ------------------------------
(***************************************************************************)
(* The store behind the handlers: main opens PostgreSQL when DATABASE_URL  *)
(* is set and a MemoryStore otherwise, once, before the server starts.  A  *)
(* Redis decorator passes every call modelled here on to it.               *)
(***************************************************************************)
VARIABLE backend  \* the store that main has opened

Backends == {"memory", "postgres"}

OpenStore == backend \in Backends

InMemory == backend = "memory"
OnPostgres == backend = "postgres"
=============================================================================
