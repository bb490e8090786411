------------------------------ MODULE ApiBase ------------------------------
(***************************************************************************)
(* What the components behind the HTTP interface have in common: the       *)
(* requests of clients, the calls of admin endpoints, and whether Redis    *)
(* and Postgres may raise.                                                 *)
(***************************************************************************)
CONSTANTS
    Requests,           \* clients, each with one request at a time
    Admins,             \* calls of admin endpoints
    StoresMayFail

ASSUME ApiBaseAssumption == StoresMayFail \in BOOLEAN
=============================================================================
