------------------------------ MODULE Requests ------------------------------
(***************************************************************************)
(* What the services of the administration share.                          *)
(***************************************************************************)
CONSTANTS
    Proc,  \* goroutines serving requests
    NULL   \* no row, or no value in a request

=============================================================================
