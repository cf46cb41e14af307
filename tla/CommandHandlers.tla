--------------------------- MODULE CommandHandlers ---------------------------
(***************************************************************************)
(* The API requests that run a command of the kernel on quotes, orders and *)
(* proposal documents.  Each takes the snapshot of its first statement     *)
(* ("read"), waits for its row lock and checks ("lock"), and has written,  *)
(* and holds its locks, until it commits ("commit").                       *)
(***************************************************************************)

CONSTANTS
    Handlers      \* concurrent API requests

VARIABLES
    pc,           \* where a handler is
    request,      \* the command it works on
    view          \* what its first statement saw

NoRequest == [type |-> "none"]
===============================================================================
