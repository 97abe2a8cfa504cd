----------------------------- MODULE MCFrontend -----------------------------
(***************************************************************************)
(* The instance of Frontend that TLC checks: two clients, both data-plane  *)
(* listeners, and configurations in which two clients meet each cap.       *)
(***************************************************************************)
EXTENDS Frontend

CONSTANTS alice, root, app, console

MCConfigs == { [client |-> 1, db |-> 0, user |-> 0],
               [client |-> 0, db |-> 1, user |-> 0],
               [client |-> 2, db |-> 2, user |-> 1] }
=============================================================================
