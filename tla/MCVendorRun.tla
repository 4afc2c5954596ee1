----------------------------- MODULE MCVendorRun -----------------------------
(***************************************************************************)
(* Two processes and two credentials: a login next to another login, a    *)
(* logout or a run, for each way a profile can authenticate.               *)
(***************************************************************************)
EXTENDS VendorRun
=============================================================================
