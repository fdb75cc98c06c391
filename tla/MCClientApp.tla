----------------------------- MODULE MCClientApp -----------------------------
(***************************************************************************)
(* A guest and a platform administrator share a browser.                   *)
(***************************************************************************)
EXTENDS ClientApp, TLC

CONSTANTS ann, sue

MCFirstRole == (ann :> "USER") @@ (sue :> "SUPERADMIN")
=============================================================================
