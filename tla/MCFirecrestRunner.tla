-------------------------- MODULE MCFirecrestRunner --------------------------
(* Instances of FirecrestRunner for TLC.                                   *)
EXTENDS FirecrestRunner

\* OAuth2 client credentials: consumer_key_path and consumer_secret_path.
KeyAndSecret == {"key", "secret"}
=============================================================================
