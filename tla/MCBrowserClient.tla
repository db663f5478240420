-------------------------- MODULE MCBrowserClient --------------------------
(* Model-checking instance of BrowserClient: the constant is in the cfg.   *)
EXTENDS BrowserClient
=============================================================================
