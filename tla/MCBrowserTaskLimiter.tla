------------------------ MODULE MCBrowserTaskLimiter ------------------------
(* Small instances of BrowserTaskLimiter. *)
EXTENDS BrowserTaskLimiter
=============================================================================
