----------------------------- MODULE MCImeGuard -----------------------------
(* Model-checking instance of ImeGuard: the runs "lease" and "takeover" of *)
(* the README.                                                             *)
EXTENDS ImeGuard

CrashFault == {"crash"}
=============================================================================
