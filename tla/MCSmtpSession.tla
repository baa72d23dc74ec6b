--------------------------- MODULE MCSmtpSession ----------------------------
(* Small instances of SmtpSession: SIZE is 3 and lines are 1 or 2 long.    *)
EXTENDS SmtpSession
=============================================================================
