------------------------------ MODULE MCAccounts -----------------------------
(***************************************************************************)
(* Small instances of Accounts for TLC.                                    *)
(***************************************************************************)
EXTENDS Accounts, TLC

CONSTANTS w1, w2, t1, ApiLimit, OtpLimit, ApiWindow, OtpWindow

Limits  == [api |-> ApiLimit, otp |-> OtpLimit]
Windows == [api |-> ApiWindow, otp |-> OtpWindow]
=============================================================================
