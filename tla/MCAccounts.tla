----------------------------- MODULE MCAccounts -----------------------------
(* Accounts with two addresses, two passwords and three requests, and the  *)
(* throttle that a login passes first, with two processes.  A behaviour is *)
(* one of the requests or one of the throttle, whichever side names: they  *)
(* share no state.                                                         *)
EXTENDS Accounts, Throttle

CONSTANTS u1, u2
AllKinds == {"login", "refresh", "logout", "change_password", "revoke_others", "revoke_session",
             "signup", "resend", "request_reset", "confirm_reset", "verify_email", "email_change",
             "confirm_email", "export_otp", "export", "delete_otp", "delete", "create_wallet",
             "generate_key", "delete_key"}
MCUsers == {u1, u2}
MCEmails == {"a@home", "b@away"}
MCPasswords == {"first", "second"}
MCOffered == <<AllKinds, AllKinds, {"login", "refresh", "logout", "verify_email", "confirm_email", "confirm_reset"}>>

VARIABLE side

MCInit == side \in {"requests", "throttle"} /\ Init /\ ThrottleInit

MCNext ==
    \/ side = "requests" /\ Next /\ UNCHANGED <<side, throttlevars>>
    \/ side = "throttle" /\ ThrottleNext /\ UNCHANGED <<side, vars>>

MCSpec == MCInit /\ [][MCNext]_<<side, vars, throttlevars>>
=============================================================================
