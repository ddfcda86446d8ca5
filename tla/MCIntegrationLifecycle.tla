----------------------- MODULE MCIntegrationLifecycle -----------------------
(***************************************************************************)
(* Instances of IntegrationLifecycle for TLC.                              *)
(***************************************************************************)
EXTENDS IntegrationLifecycle, TLC

CONSTANTS c1, c2, w1, p1

TwoCalls == { c1, c2 }
InstallAndUninstall == c1 :> "install" @@ c2 :> "uninstall"
WithCredential == [c \in Caller |-> TRUE]
OneWorker == { w1 }
OnePoll == { p1 }
OwnerOfOne == p1 :> w1

Row(desired, actual) ==
    [ desired |-> desired, actual |-> actual, credential |-> TRUE,
      checked |-> 0, owner |-> Null, lease |-> Null ]

\* No integration yet, or one that has been installed.
FreshOrInstalled == { Null, Row("active", "active") }

=============================================================================
