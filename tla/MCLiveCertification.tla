-------------------------- MODULE MCLiveCertification --------------------------
(* The instance of LiveCertification for TLC. *)
EXTENDS LiveCertification

BothProviders == { "entra", "okta" }
AllFaults == { "outage", "lag", "waver", "crash" }

=============================================================================
