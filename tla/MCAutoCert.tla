----------------------------- MODULE MCAutoCert -----------------------------
(* Certificates that are new for two days and then have to be renewed.     *)
EXTENDS AutoCert
=============================================================================
