------------------------------- MODULE AutoCert -------------------------------
(***************************************************************************)
(* The start of a server with transport "tls" and auto_cert = true:        *)
(* ListenTLS (transport.go) calls EnsureCert (autocert.go), which takes    *)
(* the two files it finds or generates a new pair, and then loads the pair.*)
(* Any error ends the process (main.go); systemd starts it again           *)
(* (install.sh, Restart=always).  The process may be killed between any    *)
(* two steps, and any write may fail.                                      *)
(*                                                                         *)
(* A file is "absent", "torn" (created or truncated, and not completely    *)
(* written: it has no PEM block) or "whole".  Of the contents only two     *)
(* things matter: how long the certificate is valid, and whether the key   *)
(* in the one file is that of the certificate in the other.                *)
(***************************************************************************)
EXTENDS Integers

CONSTANTS
  ValidDays,  \* validity of a new certificate
  RenewDays,  \* isCertValid: 30 days
  ForceRegen, \* AutoCertConfig.ForceRegen, which ListenTLS leaves FALSE
  MaxKills    \* bound on kills and write errors

ASSUME AutoCertAssumption ==
  /\ ValidDays \in Nat /\ RenewDays \in Nat /\ MaxKills \in Nat
  /\ ForceRegen \in BOOLEAN

VARIABLES
  tlsServer,   \* where the server process is, or "down"
  certFile,
  keyFile,
  paired,      \* the key in keyFile belongs to the certificate in certFile
  daysLeft,    \* until the certificate in certFile expires
  interrupted, \* history: the last generation was not finished
  kills

acVars == <<tlsServer, certFile, keyFile, paired, daysLeft, interrupted, kills>>

FileStates == {"absent", "torn", "whole"}

-----------------------------------------------------------------------------
(* EnsureCert.                                                             *)

StartServer ==
  /\ tlsServer = "down"
  /\ tlsServer' = "ensure"
  /\ UNCHANGED <<certFile, keyFile, paired, daysLeft, interrupted, kills>>

(* Mutant: isCertValid is not asked.                                       *)
MutantUsable == certFile # "absent" /\ keyFile # "absent"

(* Both files exist and isCertValid reads a certificate that is good for   *)
(* more than RenewDays.  Nobody looks into the key file.                   *)
Usable == certFile = "whole" /\ keyFile # "absent" /\ daysLeft > RenewDays

UseExisting ==
  /\ tlsServer = "ensure"
  /\ ~ForceRegen /\ Usable
  /\ tlsServer' = "load"
  /\ UNCHANGED <<certFile, keyFile, paired, daysLeft, interrupted, kills>>

GenerateSelfSigned ==
  /\ tlsServer = "ensure"
  /\ ForceRegen \/ ~Usable
  /\ tlsServer' = "openCert"
  /\ UNCHANGED <<certFile, keyFile, paired, daysLeft, interrupted, kills>>

(* os.OpenFile truncates what was there.                                   *)
OpenCert ==
  /\ tlsServer = "openCert"
  /\ certFile' = "torn"
  /\ paired' = FALSE
  /\ interrupted' = TRUE
  /\ tlsServer' = "encodeCert"
  /\ UNCHANGED <<keyFile, daysLeft, kills>>

EncodeCert ==
  /\ tlsServer = "encodeCert"
  /\ certFile' = "whole"
  /\ daysLeft' = ValidDays
  /\ tlsServer' = "openKey"
  /\ UNCHANGED <<keyFile, paired, interrupted, kills>>

OpenKey ==
  /\ tlsServer = "openKey"
  /\ keyFile' = "torn"
  /\ tlsServer' = "encodeKey"
  /\ UNCHANGED <<certFile, paired, daysLeft, interrupted, kills>>

(* Mutant: it is not the key that signed the certificate.                  *)
MutantEncodeKey ==
  /\ tlsServer = "encodeKey"
  /\ keyFile' = "whole"
  /\ interrupted' = FALSE
  /\ tlsServer' = "load"
  /\ UNCHANGED <<certFile, paired, daysLeft, kills>>

EncodeKey ==
  /\ tlsServer = "encodeKey"
  /\ keyFile' = "whole"
  /\ paired' = TRUE
  /\ interrupted' = FALSE
  /\ tlsServer' = "load"
  /\ UNCHANGED <<certFile, daysLeft, kills>>

-----------------------------------------------------------------------------
(* ListenTLS and the process.                                              *)

(* tls.LoadX509KeyPair checks that the key fits.                           *)
Loads == certFile = "whole" /\ keyFile = "whole" /\ paired

ListenTLS ==
  /\ tlsServer = "load"
  /\ tlsServer' = IF Loads THEN "listening" ELSE "down"
  /\ UNCHANGED <<certFile, keyFile, paired, daysLeft, interrupted, kills>>

(* A kill at any point, and an error of MkdirAll, OpenFile or Encode: the  *)
(* process ends and the files stay as they are.                            *)
Killed ==
  /\ tlsServer # "down"
  /\ kills < MaxKills
  /\ kills' = kills + 1
  /\ tlsServer' = "down"
  /\ UNCHANGED <<certFile, keyFile, paired, daysLeft, interrupted>>

(* A listening server keeps what it has loaded and looks at no date.       *)
DayPasses ==
  /\ daysLeft > 0
  /\ daysLeft' = daysLeft - 1
  /\ UNCHANGED <<tlsServer, certFile, keyFile, paired, interrupted, kills>>

-----------------------------------------------------------------------------
ACInit ==
  /\ tlsServer = "down"
  /\ certFile = "absent"
  /\ keyFile = "absent"
  /\ paired = FALSE
  /\ daysLeft = 0
  /\ interrupted = FALSE
  /\ kills = 0

ServerProcess ==
  \/ StartServer
  \/ UseExisting
  \/ GenerateSelfSigned
  \/ OpenCert
  \/ EncodeCert
  \/ OpenKey
  \/ EncodeKey
  \/ ListenTLS

ACNext == ServerProcess \/ Killed \/ DayPasses

ACSpec == ACInit /\ [][ACNext]_acVars

(* The process runs and systemd restarts it.  No day has to pass: a server *)
(* that comes back when a certificate of three years expires does not.     *)
ACFairSpec == ACSpec /\ WF_acVars(ServerProcess)

-----------------------------------------------------------------------------
Generating == {"encodeCert", "openKey", "encodeKey"}

ACTypeOK ==
  /\ tlsServer \in {"down", "ensure", "openCert", "load", "listening"} \cup Generating
  /\ certFile \in FileStates
  /\ keyFile \in FileStates
  /\ paired \in BOOLEAN
  /\ daysLeft \in 0..ValidDays
  /\ interrupted \in BOOLEAN
  /\ kills \in 0..MaxKills

(* The files are both missing or a pair that loads, through all starts and *)
(* renewals, unless the last generation was cut off in the middle.  (It is *)
(* EnsureCert's only check of the key that its file exists.)               *)
PairUnlessInterrupted ==
  ~interrupted => Loads \/ (certFile = "absent" /\ keyFile = "absent")

(* The files of a generation that was cut off behind its certificate and   *)
(* that the next start takes for good.                                     *)
HalfRenewed ==
  /\ interrupted
  /\ certFile = "whole" /\ daysLeft > RenewDays
  /\ keyFile # "absent" /\ ~Loads

(* Whatever a kill, a write error or the age of the certificate has left,  *)
(* a start leads to a server that listens without a day going by, with one *)
(* exception: the new certificate is complete and an old or a torn key is  *)
(* next to it.                                                             *)
ListensUnlessHalfRenewed ==
  tlsServer = "ensure" ~> (tlsServer = "listening" \/ (tlsServer = "load" /\ HalfRenewed))

(* "EnsureCert checks if cert/key exist; if not, generates them            *)
(* automatically" (autocert.go:43), and "no manual setup" (README.md:141): *)
(* a server that is started listens in the end.                            *)
ListensAgain == tlsServer = "ensure" ~> tlsServer = "listening"
=============================================================================
