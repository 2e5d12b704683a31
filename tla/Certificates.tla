---------------------------- MODULE Certificates ----------------------------
(***************************************************************************)
(* sambanas2's init-smbd: the CA and the server certificate smbd serves,   *)
(* kept in /ssl/sambanas over restarts and renewed at a start that finds   *)
(* them missing or no longer good.                                         *)
(*                                                                         *)
(* Every openssl call writes one file.  The add-on may be killed at any    *)
(* time, and a call may fail, which ends the script (set -e: the clean-up  *)
(* after the calls is never reached) and stops the add-on; the file it was *)
(* writing may then be torn.  A key is named by a number, a name the host  *)
(* has had too; certificates are what they certify.                        *)
(***************************************************************************)
EXTENDS Integers

CONSTANTS
  Names,     \* names the host has in turn are 1..Names
  MaxKeys,   \* bound: keys generated
  Starts,    \* bound: starts of the add-on
  None,      \* no such file
  Torn       \* what a call that was cut short leaves: no key, no certificate

Keys == 1..MaxKeys

\* A CA's certificate: its key; a server's: its key, the CA's and the name.
\* valid: neither expired nor within a day of it.
CaCerts == [key : Keys, valid : BOOLEAN]
ServerCerts == [key : Keys, ca : Keys, name : 1..Names, valid : BOOLEAN]

\* What the constants must be.
CertificateConstants ==
  /\ {Names, MaxKeys, Starts} \subseteq Nat \ {0}
  /\ {None, Torn} \cap (Nat \cup CaCerts \cup ServerCerts) = {} /\ None # Torn

VARIABLES
  running,  \* the container
  starts,   \* starts so far
  host,     \* the host's name
  ca_key, ca_cert, server_key, server_cert, \* the files in CERT_DIR
  last_key, \* the last key generated
  step,     \* where init-smbd is
  name      \* HOSTNAME, read by init-smbd

files == <<ca_key, ca_cert, server_key, server_cert, last_key>>
vars  == <<running, starts, host, files, step, name>>

Init ==
  /\ running = FALSE /\ starts = 0 /\ host = 1
  /\ ca_key = None /\ ca_cert = None /\ server_key = None /\ server_cert = None
  /\ last_key = 0
  /\ step = "off" /\ name = 1

CaCert(k) == [key |-> k, valid |-> TRUE]
ServerCert(k, ca, n) == [key |-> k, ca |-> ca, name |-> n, valid |-> TRUE]

Readable(cert) == cert \notin {None, Torn}

-----------------------------------------------------------------------------
Start ==
  /\ ~running /\ starts < Starts
  /\ running' = TRUE /\ starts' = starts + 1
  /\ step' = "name"
  /\ UNCHANGED <<host, files, name>>

\* bashio::info.hostname.
ReadName ==
  /\ step = "name" /\ step' = "check" /\ name' = host
  /\ UNCHANGED <<running, starts, host, files>>

\* Mutant: any name in the certificate will do.
Valid_AnyName(cert) == Readable(cert) /\ cert.valid

\* check_certificate_validity.
Valid(cert) == Readable(cert) /\ cert.valid /\ cert.name = name

\* Lines 145-164: all is well, or a new CA is needed too, or not.
Check ==
  /\ step = "check"
  /\ \/ /\ None \notin {server_key, server_cert, ca_cert} /\ Valid(server_cert)
        /\ step' = "done"
        /\ UNCHANGED <<ca_key, ca_cert>>
     \/ /\ None \in {server_key, server_cert, ca_cert} \/ ~Valid(server_cert)
        /\ IF ca_key # None /\ Readable(ca_cert) /\ ca_cert.valid
           THEN step' = "server_key" /\ UNCHANGED <<ca_key, ca_cert>>
           ELSE step' = "ca_key" /\ ca_key' = None /\ ca_cert' = None
  /\ UNCHANGED <<running, starts, host, server_key, server_cert, last_key, name>>

NewKey == last_key < MaxKeys /\ last_key' = last_key + 1

GenerateCaKey ==
  /\ step = "ca_key" /\ step' = "ca_cert"
  /\ NewKey /\ ca_key' = last_key'
  /\ UNCHANGED <<running, starts, host, ca_cert, server_key, server_cert, name>>

GenerateCaCert ==
  /\ step = "ca_cert" /\ step' = "server_key"
  /\ ca_cert' = CaCert(ca_key)
  /\ UNCHANGED <<running, starts, host, ca_key, server_key, server_cert, last_key, name>>

GenerateServerKey ==
  /\ step = "server_key" /\ step' = "server_cert"
  /\ NewKey /\ server_key' = last_key'
  /\ UNCHANGED <<running, starts, host, ca_key, ca_cert, server_cert, name>>

\* The signing request and its extensions are temporary files.
SignServerCert ==
  /\ step = "server_cert" /\ step' = "done"
  /\ server_cert' = ServerCert(server_key, ca_cert.key, name)
  /\ UNCHANGED <<running, starts, host, ca_key, ca_cert, server_key, last_key, name>>

\* f is as it was, or torn when it is the one being written.
Left(f, s) == f' = f \/ (step = s /\ f' = Torn)

\* The add-on is stopped or killed, or a call fails.
Stop ==
  /\ running /\ running' = FALSE /\ step' = "off"
  /\ Left(ca_key, "ca_key") /\ Left(ca_cert, "ca_cert")
  /\ Left(server_key, "server_key") /\ Left(server_cert, "server_cert")
  /\ UNCHANGED <<starts, host, last_key, name>>

\* The owner renames the host; a name does not come back.
Rename ==
  /\ host < Names /\ host' = host + 1
  /\ UNCHANGED <<running, starts, files, step, name>>

\* The owner removes the server's certificate to have it renewed.
RemoveCert ==
  /\ ~running /\ server_cert # None
  /\ server_cert' = None
  /\ UNCHANGED <<running, starts, host, ca_key, ca_cert, server_key, last_key, step, name>>

\* Ten years pass: the CA's certificate, the older one, has expired, and perhaps
\* the server's.
Expire ==
  /\ ~running /\ Readable(ca_cert) /\ ca_cert.valid
  /\ ca_cert' = [ca_cert EXCEPT !.valid = FALSE]
  /\ \/ Readable(server_cert) /\ server_cert' = [server_cert EXCEPT !.valid = FALSE]
     \/ UNCHANGED server_cert
  /\ UNCHANGED <<running, starts, host, ca_key, server_key, last_key, step, name>>

InitSmbd == \/ ReadName \/ Check
            \/ GenerateCaKey \/ GenerateCaCert \/ GenerateServerKey \/ SignServerCert

Next == Start \/ InitSmbd \/ Stop \/ Rename \/ RemoveCert \/ Expire

Spec == Init /\ [][Next]_vars

-----------------------------------------------------------------------------
TypeOK ==
  /\ running \in BOOLEAN /\ starts \in 0..Starts /\ host \in 1..Names
  /\ ca_key \in Keys \cup {None, Torn} /\ server_key \in Keys \cup {None, Torn}
  /\ ca_cert \in CaCerts \cup {None, Torn}
  /\ server_cert \in ServerCerts \cup {None, Torn}
  /\ last_key \in 0..MaxKeys
  /\ step \in {"off", "name", "check", "ca_key", "ca_cert", "server_key", "server_cert", "done"}
  /\ name \in 1..Names

\* However earlier starts were cut short, init-smbd never hands smbd a
\* certificate of another key, another CA or another name, nor an expired one.
\* (It may when the host's old name comes back, or when its owner removes one of
\* the other files: README.)
CertServes ==
  step = "done" =>
    /\ Readable(server_cert) /\ Readable(ca_cert)
    /\ server_cert = ServerCert(server_key, ca_cert.key, name)
=============================================================================
