----------------------------- MODULE Sambanas2 -----------------------------
(***************************************************************************)
(* sambanas2 from its start to the services it serves with: FactoryReset   *)
(* and Certificates in one container, which is started, killed and failed  *)
(* as a whole (S6_BEHAVIOUR_IF_STAGE2_FAILS=2).  init-smbd depends on      *)
(* factory-reset; for the rest the two run side by side.                   *)
(***************************************************************************)
EXTENDS Integers

CONSTANTS
  Settings, Image, Latest, Starts, Names, MaxKeys, None, Torn,
  Smbd,     \* bound: the settings under which init-smbd is looked at,
  Eventful  \* and those under which the host and the certificates change meanwhile

VARIABLES
  running, starts,                                   \* the container
  setting, options, cache, data, upgrade, srat, at, call, got, keys, stale, old,
  asked, beside,                                     \* FactoryReset's
  host, ca_key, ca_cert, server_key, server_cert, last_key, step, name
                                                     \* Certificates'

Options == INSTANCE FactoryReset
Certs   == INSTANCE Certificates

ASSUME Sambanas2Assumption == Options!FactoryResetConstants /\ Certs!CertificateConstants

optionVars == <<setting, options, cache, data, upgrade, srat, at, call, got, keys, stale, old,
                asked, beside>>
certVars   == <<host, ca_key, ca_cert, server_key, server_cert, last_key, step, name>>
vars == <<running, starts, optionVars, certVars>>

Init == Options!Init /\ Certs!Init

Start == Options!Start /\ Certs!Start

Stop == Options!Stop /\ Certs!Stop

\* A step of clean-config, factory-reset, check-srat-update, srat or modprobe, or
\* the owner's choice of an option.
OptionStep ==
  /\ Options!Step \/ Options!AskFactoryReset \/ Options!AskCleanUpgradeDir
  /\ UNCHANGED certVars

\* A step of init-smbd, which waits for factory-reset.
InitSmbd ==
  /\ setting \in Smbd
  /\ at["factory-reset"] = "done" /\ Certs!InitSmbd /\ UNCHANGED optionVars

\* What happens to the host and the certificates meanwhile.
Elsewhere ==
  /\ setting \in Eventful
  /\ Certs!Rename \/ Certs!RemoveCert \/ Certs!Expire
  /\ UNCHANGED optionVars

Next == Start \/ Stop \/ OptionStep \/ InitSmbd \/ Elsewhere

Spec == Init /\ [][Next]_vars

-----------------------------------------------------------------------------
\* The ranges of both parts.
TypeOK == Options!TypeOK /\ Certs!TypeOK

\* FactoryReset's and Certificates' properties, with kills and failures of one
\* part cutting short the other.
RemovedAsAsked    == Options!RemovedAsAsked
ResetsItselfAlone == Options!ResetsItselfAlone
ResetsItself      == Options!ResetsItself
CertServes        == Certs!CertServes
=============================================================================
