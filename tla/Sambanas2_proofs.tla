-------------------------- MODULE Sambanas2_proofs --------------------------
(***************************************************************************)
(* The composition implements each of its parts, so that what is proved    *)
(* about a part holds of the add-on: FactoryReset_proofs' theorems, and    *)
(* those about the certificates, which are proved here.                    *)
(***************************************************************************)
EXTENDS Sambanas2, TLAPS

OptionProofs == INSTANCE FactoryReset_proofs

\* A step of the add-on is one of FactoryReset's, or leaves its state alone.
LEMMA OptionsStep == [Next]_vars => [Options!Next]_(Options!vars)
<1> SUFFICES ASSUME [Next]_vars PROVE [Options!Next]_(Options!vars)
  OBVIOUS
<1> USE DEF Options!vars, Options!disk, Options!services, optionVars
<1>1. CASE Start
  BY <1>1 DEF Start, Options!Next
<1>2. CASE Stop
  BY <1>2 DEF Stop, Options!Next
<1>3. CASE OptionStep
  BY <1>3 DEF OptionStep, Options!Next
<1>4. CASE InitSmbd
  <2>1. UNCHANGED <<running, starts>>
    BY <1>4 DEF InitSmbd, Certs!InitSmbd, Certs!ReadName, Certs!Check, Certs!GenerateCaKey,
               Certs!GenerateCaCert, Certs!GenerateServerKey, Certs!SignServerCert
  <2> QED
    BY <1>4, <2>1 DEF InitSmbd
<1>5. CASE Elsewhere
  <2>1. UNCHANGED <<running, starts>>
    BY <1>5 DEF Elsewhere, Certs!Rename, Certs!RemoveCert, Certs!Expire
  <2> QED
    BY <1>5, <2>1 DEF Elsewhere
<1>6. CASE UNCHANGED vars
  BY <1>6 DEF vars
<1> QED
  BY <1>1, <1>2, <1>3, <1>4, <1>5, <1>6 DEF Next

\* A step of the add-on is one of Certificates', or leaves its state alone.
LEMMA CertsStep == [Next]_vars => [Certs!Next]_(Certs!vars)
<1> SUFFICES ASSUME [Next]_vars PROVE [Certs!Next]_(Certs!vars)
  OBVIOUS
<1> USE DEF Certs!vars, Certs!files, certVars
<1>1. CASE Start
  BY <1>1 DEF Start, Certs!Next
<1>2. CASE Stop
  BY <1>2 DEF Stop, Certs!Next
<1>3. CASE OptionStep
  <2>1. UNCHANGED <<running, starts>>
    BY <1>3 DEF OptionStep,
         Options!Step, Options!Bashio, Options!Quiet, Options!CleanConfig,
         Options!CleanConfigReads, Options!CleanConfigPosts, Options!ResetAll,
         Options!TestFactoryReset, Options!Removes, Options!RemoveDatabase,
         Options!RemoveExtraModules, Options!RemoveUpgrade, Options!SetCleanUpgradeDir,
         Options!ResetFactoryReset, Options!Posts, Options!UpdateSrat,
         Options!ReadVersion, Options!HaveVersion, Options!TestCleanUpgradeDir,
         Options!CleanUpgradeDir, Options!ResetCleanUpgradeDir, Options!UpdateStep,
         Options!UpgradeLocal, Options!UpgradeOnline, Options!UpgradeFinal,
         Options!OtherReads, Options!Write, Options!AskFactoryReset,
         Options!AskCleanUpgradeDir
  <2> QED
    BY <1>3, <2>1 DEF OptionStep
<1>4. CASE InitSmbd
  BY <1>4 DEF InitSmbd, Certs!Next
<1>5. CASE Elsewhere
  BY <1>5 DEF Elsewhere, Certs!Next
<1>6. CASE UNCHANGED vars
  BY <1>6 DEF vars
<1> QED
  BY <1>1, <1>2, <1>3, <1>4, <1>5, <1>6 DEF Next

\* The services that handle the options run in the add-on as they run alone:
\* nothing the certificates do, or have done to them, interferes.
LEMMA ImplementsFactoryReset == Spec => Options!Spec
<1>1. Init => Options!Init
  BY DEF Init
<1> QED
  BY <1>1, OptionsStep, PTL DEF Spec, Options!Spec

\* init-smbd, which waits for factory-reset, does in the add-on what it does alone.
LEMMA ImplementsCertificates == Spec => Certs!Spec
<1>1. Init => Certs!Init
  BY DEF Init
<1> QED
  BY <1>1, CertsStep, PTL DEF Spec, Certs!Spec

-----------------------------------------------------------------------------
\* FactoryReset_proofs is about FactoryReset: the same definitions under two names.
LEMMA SameFactoryReset == Options!Spec => OptionProofs!Spec
<1>1. Options!Init => OptionProofs!Init
  BY DEF
      Options!Init, Options!Default, Options!DataDir, Options!ConfigDir,
      Options!AllOff, Options!NoCall, Options!GotNone, Options!NoCache,
      Options!Services, Options!CC, Options!FR, Options!SU, Options!Entries,
      OptionProofs!Init, OptionProofs!Default, OptionProofs!DataDir,
      OptionProofs!ConfigDir, OptionProofs!AllOff, OptionProofs!NoCall,
      OptionProofs!GotNone, OptionProofs!NoCache, OptionProofs!Services,
      OptionProofs!CC, OptionProofs!FR, OptionProofs!SU, OptionProofs!Entries
<1>2. Options!Next <=> OptionProofs!Next
  <2>1. Options!Start <=> OptionProofs!Start
    BY DEF
      Options!Start, Options!Services, Options!CC, Options!FR, Options!SU,
      Options!FirstPlace, Options!ToRemove, Options!Downloaded, Options!DataDir,
      Options!disk, OptionProofs!Start, OptionProofs!Services, OptionProofs!CC,
      OptionProofs!FR, OptionProofs!SU, OptionProofs!FirstPlace, OptionProofs!ToRemove,
      OptionProofs!Downloaded, OptionProofs!DataDir, OptionProofs!disk
  <2>2. Options!Stop <=> OptionProofs!Stop
    BY DEF
      Options!Stop, Options!AllOff, Options!Services, Options!CC, Options!FR,
      Options!SU, Options!NoCall, Options!GotNone, Options!Default, Options!NoCache,
      Options!Entries, Options!disk, OptionProofs!Stop, OptionProofs!AllOff,
      OptionProofs!Services, OptionProofs!CC, OptionProofs!FR, OptionProofs!SU,
      OptionProofs!NoCall, OptionProofs!GotNone, OptionProofs!Default,
      OptionProofs!NoCache, OptionProofs!Entries, OptionProofs!disk
  <2>3. Options!AskFactoryReset <=> OptionProofs!AskFactoryReset
    BY DEF
      Options!AskFactoryReset, Options!MayAsk, Options!disk, Options!services,
      OptionProofs!AskFactoryReset, OptionProofs!MayAsk, OptionProofs!disk,
      OptionProofs!services
  <2>4. Options!AskCleanUpgradeDir <=> OptionProofs!AskCleanUpgradeDir
    BY DEF
      Options!AskCleanUpgradeDir, Options!MayAsk, Options!disk, Options!services,
      OptionProofs!AskCleanUpgradeDir, OptionProofs!MayAsk, OptionProofs!disk,
      OptionProofs!services
  <2>5. Options!Bashio <=> OptionProofs!Bashio
    BY DEF
      Options!Bashio, Options!Services, Options!CC, Options!FR, Options!SU,
      Options!Hit, Options!ReadPlaces, Options!Entry, Options!Get, Options!Keep,
      Options!Flush, Options!NoCache, Options!Entries, Options!GoesTo,
      Options!NextPlace, Options!disk, OptionProofs!Bashio, OptionProofs!Services,
      OptionProofs!CC, OptionProofs!FR, OptionProofs!SU, OptionProofs!Hit,
      OptionProofs!ReadPlaces, OptionProofs!Entry, OptionProofs!Get, OptionProofs!Keep,
      OptionProofs!Flush, OptionProofs!NoCache, OptionProofs!Entries,
      OptionProofs!GoesTo, OptionProofs!NextPlace, OptionProofs!disk
  <2>6. Options!CleanConfig <=> OptionProofs!CleanConfig
    BY DEF
      Options!CleanConfig, Options!CleanConfigReads, Options!Uses, Options!CC,
      Options!Decides, Options!GoesTo, Options!Default, Options!Quiet, Options!disk,
      Options!CleanConfigPosts, Options!Posts, OptionProofs!CleanConfig,
      OptionProofs!CleanConfigReads, OptionProofs!Uses, OptionProofs!CC,
      OptionProofs!Decides, OptionProofs!GoesTo, OptionProofs!Default,
      OptionProofs!Quiet, OptionProofs!disk, OptionProofs!CleanConfigPosts,
      OptionProofs!Posts
  <2>7. Options!ResetAll <=> OptionProofs!ResetAll
    BY DEF
      Options!ResetAll, Options!TestFactoryReset, Options!Uses, Options!FR,
      Options!Decides, Options!GoesTo, Options!Default, Options!Quiet, Options!disk,
      Options!RemoveDatabase, Options!Removes, Options!RemoveExtraModules,
      Options!RemoveUpgrade, Options!DataDir, Options!SetCleanUpgradeDir,
      Options!PostFails, Options!Posts, Options!ResetFactoryReset, Options!CC,
      OptionProofs!ResetAll, OptionProofs!TestFactoryReset, OptionProofs!Uses,
      OptionProofs!FR, OptionProofs!Decides, OptionProofs!GoesTo, OptionProofs!Default,
      OptionProofs!Quiet, OptionProofs!disk, OptionProofs!RemoveDatabase,
      OptionProofs!Removes, OptionProofs!RemoveExtraModules,
      OptionProofs!RemoveUpgrade, OptionProofs!DataDir,
      OptionProofs!SetCleanUpgradeDir, OptionProofs!PostFails, OptionProofs!Posts,
      OptionProofs!ResetFactoryReset, OptionProofs!CC
  <2>8. Options!UpdateSrat <=> OptionProofs!UpdateSrat
    BY DEF
      Options!UpdateSrat, Options!ReadVersion, Options!FR, Options!SU, Options!GoesTo,
      Options!Quiet, Options!disk, Options!HaveVersion, Options!Uses, Options!Decides,
      Options!Default, Options!TestCleanUpgradeDir, Options!CleanUpgradeDir,
      Options!DataDir, Options!ResetCleanUpgradeDir, Options!PostFails, Options!Posts,
      Options!UpgradeLocal, Options!UpdateStep, Options!UpgradeIfNewer,
      Options!UpgradeDir, Options!ConfigDir, Options!UpgradeOnline,
      Options!UpgradeFinal, OptionProofs!UpdateSrat, OptionProofs!ReadVersion,
      OptionProofs!FR, OptionProofs!SU, OptionProofs!GoesTo, OptionProofs!Quiet,
      OptionProofs!disk, OptionProofs!HaveVersion, OptionProofs!Uses,
      OptionProofs!Decides, OptionProofs!Default, OptionProofs!TestCleanUpgradeDir,
      OptionProofs!CleanUpgradeDir, OptionProofs!DataDir,
      OptionProofs!ResetCleanUpgradeDir, OptionProofs!PostFails, OptionProofs!Posts,
      OptionProofs!UpgradeLocal, OptionProofs!UpdateStep, OptionProofs!UpgradeIfNewer,
      OptionProofs!UpgradeDir, OptionProofs!ConfigDir, OptionProofs!UpgradeOnline,
      OptionProofs!UpgradeFinal
  <2>9. Options!OtherReads <=> OptionProofs!OtherReads
    BY DEF
      Options!OtherReads, Options!FR, Options!GoesTo, Options!Uses, Options!Decides,
      Options!Default, Options!Quiet, Options!disk, OptionProofs!OtherReads,
      OptionProofs!FR, OptionProofs!GoesTo, OptionProofs!Uses, OptionProofs!Decides,
      OptionProofs!Default, OptionProofs!Quiet, OptionProofs!disk
  <2>10. ASSUME NEW x PROVE Options!Write(x) <=> OptionProofs!Write(x)
    BY DEF
      Options!Write, Options!SU, Options!FR, Options!Quiet, Options!services,
      OptionProofs!Write, OptionProofs!SU, OptionProofs!FR, OptionProofs!Quiet,
      OptionProofs!services
  <2> QED
    BY <2>1, <2>2, <2>3, <2>4, <2>5, <2>6, <2>7, <2>8, <2>9, <2>10
    DEF Options!Next, Options!Step, OptionProofs!Next, OptionProofs!Step
<1>3. UNCHANGED Options!vars => UNCHANGED OptionProofs!vars
  BY DEF Options!vars, Options!disk, Options!services,
         OptionProofs!vars, OptionProofs!disk, OptionProofs!services
<1>4. [Options!Next]_(Options!vars) => [OptionProofs!Next]_(OptionProofs!vars)
  BY <1>2, <1>3
<1> QED
  BY <1>1, <1>4, PTL DEF Options!Spec, OptionProofs!Spec

\* The constants of the add-on are good for both parts.
LEMMA ConstantsOK ==
  OptionProofs!FactoryResetConstants /\ Certs!CertificateConstants
  BY Sambanas2Assumption
  DEF Options!FactoryResetConstants, Options!Setting, Options!Channels, Options!OldKeys,
     
      OptionProofs!FactoryResetConstants, OptionProofs!Setting, OptionProofs!Channels,
      OptionProofs!OldKeys

-----------------------------------------------------------------------------
(* init-smbd's certificates, as Certs specifies them, for any number of     *)
(* starts, names and keys.                                                 *)

\* A server's certificate goes with the other files, whatever the host is called
\* now and however old it is.
Fits ==
  /\ Certs!Readable(server_cert) /\ Certs!Readable(ca_cert)
  /\ server_cert.key = server_key /\ server_cert.ca = ca_cert.key

\* It will never again be taken for good: the host's names only go up.
OldCertDead == Certs!Readable(server_cert) => ~server_cert.valid \/ server_cert.name < name

\* While init-smbd replaces the files the old certificate is dead, and a call
\* finds what the calls before it have made.
InitSmbdStage ==
  /\ running <=> step # "off"
  /\ step \in {"ca_key", "ca_cert", "server_key", "server_cert"} =>
       OldCertDead \/ ~Certs!Readable(server_cert)
  /\ step = "ca_cert" => ca_key \in Certs!Keys
  /\ step \in {"server_key", "server_cert"} => Certs!Readable(ca_cert)
  /\ step = "server_cert" => server_key \in Certs!Keys
  /\ step = "done" => Fits /\ server_cert.valid /\ server_cert.name = name

CertInv ==
  /\ Certs!TypeOK
  /\ name <= host
  /\ Certs!Readable(server_cert) => server_cert.name <= name
  /\ Fits \/ OldCertDead
  /\ InitSmbdStage

-----------------------------------------------------------------------------
\* None and Torn are no keys and no certificates.
LEMMA FileTypes ==
  ASSUME Certs!CertificateConstants, Certs!TypeOK
  PROVE  /\ None \notin Certs!Keys /\ Torn \notin Certs!Keys
         /\ Certs!Readable(ca_cert) => ca_cert \in Certs!CaCerts
         /\ Certs!Readable(server_cert) => server_cert \in Certs!ServerCerts
<1>1. None \notin Certs!Keys /\ Torn \notin Certs!Keys
  <2>1. Certs!Keys \subseteq Nat
    BY SMT DEF Certs!CertificateConstants, Certs!Keys
  <2> QED
    BY <2>1 DEF Certs!CertificateConstants
<1>2. /\ ca_cert \in Certs!CaCerts \cup {None, Torn}
      /\ server_cert \in Certs!ServerCerts \cup {None, Torn}
  BY DEF Certs!TypeOK
<1> QED
  BY <1>1, <1>2 DEF Certs!Readable

\* An expired certificate is one, of the same key.
LEMMA Expired ==
  /\ \A c \in Certs!CaCerts : LET e == [c EXCEPT !.valid = FALSE]
                       IN  e \in Certs!CaCerts /\ e.key = c.key
  /\ \A c \in Certs!ServerCerts : LET e == [c EXCEPT !.valid = FALSE]
                           IN  /\ e \in Certs!ServerCerts /\ ~e.valid
                               /\ e.name = c.name /\ e.key = c.key /\ e.ca = c.ca
  BY DEF Certs!CaCerts, Certs!ServerCerts

\* There is nothing yet, and nothing to fit.
LEMMA CertInvInit ==
  ASSUME Certs!CertificateConstants, Certs!Init
  PROVE  CertInv
<1>1. {0, 1} \subseteq Nat /\ 1 \in 1..Names /\ 0 \in 0..Starts /\ 0 \in 0..MaxKeys /\ 1 <= 1
  BY SMT DEF Certs!CertificateConstants
<1>2. Certs!TypeOK
  BY <1>1 DEF Certs!Init, Certs!TypeOK
<1>3. ~Certs!Readable(server_cert)
  BY DEF Certs!Init, Certs!Readable
<1>4. InitSmbdStage
  BY DEF Certs!Init, InitSmbdStage
<1> QED
  BY <1>1, <1>2, <1>3, <1>4 DEF Certs!Init, CertInv, OldCertDead

\* Every step keeps the invariant.
LEMMA CertInvNext ==
  ASSUME Certs!CertificateConstants, CertInv, [Certs!Next]_(Certs!vars)
  PROVE  CertInv'
<1> USE DEF Certs!CertificateConstants, CertInv, Certs!TypeOK, InitSmbdStage, Fits,
            OldCertDead, Certs!Readable, Certs!Keys, Certs!files
<1>1. CASE Certs!Start
  BY <1>1, FileTypes, SMT DEF Certs!Start, Certs!ServerCerts
<1>2. CASE Certs!Check
  <2> USE DEF Certs!Check, Certs!Valid
  <2>1. CASE /\ None \notin {server_key, server_cert, ca_cert} /\ Certs!Valid(server_cert)
             /\ step' = "done"
    BY <1>2, <2>1, FileTypes, SMT
  <2>2. CASE None \in {server_key, server_cert, ca_cert} \/ ~Certs!Valid(server_cert)
    BY <1>2, <2>2, FileTypes, SMT DEF Certs!CaCerts, Certs!ServerCerts
  <2> QED
    BY <1>2, <2>1, <2>2
<1>3. CASE Certs!GenerateCaKey
  BY <1>3, SMT DEF Certs!GenerateCaKey, Certs!NewKey
<1>4. CASE Certs!GenerateCaCert
  <2>1. ca_cert' \in Certs!CaCerts
    BY <1>4 DEF Certs!GenerateCaCert, Certs!CaCert, Certs!CaCerts
  <2> QED
    BY <1>4, <2>1, SMT DEF Certs!GenerateCaCert
<1>5. CASE Certs!GenerateServerKey
  BY <1>5, SMT DEF Certs!GenerateServerKey, Certs!NewKey
<1>6. CASE Certs!SignServerCert
  <2>1. /\ ca_cert \in Certs!CaCerts
        /\ server_cert' = [key |-> server_key, ca |-> ca_cert.key,
                           name |-> name, valid |-> TRUE]
    BY <1>6, FileTypes DEF Certs!SignServerCert, Certs!ServerCert
  <2>2. server_cert' \in Certs!ServerCerts
    BY <1>6, <2>1, SMT DEF Certs!SignServerCert, Certs!ServerCerts, Certs!CaCerts
  <2> QED
    <3>1. server_cert' \notin {None, Torn}
      BY <2>2
    <3>2. /\ server_cert'.key = server_key /\ server_cert'.ca = ca_cert.key
          /\ server_cert'.name = name /\ server_cert'.valid
      BY <2>1
    <3> HIDE DEF Certs!CertificateConstants
    <3> QED
      BY <1>6, <2>2, <3>1, <3>2, SMT DEF Certs!SignServerCert
<1>7. CASE Certs!Stop
  <2>1. Certs!Readable(server_cert') => server_cert' = server_cert
    BY <1>7 DEF Certs!Stop, Certs!Left
  <2>2. Certs!Readable(ca_cert') => ca_cert' = ca_cert
    BY <1>7 DEF Certs!Stop, Certs!Left
  <2> QED
    <3> HIDE DEF Certs!CertificateConstants
    <3>1. Certs!TypeOK'
      <4>1. /\ ca_key' \in Certs!Keys \cup {None, Torn}
            /\ server_key' \in Certs!Keys \cup {None, Torn}
            /\ ca_cert' \in Certs!CaCerts \cup {None, Torn}
            /\ server_cert' \in Certs!ServerCerts \cup {None, Torn}
        BY <1>7 DEF Certs!Stop, Certs!Left
      <4> QED
        BY <1>7, <4>1 DEF Certs!Stop
    <3>2. Fits' \/ OldCertDead'
      BY <1>7, <2>1, <2>2, SMT DEF Certs!Stop, Certs!Left
    <3> QED
      BY <1>7, <2>1, <3>1, <3>2 DEF Certs!Stop
<1>8. CASE Certs!Rename
  BY <1>8, SMT DEF Certs!Rename
<1>9. CASE Certs!RemoveCert
  BY <1>9, SMT DEF Certs!RemoveCert
<1>10. CASE Certs!Expire
  <2>1. /\ ca_cert \in Certs!CaCerts /\ ca_cert' \in Certs!CaCerts /\ ca_cert'.key = ca_cert.key
        /\ ca_cert' \notin {None, Torn}
    <3>1. ca_cert \in Certs!CaCerts /\ ca_cert' = [ca_cert EXCEPT !.valid = FALSE]
      BY <1>10, FileTypes DEF Certs!Expire
    <3> QED
      BY <3>1, Expired
  <2>2. CASE UNCHANGED server_cert
    <3> HIDE DEF Certs!CertificateConstants
    <3> QED
      BY <1>10, <2>1, <2>2, SMT DEF Certs!Expire
  <2>3. CASE Certs!Readable(server_cert) /\ server_cert' = [server_cert EXCEPT !.valid = FALSE]
    <3>1. server_cert \in Certs!ServerCerts
      BY <2>3, FileTypes
    <3>2. /\ server_cert' \in Certs!ServerCerts /\ ~server_cert'.valid
          /\ server_cert'.name = server_cert.name
          /\ server_cert'.key = server_cert.key /\ server_cert'.ca = server_cert.ca
      BY <2>3, <3>1, Expired
    <3> QED
      BY <1>10, <2>1, <3>2, SMT DEF Certs!Expire
  <2> QED
    BY <1>10, <2>2, <2>3 DEF Certs!Expire
<1>11. CASE Certs!ReadName
  BY <1>11, FileTypes, SMT DEF Certs!ReadName, Certs!ServerCerts
<1>12. CASE UNCHANGED Certs!vars
  BY <1>12, SMT DEF Certs!vars
<1> QED
  BY <1>1, <1>2, <1>3, <1>4, <1>5, <1>6, <1>7, <1>8, <1>9, <1>10, <1>11, <1>12
  DEF Certs!Next, Certs!InitSmbd

\* The invariant holds in every reachable state.
LEMMA CertInvAlways ==
  ASSUME Certs!CertificateConstants
  PROVE  Certs!Spec => []CertInv
<1>1. Certs!Init => CertInv
  BY CertInvInit
<1>2. CertInv /\ [Certs!Next]_(Certs!vars) => CertInv'
  BY CertInvNext
<1> QED
  BY <1>1, <1>2, PTL DEF Certs!Spec

\* Types: a key is one that was generated, a certificate certifies such keys.
LEMMA CertTypes ==
  ASSUME Certs!CertificateConstants
  PROVE  Certs!Spec => []Certs!TypeOK
<1>1. CertInv => Certs!TypeOK
  BY DEF CertInv
<1> QED
  BY <1>1, CertInvAlways, PTL

\* However often init-smbd is cut short between or within its calls, what it
\* hands smbd is a certificate of the key beside it, the CA's and the host's name.
LEMMA CertServesAlone ==
  ASSUME Certs!CertificateConstants
  PROVE  Certs!Spec => []Certs!CertServes
<1>1. CertInv => Certs!CertServes
  <2> SUFFICES ASSUME CertInv, step = "done" PROVE Certs!CertServes
    BY DEF Certs!CertServes
  <2>1. Fits /\ server_cert.valid /\ server_cert.name = name
    BY DEF CertInv, InitSmbdStage
  <2>2. server_cert \in Certs!ServerCerts
    BY <2>1, FileTypes DEF CertInv, Fits
  <2>3. server_cert = Certs!ServerCert(server_key, ca_cert.key, name)
    BY <2>1, <2>2, SMT DEF Fits, Certs!ServerCerts, Certs!ServerCert
  <2> QED
    BY <2>1, <2>3 DEF Certs!CertServes, Fits
<1> QED
  BY <1>1, CertInvAlways, PTL

-----------------------------------------------------------------------------
\* In the add-on as a whole, where a failure of init-smbd cuts a reset short too,
\* what the owner asked to have removed is gone when srat starts.
THEOREM RemovedAsAskedAlways == Spec => []RemovedAsAsked
<1>1. OptionProofs!Spec => []OptionProofs!RemovedAsAsked
  BY ConstantsOK, OptionProofs!RemovedAsAskedAlways
<1>2. OptionProofs!RemovedAsAsked => RemovedAsAsked
  BY DEF RemovedAsAsked, Options!RemovedAsAsked, Options!SU, OptionProofs!RemovedAsAsked,
         OptionProofs!SU
<1> QED
  BY <1>1, <1>2, ImplementsFactoryReset, SameFactoryReset, PTL

\* ... and where a failing reset cuts a renewal short, smbd gets a certificate that
\* fits its key, its CA and its name.
THEOREM CertServesAlways == Spec => []CertServes
<1>1. Certs!Spec => []Certs!CertServes
  BY ConstantsOK, CertServesAlone
<1>2. Certs!CertServes => CertServes
  BY DEF CertServes
<1> QED
  BY <1>1, <1>2, ImplementsCertificates, PTL

\* ... and a reset that posts after clean-config still resets itself for good, though
\* a failure of init-smbd may cut it short.
THEOREM ResetsItselfAloneAlways == Spec => []ResetsItselfAlone
<1>1. OptionProofs!Spec => []OptionProofs!ResetsItselfAlone
  BY ConstantsOK, OptionProofs!ResetsItselfAloneAlways
<1>2. OptionProofs!ResetsItselfAlone => ResetsItselfAlone
  BY DEF ResetsItselfAlone, Options!ResetsItselfAlone, Options!FR,
         OptionProofs!ResetsItselfAlone, OptionProofs!FR
<1> QED
  BY <1>1, <1>2, ImplementsFactoryReset, SameFactoryReset, PTL

\* The ranges of both parts.
THEOREM TypeCorrect == Spec => []TypeOK
<1>1. OptionProofs!Spec => []OptionProofs!TypeOK
  BY ConstantsOK, OptionProofs!TypeCorrect
<1>2. Certs!Spec => []Certs!TypeOK
  BY ConstantsOK, CertTypes
<1>3. OptionProofs!TypeOK => Options!TypeOK
  BY DEF
      Options!TypeOK, Options!Options, Options!OldKeys, Options!Entries,
      Options!DataDir, Options!ConfigDir, Options!Versions, Options!Services,
      Options!CC, Options!FR, Options!SU, Options!Places, OptionProofs!TypeOK,
      OptionProofs!Options, OptionProofs!OldKeys, OptionProofs!Entries,
      OptionProofs!DataDir, OptionProofs!ConfigDir, OptionProofs!Versions,
      OptionProofs!Services, OptionProofs!CC, OptionProofs!FR, OptionProofs!SU,
      OptionProofs!Places
<1>4.  Options!TypeOK /\ Certs!TypeOK => TypeOK
  BY DEF TypeOK
<1> QED
  BY <1>1, <1>2, <1>3, <1>4, ImplementsFactoryReset, ImplementsCertificates,
     SameFactoryReset, PTL
=============================================================================
