-------------------------- MODULE SetupWizardProofs --------------------------
(***************************************************************************)
(* Theorems about SetupWizard, for any files, names of files and number of *)
(* private keys.                                                           *)
(***************************************************************************)
EXTENDS SetupWizard, TLAPS

\* What a page was left for stays true on the pages that follow it.
AccountPassed ==
    page \in (Pages \ {"Intro", "Account"}) \cup {"Finished"} => AccountOk

CertificatePassed ==
    page \in {"CryptoKey", "BackedUp", "DataDir", "Finished"} =>
        CertificateOk \/ Spoilt

KeysPassed ==
    page \in {"BackedUp", "DataDir", "Finished"} => KeysOk(files)

DirectoryPassed ==
    page = "Finished" =>
        /\ config.DataDirectory \in PrivateDirs
        /\ config.CommandSocket = config.DataDirectory
        /\ config.PidFile = config.DataDirectory

\* a name that the user gave is never taken for one that was filled in
TypedIsDirty == typed \subseteq dirty

IndInv ==
    /\ TypeOK
    /\ AccountPassed
    /\ CertificatePassed
    /\ KeysPassed
    /\ DirectoryPassed
    /\ TypedIsDirty

-----------------------------------------------------------------------------
(* Settings.                                                               *)

\* The values of each setting.
LEMMA ValuesOfSettings ==
    /\ Values("StoreHostname") = Hosts \cup {Unset}
    /\ Values("AccountNumber") = Accounts \cup {Unset}
    /\ \A s \in FileSettings : Values(s) = Files \cup {Unset}
    /\ \A s \in DirSettings : Values(s) = Dirs \cup {Unset}
BY DEF Values, FileSettings, MadeSettings, DirSettings

\* A configuration has a value of the right kind for every setting.
LEMMA ConfigValues ==
    ASSUME NEW c \in Config
    PROVE  /\ DOMAIN c = Settings
           /\ \A s \in Settings : c[s] \in Values(s)
BY DEF Config

\* Whatever has such values is a configuration.
LEMMA ValuesConfig ==
    ASSUME NEW c, c = [s \in Settings |-> c[s]],
           \A s \in Settings : c[s] \in Values(s)
    PROVE  c \in Config
<1>1. \A s \in Settings : c[s] \in UNION {Values(t) : t \in Settings}
  OBVIOUS
<1>2. c \in [Settings -> UNION {Values(t) : t \in Settings}]
  BY <1>1
<1> QED BY <1>2 DEF Config

\* Changing one setting to a value of its own leaves a configuration.
LEMMA ChangeOne ==
    ASSUME NEW c \in Config, NEW t \in Settings, NEW v \in Values(t)
    PROVE  [c EXCEPT ![t] = v] \in Config
<1> DEFINE d == [c EXCEPT ![t] = v]
<1>1. /\ d = [s \in Settings |-> d[s]]
      /\ \A s \in Settings : d[s] = IF s = t THEN v ELSE c[s]
  BY DEF Config
<1>2. \A s \in Settings : d[s] \in Values(s)
  BY <1>1, ConfigValues
<1> HIDE DEF d
<1>3. d \in Config
  BY <1>1, <1>2, ValuesConfig
<1> QED BY <1>3 DEF d

\* Each setting is typed on one page.
LEMMA WherePages ==
    /\ DOMAIN PageOf = Settings \ {"CommandSocket", "PidFile"}
    /\ \A s \in DOMAIN PageOf :
        /\ PageOf[s] = "Account" => s \in {"StoreHostname", "AccountNumber"}
        /\ PageOf[s] = "CryptoKey" => s = "KeysFile"
        /\ PageOf[s] = "DataDir" => s = "DataDirectory"
        /\ s = "StoreHostname" => PageOf[s] = "Account"
        /\ s = "AccountNumber" => PageOf[s] = "Account"
        /\ PageOf[s] \notin {"BackedUp", "Finished", "Intro"}
BY DEF PageOf, Settings, FileSettings, MadeSettings, DirSettings

-----------------------------------------------------------------------------
(* What actions share.                                                     *)

\* Making a private key takes nothing from what files can hold.
LEMMA MoreContent ==
    ASSUME NEW n \in Nat
    PROVE  /\ Content(n) \subseteq Content(n + 1)
           /\ PrivateKey(n + 1) \in Content(n + 1)
<1>1. 1 .. n \subseteq 1 .. (n + 1) /\ n + 1 \in 1 .. (n + 1)
  OBVIOUS
<1> QED BY <1>1 DEF Content, Labelled

\* A page is shown: at most two names are filled in, each on a page of its own.
LEMMA ShowPageStep ==
    ASSUME NEW p \in Pages, NEW c \in Config, NEW d \in SUBSET MadeSettings,
           ShowPage(p, c, d), requestKey \in Files \cup {Unset},
           typed \subseteq d
    PROVE  /\ page' = p
           /\ config' \in Config
           /\ requestKey' \in Files \cup {Unset}
           /\ dirty' \in SUBSET MadeSettings
           /\ typed' \subseteq dirty'
           /\ p \notin {"CertRequest", "CryptoKey"} => config' = c
           /\ \A s \in Settings \ {"CertRequestFile", "KeysFile"} : config'[s] = c[s]
           /\ p # "CertRequest" => config'["CertRequestFile"] = c["CertRequestFile"]
           /\ p # "CryptoKey" => config'["KeysFile"] = c["KeysFile"]
           /\ \A s \in Settings : config'[s] = c[s] \/ c[s] = Unset
<1> DEFINE key     == c.PrivateKeyFile
           request == p = "CertRequest" /\ c.CertRequestFile = Unset /\ key # Unset
           keys    == p = "CryptoKey" /\ c.KeysFile = Unset /\ key # Unset
           rname   == IF request THEN RequestName[key] ELSE c.CertRequestFile
           kname   == IF keys THEN KeysName[key] ELSE c.KeysFile
           e       == [c EXCEPT !["CertRequestFile"] = rname]
<1>1. /\ {"PrivateKeyFile", "CertRequestFile", "KeysFile"} \subseteq FileSettings
      /\ FileSettings \subseteq Settings
  BY DEF Settings, FileSettings, MadeSettings
<1>2. key \in Files \cup {Unset} /\ c.CertRequestFile \in Files \cup {Unset}
        /\ c.KeysFile \in Files \cup {Unset}
  BY <1>1, ConfigValues, ValuesOfSettings
<1>3. rname \in Values("CertRequestFile") /\ kname \in Values("KeysFile")
  BY <1>1, <1>2, SetupAssumption, ValuesOfSettings DEF SetupAssumption
<1>4. e \in Config
  BY <1>1, <1>3, ChangeOne
<1>5. [e EXCEPT !["KeysFile"] = kname] \in Config
  BY <1>1, <1>3, <1>4, ChangeOne
<1>6. /\ page' = p
      /\ config' = [e EXCEPT !["KeysFile"] = kname]
      /\ requestKey' = IF request THEN key ELSE requestKey
      /\ dirty' \in SUBSET d
      /\ typed' \subseteq dirty'
  BY DEF ShowPage
<1>7. DOMAIN c = Settings /\ DOMAIN e = Settings
  BY <1>4, ConfigValues
<1>8. \A s \in Settings :
        config'[s] = IF s = "KeysFile" THEN kname
                     ELSE IF s = "CertRequestFile" THEN rname ELSE c[s]
  BY <1>6, <1>7
<1>9. p \notin {"CertRequest", "CryptoKey"} => config' = c
  <2> SUFFICES ASSUME p \notin {"CertRequest", "CryptoKey"} PROVE config' = c
    OBVIOUS
  <2>1. rname = c["CertRequestFile"] /\ kname = c["KeysFile"]
    OBVIOUS
  <2>2. c = [s \in Settings |-> c[s]]
    BY DEF Config
  <2> QED BY <1>6, <2>1, <2>2
<1>10. requestKey' \in Files \cup {Unset}
  BY <1>2, <1>6
<1> HIDE DEF key, request, keys, e
<1>11. p # "CertRequest" => rname = c["CertRequestFile"]
  BY DEF request
<1>12. p # "CryptoKey" => kname = c["KeysFile"]
  BY DEF keys
<1>13. /\ rname = c["CertRequestFile"] \/ c["CertRequestFile"] = Unset
       /\ kname = c["KeysFile"] \/ c["KeysFile"] = Unset
  BY DEF request, keys
<1> HIDE DEF rname, kname
<1> QED BY <1>1, <1>5, <1>6, <1>8, <1>9, <1>10, <1>11, <1>12, <1>13

\* The checks of the certificate look at no setting of the later pages.
LEMMA CertificateStays ==
    ASSUME TypeOK, CertificateOk \/ Spoilt,
           UNCHANGED <<files, made, spoilt>>,
           \A s \in Settings \ ({"KeysFile"} \cup DirSettings) : config'[s] = config[s]
    PROVE  (CertificateOk \/ Spoilt)'
<1>1. /\ config'.PrivateKeyFile = config.PrivateKeyFile
      /\ config'.CertificateFile = config.CertificateFile
      /\ config'.TrustedCAsFile = config.TrustedCAsFile
      /\ config'.AccountNumber = config.AccountNumber
      /\ \A s \in FileSettings \ {"KeysFile"} : config'[s] = config[s]
  BY DEF Settings, FileSettings, MadeSettings, DirSettings
<1>2. CASE Spoilt
  BY <1>1, <1>2 DEF Spoilt
<1>3. CASE CertificateOk
  BY <1>1, <1>3 DEF CertificateOk, Holds
<1> QED BY <1>2, <1>3

\* What every way from one page to the next keeps.
LEMMA GoToStep ==
    ASSUME IndInv, NEW p \in Pages, GoTo(p), p \in {"Intro", "Account"} \/ AccountOk,
           made' \in Nat, files' \in [Files -> Content(made')],
           ticked' \in BOOLEAN, spoilt' \in SUBSET Files, asked' \in BOOLEAN
    PROVE  /\ TypeOK'
           /\ AccountPassed'
           /\ DirectoryPassed'
           /\ TypedIsDirty'
           /\ page' = p
           /\ p # "CryptoKey" => config'.KeysFile = config.KeysFile
           /\ \A s \in Settings \ {"CertRequestFile", "KeysFile"} : config'[s] = config[s]
           /\ p # "CertRequest" => \A s \in Settings \ {"KeysFile"} : config'[s] = config[s]
<1>1. /\ ShowPage(p, config, dirty)
      /\ config \in Config
      /\ dirty \in SUBSET MadeSettings
      /\ requestKey \in Files \cup {Unset}
      /\ typed \subseteq dirty
  BY DEF IndInv, TypeOK, TypedIsDirty, GoTo
<1>2. /\ page' = p
      /\ config' \in Config
      /\ requestKey' \in Files \cup {Unset}
      /\ dirty' \in SUBSET MadeSettings
      /\ typed' \subseteq dirty'
      /\ \A s \in Settings \ {"CertRequestFile", "KeysFile"} : config'[s] = config[s]
      /\ p # "CertRequest" => config'["CertRequestFile"] = config["CertRequestFile"]
      /\ p # "CryptoKey" => config'["KeysFile"] = config["KeysFile"]
  BY <1>1, ShowPageStep
<1>3. TypeOK'
  BY <1>2 DEF TypeOK
<1>4. AccountPassed'
  <2>1. {"StoreHostname", "AccountNumber"} \subseteq
            Settings \ {"CertRequestFile", "KeysFile"}
    BY DEF Settings, FileSettings, MadeSettings, DirSettings
  <2> QED BY <1>2, <2>1 DEF AccountPassed, AccountOk, Pages
<1>5. DirectoryPassed'
  BY <1>2 DEF DirectoryPassed, Pages
<1>6. TypedIsDirty'
  BY <1>2 DEF TypedIsDirty
<1> QED BY <1>2, <1>3, <1>4, <1>5, <1>6

-----------------------------------------------------------------------------
(* The initial states and the steps.                                       *)

LEMMA InitIndInv == Init => IndInv
<1> SUFFICES ASSUME Init PROVE IndInv
  OBVIOUS
<1>1. TypeOK
  <2>1. FirstKeys \in Nat
    BY SetupAssumption DEF SetupAssumption
  <2> QED BY <2>1, SetupAssumption DEF Init, TypeOK, SetupAssumption, Pages
<1>2. AccountPassed /\ CertificatePassed /\ KeysPassed /\ DirectoryPassed /\ TypedIsDirty
  BY DEF Init, AccountPassed, CertificatePassed, KeysPassed, DirectoryPassed,
         TypedIsDirty
<1> QED BY <1>1, <1>2 DEF IndInv

\* A setting is typed on its own page only, where nothing depends on it yet.
LEMMA TypeStep ==
    ASSUME IndInv, NEW s \in DOMAIN Typed, NEW v \in Typed[s], Type(s, v)
    PROVE  IndInv'
<1>1. s \in DOMAIN PageOf /\ s \in Settings /\ v \in Values(s)
  BY SetupAssumption, WherePages DEF SetupAssumption
<1>2. /\ page = PageOf[s]
      /\ config' = [config EXCEPT ![s] = v]
      /\ dirty' = dirty \cup ({s} \cap MadeSettings)
      /\ typed' = typed \cup ({s} \cap MadeSettings)
      /\ UNCHANGED <<page, files, made, requestKey, ticked, spoilt, asked>>
  BY DEF Type
<1>3. config' \in Config
  BY <1>1, <1>2, ChangeOne DEF IndInv, TypeOK
<1>4. \A t \in Settings \ {s} : config'[t] = config[t]
  BY <1>2, ConfigValues DEF IndInv, TypeOK
<1>5. TypeOK'
  BY <1>2, <1>3 DEF IndInv, TypeOK
<1>6. AccountPassed'
  <2>1. {"StoreHostname", "AccountNumber"} \subseteq Settings
    BY DEF Settings
  <2>2. CASE s \in {"StoreHostname", "AccountNumber"}
    <3>1. page' = "Account"
      BY <1>1, <1>2, <2>2, WherePages
    <3> QED BY <3>1 DEF AccountPassed, Pages
  <2>3. CASE s \notin {"StoreHostname", "AccountNumber"}
    BY <1>2, <1>4, <2>1, <2>3 DEF IndInv, AccountPassed, AccountOk
  <2> QED BY <2>2, <2>3
<1>7. CertificatePassed'
  <2> SUFFICES ASSUME page \in {"CryptoKey", "BackedUp", "DataDir", "Finished"}
               PROVE  (CertificateOk \/ Spoilt)'
    BY <1>2 DEF CertificatePassed
  <2>1. s \in {"KeysFile"} \cup DirSettings
    BY <1>1, <1>2, WherePages DEF DirSettings
  <2> QED BY <1>2, <1>4, <2>1, CertificateStays DEF IndInv, CertificatePassed
<1>8. KeysPassed'
  <2> SUFFICES ASSUME page \in {"BackedUp", "DataDir", "Finished"}
               PROVE  KeysOk(files)'
    BY <1>2 DEF KeysPassed
  <2>1. s = "DataDirectory" /\ "KeysFile" \in Settings
    BY <1>1, <1>2, WherePages DEF Settings, FileSettings, MadeSettings
  <2> QED BY <1>2, <1>4, <2>1 DEF IndInv, KeysPassed, KeysOk, Holds
<1>9. DirectoryPassed'
  BY <1>1, <1>2, WherePages DEF DirectoryPassed
<1>10. TypedIsDirty'
  BY <1>2 DEF IndInv, TypedIsDirty
<1> QED BY <1>5, <1>6, <1>7, <1>8, <1>9, <1>10 DEF IndInv

\* Back: a page that comes before needs no more than the one that is left.
LEMMA BackStep == ASSUME IndInv, Back PROVE IndInv'
<1> DEFINE left == {s \in MadeSettings : PageOf[s] = page} \ dirty
           c    == [s \in DOMAIN config |-> IF s \in left THEN Unset ELSE config[s]]
<1>1. /\ page \in DOMAIN Prev
      /\ ShowPage(Prev[page], c, dirty)
      /\ UNCHANGED <<files, made, ticked, spoilt, asked>>
  BY DEF Back
<1>2. /\ config \in Config /\ DOMAIN config = Settings
      /\ \A s \in Settings : config[s] \in Values(s)
  BY ConfigValues DEF IndInv, TypeOK
<1>3. c \in Config
  <2>1. c = [s \in Settings |-> c[s]] /\ \A s \in Settings : c[s] \in Values(s)
    BY <1>2 DEF Values
  <2> HIDE DEF c
  <2> QED BY <2>1, ValuesConfig
<1>4. \A s \in Settings \ left : c[s] = config[s]
  BY <1>2
<1>5. left \in SUBSET MadeSettings
  OBVIOUS
<1>6. page = "BackedUp" \/ page = "DataDir" => left = {}
  BY DEF MadeSettings, PageOf
<1>7. page = "CryptoKey" => left \subseteq {"KeysFile"}
  BY DEF MadeSettings, PageOf
<1> HIDE DEF c, left
<1>8. Prev[page] \in Pages \ {"DataDir"}
  BY <1>1 DEF Prev, Pages
<1>9. /\ page' = Prev[page]
      /\ config' \in Config
      /\ requestKey' \in Files \cup {Unset}
      /\ dirty' \in SUBSET MadeSettings
      /\ typed' \subseteq dirty'
      /\ Prev[page] \notin {"CertRequest", "CryptoKey"} => config' = c
      /\ \A s \in Settings \ {"CertRequestFile", "KeysFile"} : config'[s] = c[s]
      /\ Prev[page] # "CertRequest" => config'["CertRequestFile"] = c["CertRequestFile"]
      /\ Prev[page] # "CryptoKey" => config'["KeysFile"] = c["KeysFile"]
  BY <1>1, <1>3, <1>8, ShowPageStep DEF IndInv, TypeOK, TypedIsDirty
<1>10. TypeOK'
  BY <1>1, <1>8, <1>9 DEF IndInv, TypeOK
<1>11. AccountPassed'
  <2>1. {"StoreHostname", "AccountNumber"} \subseteq
            (Settings \ {"CertRequestFile", "KeysFile"}) \ left
    BY <1>5 DEF Settings, FileSettings, MadeSettings, DirSettings
  <2>2. page' \in Pages \ {"Intro", "Account"} =>
            page \in Pages \ {"Intro", "Account"}
    BY <1>1, <1>9 DEF Prev, Pages
  <2>3. page' \in Pages
    BY <1>8, <1>9
  <2> QED BY <1>4, <1>9, <2>1, <2>2, <2>3
          DEF IndInv, AccountPassed, AccountOk, Pages
<1>12. CertificatePassed'
  <2> SUFFICES ASSUME page' \in {"CryptoKey", "BackedUp"}
               PROVE  (CertificateOk \/ Spoilt)'
    <3>1. page' \notin {"DataDir", "Finished"}
      BY <1>8, <1>9 DEF Pages
    <3> QED BY <3>1 DEF CertificatePassed
  <2>1. page \in {"BackedUp", "DataDir"} /\ left = {}
    BY <1>1, <1>6, <1>9 DEF Prev
  <2>2. \A s \in Settings \ {"KeysFile"} : config'[s] = config[s]
    BY <1>4, <1>9, <2>1 DEF Prev
  <2> QED BY <1>1, <2>1, <2>2, CertificateStays DEF IndInv, CertificatePassed
<1>13. KeysPassed'
  <2> SUFFICES ASSUME page' = "BackedUp" PROVE KeysOk(files)'
    BY <1>1, <1>9 DEF KeysPassed, Prev
  <2>1. page = "DataDir" /\ left = {} /\ "KeysFile" \in Settings
    BY <1>1, <1>6, <1>9 DEF Prev, Settings, FileSettings, MadeSettings
  <2>2. config'["KeysFile"] = config["KeysFile"]
    BY <1>4, <1>9, <2>1
  <2> QED BY <1>1, <2>1, <2>2 DEF IndInv, KeysPassed, KeysOk, Holds
<1>14. DirectoryPassed'
  <2>1. page' # "Finished"
    BY <1>8, <1>9 DEF Pages
  <2> QED BY <2>1 DEF DirectoryPassed
<1>15. TypedIsDirty'
  BY <1>9 DEF TypedIsDirty
<1> QED BY <1>10, <1>11, <1>12, <1>13, <1>14, <1>15 DEF IndInv

\* Next, from the pages that make no file.
LEMMA NextPageStep ==
    ASSUME IndInv,
           \/ NextIntro \/ NextAccount \/ NextCertExists \/ NextCertificate
           \/ NextBackedUp
    PROVE  IndInv'
<1>1. /\ made \in Nat /\ files \in [Files -> Content(made)] /\ ticked \in BOOLEAN
      /\ spoilt \in SUBSET Files /\ asked \in BOOLEAN
  BY DEF IndInv, TypeOK
<1>2. CASE NextIntro
  <2>1. GoTo("Account") /\ UNCHANGED <<files, made, ticked, spoilt, asked>>
    BY <1>2 DEF NextIntro
  <2> QED BY <1>1, <2>1, GoToStep DEF IndInv, CertificatePassed, KeysPassed, Pages
<1>3. CASE NextAccount
  <2>1. AccountOk /\ GoTo("PrivateKey") /\ UNCHANGED <<files, made, ticked, spoilt, asked>>
    BY <1>3 DEF NextAccount
  <2> QED BY <1>1, <2>1, GoToStep DEF IndInv, CertificatePassed, KeysPassed, Pages
<1>4. CASE NextCertExists
  <2>1. PICK p \in {"CertRequest", "Certificate"} : GoTo(p)
    BY <1>4 DEF NextCertExists
  <2>2. page = "CertExists" /\ asked' = FALSE /\ UNCHANGED <<files, made, ticked, spoilt>>
    BY <1>4 DEF NextCertExists
  <2>3. AccountOk
    BY <2>2 DEF IndInv, AccountPassed, Pages
  <2>4. p \in Pages
    BY DEF Pages
  <2> QED BY <1>1, <2>1, <2>2, <2>3, <2>4, GoToStep
          DEF IndInv, CertificatePassed, KeysPassed
<1>5. CASE NextCertificate
  <2>1. /\ page = "Certificate" /\ CertificateOk
        /\ GoTo("CryptoKey") /\ spoilt' = {}
        /\ UNCHANGED <<files, made, ticked, asked>>
    BY <1>5 DEF NextCertificate
  <2>2. AccountOk
    BY <2>1 DEF IndInv, AccountPassed, Pages
  <2>3. /\ TypeOK' /\ AccountPassed' /\ DirectoryPassed' /\ TypedIsDirty'
        /\ page' = "CryptoKey"
        /\ \A s \in Settings \ {"KeysFile"} : config'[s] = config[s]
    BY <1>1, <2>1, <2>2, GoToStep DEF Pages
  <2>4. {"PrivateKeyFile", "CertificateFile", "TrustedCAsFile", "AccountNumber"}
            \subseteq Settings \ {"KeysFile"}
    BY DEF Settings, FileSettings, MadeSettings
  <2>5. CertificateOk'
    BY <2>1, <2>3, <2>4 DEF CertificateOk, Holds
  <2> QED BY <2>3, <2>5 DEF IndInv, CertificatePassed, KeysPassed
<1>6. CASE NextBackedUp
  <2>1. page = "BackedUp" /\ GoTo("DataDir") /\ UNCHANGED <<files, made, ticked, spoilt, asked>>
    BY <1>6 DEF NextBackedUp
  <2>2. AccountOk
    BY <2>1 DEF IndInv, AccountPassed, Pages
  <2>3. /\ TypeOK' /\ AccountPassed' /\ DirectoryPassed' /\ TypedIsDirty'
        /\ page' = "DataDir"
        /\ config'.KeysFile = config.KeysFile
        /\ \A s \in Settings \ {"KeysFile"} : config'[s] = config[s]
    BY <1>1, <2>1, <2>2, GoToStep DEF Pages
  <2>4. (CertificateOk \/ Spoilt)'
    BY <2>1, <2>3, CertificateStays DEF IndInv, CertificatePassed
  <2>5. KeysOk(files)'
    BY <2>1, <2>3 DEF IndInv, KeysPassed, KeysOk, Holds
  <2> QED BY <2>3, <2>4, <2>5 DEF IndInv, CertificatePassed, KeysPassed
<1> QED BY <1>2, <1>3, <1>4, <1>5, <1>6

\* Next, from the pages of a key or a request.
LEMMA MadePageStep ==
    ASSUME IndInv, ExistingKey \/ NewKey \/ ExistingRequest \/ NewRequest
    PROVE  IndInv'
<1>1. /\ made \in Nat /\ files \in [Files -> Content(made)] /\ ticked \in BOOLEAN
      /\ spoilt \in SUBSET Files /\ asked \in BOOLEAN /\ config \in Config
      /\ requestKey \in Files \cup {Unset}
  BY DEF IndInv, TypeOK
<1>2. page \in {"PrivateKey", "CertRequest"}
  BY DEF ExistingKey, NewKey, ExistingRequest, NewRequest
<1>3. AccountOk
  BY <1>2 DEF IndInv, AccountPassed, Pages
<1>4. ASSUME NEW p \in {"CertExists", "Certificate"}, GoTo(p),
             made' \in Nat, files' \in [Files -> Content(made')],
             ticked' \in BOOLEAN, spoilt' \in SUBSET Files, asked' \in BOOLEAN
      PROVE  IndInv'
  <2>1. p \in Pages
    BY DEF Pages
  <2> QED BY <1>3, <1>4, <2>1, GoToStep DEF IndInv, CertificatePassed, KeysPassed
<1>5. CASE ExistingKey
  <2>1. GoTo("CertExists") /\ UNCHANGED <<files, made, ticked, spoilt, asked>>
    BY <1>5 DEF ExistingKey
  <2> QED BY <1>1, <1>4, <2>1
<1>6. CASE NewKey
  <2>1. /\ made' = made + 1
        /\ files' = [files EXCEPT ![config["PrivateKeyFile"]] = PrivateKey(made + 1)]
        /\ GoTo("CertExists") /\ UNCHANGED <<ticked, spoilt, asked>>
    BY <1>6 DEF NewKey, Overwrite
  <2>2. files' \in [Files -> Content(made')]
    BY <1>1, <2>1, MoreContent
  <2> QED BY <1>1, <1>4, <2>1, <2>2
<1>7. CASE ExistingRequest
  <2>1. GoTo("Certificate") /\ asked' = TRUE /\ UNCHANGED <<files, made, ticked, spoilt>>
    BY <1>7 DEF ExistingRequest
  <2> QED BY <1>1, <1>4, <2>1
<1>8. CASE NewRequest
  <2>1. PICK k \in 1 .. made :
            files' = [files EXCEPT ![config["CertRequestFile"]] =
                         Request(k, config.AccountNumber)]
    BY <1>8 DEF NewRequest, Overwrite
  <2>2. Request(k, config.AccountNumber) \in Content(made)
    <3>1. config.AccountNumber \in Accounts
      <4>1. "AccountNumber" \in Settings
        BY DEF Settings
      <4> QED BY <1>1, <1>3, <4>1, ConfigValues, ValuesOfSettings DEF AccountOk
    <3> QED BY <3>1 DEF Content, Labelled
  <2>3. files' \in [Files -> Content(made)] /\ UNCHANGED <<made, ticked, spoilt>>
    BY <1>1, <1>8, <2>1, <2>2 DEF NewRequest
  <2>4. CASE GoTo("Certificate") /\ asked' = TRUE
    BY <1>1, <1>4, <2>3, <2>4
  <2>5. CASE UNCHANGED <<page, config, dirty, requestKey, typed, asked>>
    <3>1. page' \in {"PrivateKey", "CertRequest"} /\ config' = config
      BY <1>2, <2>5
    <3>2. TypeOK'
      BY <2>3, <2>5 DEF IndInv, TypeOK
    <3>3. AccountPassed'
      BY <1>3, <3>1 DEF AccountPassed, AccountOk
    <3>4. CertificatePassed' /\ KeysPassed' /\ DirectoryPassed'
      BY <3>1 DEF CertificatePassed, KeysPassed, DirectoryPassed
    <3>5. TypedIsDirty'
      BY <2>5 DEF IndInv, TypedIsDirty
    <3> QED BY <3>2, <3>3, <3>4, <3>5 DEF IndInv
  <2> QED BY <1>8, <2>4, <2>5 DEF NewRequest
<1> QED BY <1>5, <1>6, <1>7, <1>8

\* The encryption key, or what there is of it, is written to its file: the
\* certificate is as good as it was, or a file that it needs is spoilt.
LEMMA SpoiltOrKept ==
    ASSUME TypeOK, CertificateOk \/ Spoilt, NEW content,
           files' = [files EXCEPT ![config["KeysFile"]] = content],
           spoilt' = spoilt \cup {config.KeysFile}, made' = made,
           \A s \in Settings \ {"KeysFile"} : config'[s] = config[s]
    PROVE  (CertificateOk \/ Spoilt)'
<1> DEFINE checked == {"PrivateKeyFile", "CertificateFile", "TrustedCAsFile"}
<1>1. /\ checked \cup {"AccountNumber"} \subseteq Settings \ {"KeysFile"}
      /\ checked \subseteq FileSettings \ {"KeysFile"}
      /\ FileSettings \subseteq Settings
  BY DEF Settings, FileSettings, MadeSettings, DirSettings
<1>2. CASE Spoilt
  BY <1>1, <1>2 DEF Spoilt
<1>3. CASE \E s \in checked : config[s] = config.KeysFile
  BY <1>1, <1>3 DEF Spoilt
<1>4. CASE CertificateOk /\ \A s \in checked : config[s] # config.KeysFile
  <2>1. \A s \in checked : \A c : Holds(files, s, c) => Holds(files, s, c)'
    BY <1>1, <1>4 DEF Holds, TypeOK
  <2>2. config'.AccountNumber = config.AccountNumber
    BY <1>1
  <2> QED BY <1>4, <2>1, <2>2 DEF CertificateOk
<1> QED BY <1>2, <1>3, <1>4

\* Next, from the page of the encryption key.  A new one is written over a file
\* that a check was made of, or not.
LEMMA EncKeyStep ==
    ASSUME IndInv, ExistingEncKey \/ NewEncKey
    PROVE  IndInv'
<1>1. /\ made \in Nat /\ files \in [Files -> Content(made)] /\ ticked \in BOOLEAN
      /\ spoilt \in SUBSET Files /\ asked \in BOOLEAN
  BY DEF IndInv, TypeOK
<1>2. page = "CryptoKey" /\ GoTo("BackedUp") /\ UNCHANGED <<made, ticked, asked>>
  BY DEF ExistingEncKey, NewEncKey
<1>3. AccountOk /\ (CertificateOk \/ Spoilt)
  BY <1>2 DEF IndInv, AccountPassed, CertificatePassed, Pages
<1>4. /\ KeysOk(files')
      /\ files' \in [Files -> Content(made')]
      /\ spoilt' \in SUBSET Files
  <2>1. CASE ExistingEncKey
    BY <1>1, <2>1 DEF ExistingEncKey
  <2>2. CASE NewEncKey
    <3>1. EncKey \in Content(made)
      BY DEF Content
    <3> QED BY <1>1, <1>2, <2>2, <3>1 DEF NewEncKey, Overwrite
  <2> QED BY <2>1, <2>2
<1>5. /\ TypeOK' /\ AccountPassed' /\ DirectoryPassed' /\ TypedIsDirty'
      /\ page' = "BackedUp"
      /\ config'.KeysFile = config.KeysFile
      /\ \A s \in Settings \ {"KeysFile"} : config'[s] = config[s]
  BY <1>1, <1>2, <1>3, <1>4, GoToStep DEF Pages
<1>6. KeysPassed'
  BY <1>4, <1>5 DEF KeysPassed, KeysOk, Holds
<1>7. CertificatePassed'
  <2>1. CASE ExistingEncKey
    <3>1. UNCHANGED <<files, made, spoilt>>
      BY <2>1 DEF ExistingEncKey
    <3> QED BY <1>3, <1>5, <3>1, CertificateStays DEF IndInv, CertificatePassed
  <2>2. CASE NewEncKey
    <3>1. /\ files' = [files EXCEPT ![config["KeysFile"]] = EncKey]
          /\ spoilt' = spoilt \cup {config.KeysFile}
      BY <2>2 DEF NewEncKey, Overwrite
    <3> QED BY <1>2, <1>3, <1>5, <3>1, SpoiltOrKept DEF IndInv, CertificatePassed
  <2> QED BY <2>1, <2>2
<1> QED BY <1>5, <1>6, <1>7 DEF IndInv

\* The box, the last page, the ways out and back in.
LEMMA EndStep ==
    ASSUME IndInv,
           \/ \E yes \in BOOLEAN : Tick(yes)
           \/ Finish \/ Cancel \/ Restart \/ ExistingKeyAborts
    PROVE  IndInv'
<1>1. CASE \E yes \in BOOLEAN : Tick(yes)
  <2>1. /\ ticked' \in BOOLEAN
        /\ UNCHANGED <<page, config, files, made, dirty, requestKey, history>>
    BY <1>1 DEF Tick
  <2>2. UNCHANGED <<AccountPassed, CertificatePassed, KeysPassed, DirectoryPassed>>
    BY <2>1 DEF AccountPassed, AccountOk, CertificatePassed, CertificateOk, Spoilt,
                KeysPassed, KeysOk, Holds, DirectoryPassed, history
  <2> QED BY <2>1, <2>2 DEF IndInv, TypeOK, TypedIsDirty, history
<1>2. CASE Finish
  <2> DEFINE d  == config["DataDirectory"]
             c1 == [config EXCEPT !["CommandSocket"] = d]
  <2>1. /\ page = "DataDir" /\ d \in PrivateDirs /\ page' = "Finished"
        /\ config' = [c1 EXCEPT !["PidFile"] = d]
        /\ UNCHANGED <<files, made, dirty, requestKey, ticked, history>>
    BY <1>2 DEF Finish
  <2>2. /\ DirSettings \subseteq Settings
        /\ {"StoreHostname", "AccountNumber", "KeysFile"} \subseteq Settings \ DirSettings
    BY DEF DirSettings, Settings, FileSettings, MadeSettings
  <2>3. d \in Values("CommandSocket") /\ d \in Values("PidFile")
    BY <2>1, SetupAssumption, ValuesOfSettings DEF SetupAssumption, DirSettings
  <2>4. c1 \in Config
    BY <2>2, <2>3, ChangeOne DEF IndInv, TypeOK, DirSettings
  <2>5. config' \in Config
    BY <2>1, <2>2, <2>3, <2>4, ChangeOne DEF DirSettings
  <2>6. /\ \A s \in Settings \ DirSettings : config'[s] = config[s]
        /\ config'["DataDirectory"] = d
        /\ config'["CommandSocket"] = d
        /\ config'["PidFile"] = d
    BY <2>1, <2>2, <2>4, ConfigValues DEF IndInv, TypeOK, DirSettings
  <2>7. TypeOK'
    BY <2>1, <2>5 DEF IndInv, TypeOK, history
  <2>8. AccountPassed'
    BY <2>1, <2>2, <2>6 DEF IndInv, AccountPassed, AccountOk, Pages
  <2>9. CertificatePassed'
    BY <2>1, <2>6, CertificateStays DEF IndInv, CertificatePassed, history
  <2>10. KeysPassed'
    BY <2>1, <2>2, <2>6 DEF IndInv, KeysPassed, KeysOk, Holds
  <2>11. DirectoryPassed' /\ TypedIsDirty'
    BY <2>1, <2>6 DEF IndInv, DirectoryPassed, TypedIsDirty, history
  <2> QED BY <2>7, <2>8, <2>9, <2>10, <2>11 DEF IndInv
<1>3. CASE Cancel \/ Restart \/ ExistingKeyAborts
  <2>1. page' \in {"Cancelled", "Aborted", "Intro"} /\ UNCHANGED <<config, files, made>>
    BY <1>3 DEF Cancel, Restart, ExistingKeyAborts
  <2>2. TypeOK' /\ TypedIsDirty'
    BY <1>3 DEF Cancel, Restart, ExistingKeyAborts, IndInv, TypeOK, TypedIsDirty,
                history, Pages
  <2> QED BY <2>1, <2>2 DEF IndInv, AccountPassed, CertificatePassed, KeysPassed,
                            DirectoryPassed, Pages
<1> QED BY <1>1, <1>2, <1>3

\* A file is written while its page, or that of the certificate, stays.
LEMMA WriteStep ==
    ASSUME IndInv, MakingFails \/ OperatorAnswers
    PROVE  IndInv'
<1>1. /\ page \in {"PrivateKey", "CertRequest", "Certificate", "CryptoKey"}
      /\ UNCHANGED <<page, config, made, dirty, requestKey, ticked, typed, asked>>
  <2>1. CASE MakingFails
    BY <2>1 DEF MakingFails, MadeSettings, PageOf
  <2>2. CASE OperatorAnswers
    BY <2>2 DEF OperatorAnswers, history
  <2> QED BY <2>1, <2>2
<1>2. files' \in [Files -> Content(made)] /\ spoilt' \in SUBSET Files
  <2>1. files \in [Files -> Content(made)] /\ spoilt \in SUBSET Files
    BY DEF IndInv, TypeOK
  <2>2. CASE MakingFails
    <3>1. PICK s \in MadeSettings :
              /\ config[s] \in Files
              /\ files' = [files EXCEPT ![config[s]] = Junk]
              /\ spoilt' = IF s = "KeysFile" THEN spoilt \cup {config[s]} ELSE spoilt
      BY <2>2 DEF MakingFails, Overwrite
    <3>2. Junk \in Content(made)
      BY DEF Content
    <3> QED BY <2>1, <3>1, <3>2
  <2>3. CASE OperatorAnswers
    <3>1. PICK f \in Files, k \in 1 .. made, a \in Accounts :
              files' = [files EXCEPT ![f] = Certificate(k, a)]
      BY <2>3 DEF OperatorAnswers
    <3>2. Certificate(k, a) \in Content(made)
      BY DEF Content, Labelled
    <3> QED BY <2>1, <2>3, <3>1, <3>2 DEF OperatorAnswers, history
  <2> QED BY <2>2, <2>3
<1>3. TypeOK' /\ TypedIsDirty'
  BY <1>1, <1>2 DEF IndInv, TypeOK, TypedIsDirty
<1>4. AccountPassed' /\ KeysPassed' /\ DirectoryPassed'
  BY <1>1 DEF IndInv, AccountPassed, AccountOk, KeysPassed, DirectoryPassed
<1>5. CertificatePassed'
  <2> SUFFICES ASSUME page = "CryptoKey" PROVE (CertificateOk \/ Spoilt)'
    BY <1>1 DEF CertificatePassed
  <2>1. PICK s \in MadeSettings :
            /\ page = PageOf[s]
            /\ files' = [files EXCEPT ![config[s]] = Junk]
            /\ spoilt' = IF s = "KeysFile" THEN spoilt \cup {config[s]} ELSE spoilt
    BY DEF MakingFails, OperatorAnswers, Overwrite
  <2>2. s = "KeysFile"
    BY <2>1 DEF MadeSettings, PageOf
  <2> QED BY <1>1, <2>1, <2>2, SpoiltOrKept DEF IndInv, CertificatePassed
<1> QED BY <1>3, <1>4, <1>5 DEF IndInv

LEMMA NextIndInv == IndInv /\ [Next]_vars => IndInv'
<1> SUFFICES ASSUME IndInv, [Next]_vars PROVE IndInv'
  OBVIOUS
<1>1. CASE TypeSomething
  BY <1>1, TypeStep DEF TypeSomething
<1>2. CASE (\E yes \in BOOLEAN : Tick(yes)) \/ Cancel \/ Restart \/ ExistingKeyAborts
  BY <1>2, EndStep
<1>3. CASE NextPage
  BY <1>3, NextPageStep, MadePageStep, EncKeyStep, EndStep DEF NextPage
<1>4. CASE Back
  BY <1>4, BackStep
<1>5. CASE MakingFails \/ OperatorAnswers
  BY <1>5, WriteStep
<1>6. CASE UNCHANGED vars
  <2>1. UNCHANGED <<AccountPassed, CertificatePassed, KeysPassed, DirectoryPassed>>
    BY <1>6 DEF vars, AccountPassed, AccountOk, CertificatePassed, CertificateOk,
                Spoilt, KeysPassed, KeysOk, Holds, DirectoryPassed
  <2> QED BY <1>6, <2>1 DEF IndInv, TypeOK, TypedIsDirty, vars
<1> QED BY <1>1, <1>2, <1>3, <1>4, <1>5, <1>6 DEF Next

LEMMA SpecIndInv == Spec => []IndInv
  BY InitIndInv, NextIndInv, PTL DEF Spec

-----------------------------------------------------------------------------
(* The answer to a request.                                                *)

PagesAfterRequest == {"Certificate", "CryptoKey", "BackedUp", "DataDir"}

\* On and after the page of the certificate, when the way to it was by a request:
\* a request that is still there is for the account, and for the private key
\* unless something was written over that.
AnswerAwaited ==
    asked /\ page \in PagesAfterRequest =>
        \A k \in 1 .. made, a \in Accounts :
            Holds(files, "CertRequestFile", Request(k, a)) =>
                /\ a = config.AccountNumber
                /\ \/ Holds(files, "PrivateKeyFile", PrivateKey(k))
                   \/ /\ \A j \in 1 .. made : ~ Holds(files, "PrivateKeyFile", PrivateKey(j))
                      /\ config.PrivateKeyFile \in spoilt \/ KeyOverwritten

\* no more private keys are made than the bound says
MadeInRange == made <= MaxKeys

RequestSettings == {"CertRequestFile", "PrivateKeyFile", "AccountNumber"}

\* What is written on these pages, if anything: the encryption key or what
\* there is of it, or a certificate.
FilesAfterRequest ==
    \/ UNCHANGED <<files, spoilt>>
    \/ UNCHANGED files /\ spoilt' = {} /\ CertificateOk
    \/ \E f \in Files, c \in {Junk, EncKey} :
          files' = [files EXCEPT ![f] = c] /\ spoilt' = spoilt \cup {f}
    \/ \E f \in Files, k \in 1 .. made, a \in Accounts :
          files' = [files EXCEPT ![f] = Certificate(k, a)] /\ UNCHANGED spoilt

\* The three kinds of labelled content differ from each other.
LEMMA ContentsDiffer ==
    ASSUME NEW k, NEW a, NEW j, NEW b
    PROVE  /\ Certificate(k, a) # PrivateKey(j)
           /\ Certificate(k, a) # Request(j, b)
           /\ Request(k, a) = Request(j, b) => k = j /\ a = b
           /\ PrivateKey(k) = PrivateKey(j) => k = j
<1>1. /\ Certificate(k, a).type = "certificate" /\ PrivateKey(j).type = "key"
      /\ Request(j, b).type = "request"
      /\ Request(k, a).key = k /\ Request(k, a).account = a
      /\ Request(j, b).key = j /\ Request(j, b).account = b
      /\ PrivateKey(k).key = k /\ PrivateKey(j).key = j
  BY DEF Certificate, PrivateKey, Request
<1> QED BY <1>1

\* A file of no use and an encryption key are neither a private key nor a request.
LEMMA JunkIsNoKey ==
    ASSUME MadeInRange, made \in Nat, NEW c \in {Junk, EncKey}, NEW k \in 1 .. made
    PROVE  c # PrivateKey(k) /\ \A a \in Accounts : c # Request(k, a)
<1>1. k \in 1 .. MaxKeys
  BY SetupAssumption DEF MadeInRange, SetupAssumption
<1> QED BY <1>1, SetupAssumption DEF SetupAssumption, Labelled

\* A step from one of these pages to another keeps what was awaited.
LEMMA AnswerStays ==
    ASSUME IndInv, MadeInRange, AnswerAwaited, page \in PagesAfterRequest,
           UNCHANGED <<made, asked>>, FilesAfterRequest,
           \A s \in RequestSettings : config'[s] = config[s]
    PROVE  AnswerAwaited'
<1> SUFFICES ASSUME asked, NEW k \in 1 .. made, NEW a \in Accounts,
                    Holds(files, "CertRequestFile", Request(k, a))'
             PROVE  /\ a = config.AccountNumber
                    /\ \/ Holds(files, "PrivateKeyFile", PrivateKey(k))'
                       \/ /\ \A j \in 1 .. made :
                                ~ Holds(files, "PrivateKeyFile", PrivateKey(j))'
                          /\ config.PrivateKeyFile \in spoilt' \/ KeyOverwritten'
  BY DEF AnswerAwaited, RequestSettings
<1> DEFINE r == config["CertRequestFile"]
           p == config["PrivateKeyFile"]
<1>1. config'["CertRequestFile"] = r /\ config'["PrivateKeyFile"] = p
  BY DEF RequestSettings
<1>2. r \in Files /\ files'[r] = Request(k, a)
  BY <1>1 DEF Holds
<1>3. /\ made \in Nat /\ DOMAIN files = Files
  BY DEF IndInv, TypeOK
<1>4. files[r] = Request(k, a)
  BY <1>2, <1>3, ContentsDiffer, JunkIsNoKey DEF FilesAfterRequest
<1>5. /\ a = config.AccountNumber
      /\ \/ p \in Files /\ files[p] = PrivateKey(k)
         \/ /\ \A j \in 1 .. made : ~ (p \in Files /\ files[p] = PrivateKey(j))
            /\ \/ p \in spoilt
               \/ \E j \in 1 .. made, b \in Accounts :
                      p \in Files /\ files[p] = Certificate(j, b)
  BY <1>2, <1>4 DEF AnswerAwaited, Holds, KeyOverwritten
<1>6. \/ p \in Files /\ files'[p] = PrivateKey(k)
      \/ /\ \A j \in 1 .. made : ~ (p \in Files /\ files'[p] = PrivateKey(j))
         /\ \/ p \in spoilt'
            \/ \E j \in 1 .. made, b \in Accounts :
                   p \in Files /\ files'[p] = Certificate(j, b)
  <2>1. CASE UNCHANGED <<files, spoilt>>
    BY <1>5, <2>1
  <2>2. CASE UNCHANGED files /\ spoilt' = {} /\ CertificateOk
    <3>1. \E j \in 1 .. made : p \in Files /\ files[p] = PrivateKey(j)
      BY <2>2 DEF CertificateOk, Holds
    <3> QED BY <1>5, <2>2, <3>1
  <2>3. ASSUME NEW f \in Files, NEW c \in {Junk, EncKey},
               files' = [files EXCEPT ![f] = c], spoilt' = spoilt \cup {f}
        PROVE  \/ p \in Files /\ files'[p] = PrivateKey(k)
               \/ /\ \A j \in 1 .. made : ~ (p \in Files /\ files'[p] = PrivateKey(j))
                  /\ \/ p \in spoilt'
                     \/ \E j \in 1 .. made, d \in Accounts :
                            p \in Files /\ files'[p] = Certificate(j, d)
    <3>1. CASE f = p
      <4>1. files'[p] = c /\ p \in spoilt'
        BY <1>3, <2>3, <3>1
      <4> QED BY <1>3, <4>1, JunkIsNoKey
    <3>2. CASE f # p
      <4>1. files'[p] = files[p] /\ (p \in spoilt => p \in spoilt')
        BY <1>3, <2>3, <3>2
      <4> QED BY <1>5, <4>1
    <3> QED BY <3>1, <3>2
  <2>4. ASSUME NEW f \in Files, NEW i \in 1 .. made, NEW b \in Accounts,
               files' = [files EXCEPT ![f] = Certificate(i, b)], UNCHANGED spoilt
        PROVE  \/ p \in Files /\ files'[p] = PrivateKey(k)
               \/ /\ \A j \in 1 .. made : ~ (p \in Files /\ files'[p] = PrivateKey(j))
                  /\ \/ p \in spoilt'
                     \/ \E j \in 1 .. made, d \in Accounts :
                            p \in Files /\ files'[p] = Certificate(j, d)
    <3>1. CASE f = p
      <4>1. files'[p] = Certificate(i, b)
        BY <1>3, <2>4, <3>1
      <4> QED BY <2>4, <3>1, <4>1, ContentsDiffer
    <3>2. CASE f # p
      <4>1. files'[p] = files[p]
        BY <1>3, <2>4, <3>2
      <4> QED BY <1>5, <2>4, <4>1
    <3> QED BY <3>1, <3>2
  <2> QED BY <2>1, <2>2, <2>3, <2>4 DEF FilesAfterRequest
<1> QED BY <1>1, <1>5, <1>6 DEF Holds, KeyOverwritten

\* Where the wizard goes from these pages to one of them, the settings of the
\* request stay, and the files as FilesAfterRequest says.
LEMMA AfterRequestStep ==
    ASSUME IndInv, [Next]_vars, page \in PagesAfterRequest, page' \in PagesAfterRequest
    PROVE  /\ UNCHANGED <<made, asked>>
           /\ FilesAfterRequest
           /\ \A s \in RequestSettings : config'[s] = config[s]
<1>1. /\ config \in Config /\ dirty \in SUBSET MadeSettings
      /\ requestKey \in Files \cup {Unset} /\ typed \subseteq dirty
      /\ made \in Nat
  BY DEF IndInv, TypeOK, TypedIsDirty
<1>2. /\ RequestSettings \subseteq Settings \ {"KeysFile"}
      /\ PagesAfterRequest \subseteq Pages
      /\ page \notin {"Intro", "Account", "PrivateKey", "CertExists", "CertRequest",
                     "Finished", "Cancelled", "Aborted"}
      /\ page' \notin {"Intro", "Account", "PrivateKey", "CertExists", "CertRequest",
                      "Finished", "Cancelled", "Aborted"}
  BY DEF RequestSettings, Settings, FileSettings, MadeSettings, DirSettings,
         PagesAfterRequest, Pages
<1>3. ASSUME NEW q \in PagesAfterRequest, GoTo(q)
      PROVE  \A s \in RequestSettings : config'[s] = config[s]
  <2>1. q \in Pages /\ q # "CertRequest" /\ ShowPage(q, config, dirty)
    BY <1>2, <1>3 DEF GoTo, PagesAfterRequest
  <2> QED BY <1>1, <1>2, <2>1, ShowPageStep
<1>4. CASE TypeSomething
  <2>1. PICK s \in DOMAIN Typed : \E v \in Typed[s] : Type(s, v)
    BY <1>4 DEF TypeSomething
  <2>2. /\ page = PageOf[s] /\ (\E v : config' = [config EXCEPT ![s] = v])
        /\ UNCHANGED <<files, made, spoilt, asked>>
    BY <2>1 DEF Type
  <2>3. s \in DOMAIN PageOf
    BY SetupAssumption DEF SetupAssumption
  <2>4. s \notin RequestSettings
    BY <2>2, <2>3 DEF PageOf, RequestSettings, PagesAfterRequest
  <2>5. DOMAIN config = Settings
    BY <1>1, ConfigValues
  <2> QED BY <1>2, <2>2, <2>4, <2>5 DEF FilesAfterRequest
<1>5. CASE NextCertificate
  BY <1>3, <1>5 DEF NextCertificate, FilesAfterRequest, PagesAfterRequest
<1>6. CASE NextBackedUp \/ ExistingEncKey
  BY <1>3, <1>6 DEF NextBackedUp, ExistingEncKey, FilesAfterRequest, PagesAfterRequest
<1>7. CASE NewEncKey
  BY <1>3, <1>7 DEF NewEncKey, Overwrite, FilesAfterRequest, PagesAfterRequest
<1>8. CASE Back
  <2> DEFINE left == {s \in MadeSettings : PageOf[s] = page} \ dirty
             c    == [s \in DOMAIN config |-> IF s \in left THEN Unset ELSE config[s]]
  <2>1. /\ page \in DOMAIN Prev
        /\ ShowPage(Prev[page], c, dirty)
        /\ UNCHANGED <<files, made, ticked, spoilt, asked>>
    BY <1>8 DEF Back
  <2>2. /\ DOMAIN config = Settings
        /\ \A s \in Settings : config[s] \in Values(s)
    BY <1>1, ConfigValues
  <2>3. c \in Config
    <3>1. c = [s \in Settings |-> c[s]] /\ \A s \in Settings : c[s] \in Values(s)
      BY <2>2 DEF Values
    <3> HIDE DEF c
    <3> QED BY <3>1, ValuesConfig
  <2>4. \A s \in RequestSettings : c[s] = config[s]
    BY <1>2, <2>2 DEF PagesAfterRequest, RequestSettings, MadeSettings, PageOf
  <2> HIDE DEF c, left
  <2>5. page' = Prev[page] /\ Prev[page] \in Pages
    BY <2>1 DEF ShowPage, Prev, Pages
  <2>6. \A s \in RequestSettings : config'[s] = c[s]
    BY <1>1, <1>2, <2>1, <2>3, <2>5, ShowPageStep
  <2> QED BY <2>1, <2>4, <2>6 DEF FilesAfterRequest
<1>9. CASE MakingFails
  <2>1. PICK s \in MadeSettings :
            /\ page = PageOf[s]
            /\ config[s] \in Files
            /\ files' = [files EXCEPT ![config[s]] = Junk]
            /\ spoilt' = IF s = "KeysFile" THEN spoilt \cup {config[s]} ELSE spoilt
    BY <1>9 DEF MakingFails, Overwrite
  <2>2. s = "KeysFile"
    BY <2>1 DEF MadeSettings, PageOf, PagesAfterRequest
  <2> QED BY <1>9, <2>1, <2>2 DEF MakingFails, FilesAfterRequest
<1>10. CASE OperatorAnswers
  BY <1>10 DEF OperatorAnswers, FilesAfterRequest, history
<1>11. CASE (\E yes \in BOOLEAN : Tick(yes)) \/ UNCHANGED vars
  BY <1>11 DEF Tick, vars, history, FilesAfterRequest
<1>12. ~ (NextIntro \/ NextAccount \/ NextCertExists \/ Finish \/ ExistingKey \/ NewKey
          \/ ExistingRequest \/ NewRequest \/ Cancel \/ Restart \/ ExistingKeyAborts)
  BY <1>2 DEF NextIntro, NextAccount, NextCertExists, Finish, ExistingKey, NewKey,
     ExistingRequest, NewRequest, Cancel, Restart, ExistingKeyAborts
<1> QED BY <1>4, <1>5, <1>6, <1>7, <1>8, <1>9, <1>10, <1>11, <1>12 DEF Next, NextPage

\* The page of the certificate is reached from before by a request that is good,
\* or not by a request.
LEMMA RequestStep ==
    ASSUME IndInv, [Next]_vars, page \notin PagesAfterRequest, asked',
           page' \in PagesAfterRequest
    PROVE  AnswerAwaited'
<1>1. /\ config \in Config /\ dirty \in SUBSET MadeSettings
      /\ requestKey \in Files \cup {Unset} /\ typed \subseteq dirty
  BY DEF IndInv, TypeOK, TypedIsDirty
<1>2. ExistingRequest \/ NewRequest
  <2>1. ~ (TypeSomething \/ (\E yes \in BOOLEAN : Tick(yes)) \/ MakingFails
           \/ OperatorAnswers \/ UNCHANGED vars)
    BY DEF TypeSomething, Type, Tick, MakingFails, OperatorAnswers, vars, history
  <2>2. ~ (NextIntro \/ NextAccount \/ NextCertExists \/ NextCertificate \/ NextBackedUp
           \/ Finish \/ ExistingKey \/ NewKey \/ ExistingEncKey \/ NewEncKey)
    BY DEF NextIntro, NextAccount, NextCertExists, NextCertificate, NextBackedUp, Finish,
       ExistingKey, NewKey, ExistingEncKey, NewEncKey, PagesAfterRequest, GoTo, ShowPage
  <2>3. ~ Back
    <3>1. \A q \in DOMAIN Prev : Prev[q] \in PagesAfterRequest => q \in PagesAfterRequest
      BY DEF Prev, PagesAfterRequest
    <3> QED BY <3>1 DEF Back, ShowPage
  <2>4. ~ (Cancel \/ Restart \/ ExistingKeyAborts)
    BY DEF Cancel, Restart, ExistingKeyAborts, PagesAfterRequest
  <2> QED BY <2>1, <2>2, <2>3, <2>4 DEF Next, NextPage
<1>3. /\ GoTo("Certificate") /\ made' = made
      /\ \E k \in 1 .. made :
            /\ config["PrivateKeyFile"] \in Files
            /\ files'[config["PrivateKeyFile"]] = PrivateKey(k)
            /\ files'[config["CertRequestFile"]] = Request(k, config["AccountNumber"])
  <2>1. page \notin PagesAfterRequest
    OBVIOUS
  <2>2. CASE ExistingRequest
    BY <2>2 DEF ExistingRequest, RequestOk, Holds
  <2>3. CASE NewRequest
    <3>1. RequestOk(files') /\ GoTo("Certificate") /\ made' = made
      BY <2>1, <2>3 DEF NewRequest
    <3> QED BY <3>1 DEF RequestOk, Holds
  <2> QED BY <1>2, <2>2, <2>3
<1>4. \A s \in RequestSettings : config'[s] = config[s]
  <2>1. "Certificate" \in Pages /\ RequestSettings \subseteq Settings \ {"KeysFile"}
    BY DEF Pages, RequestSettings, Settings, FileSettings, MadeSettings, DirSettings
  <2> QED BY <1>1, <1>3, <2>1, ShowPageStep DEF GoTo
<1>5. /\ config'["PrivateKeyFile"] = config["PrivateKeyFile"]
      /\ config'["CertRequestFile"] = config["CertRequestFile"]
      /\ config'["AccountNumber"] = config["AccountNumber"]
  BY <1>4 DEF RequestSettings
<1>6. PICK i \in 1 .. made :
          /\ config["PrivateKeyFile"] \in Files
          /\ files'[config["PrivateKeyFile"]] = PrivateKey(i)
          /\ files'[config["CertRequestFile"]] = Request(i, config["AccountNumber"])
  BY <1>3
<1>7. ASSUME NEW k \in 1 .. made, NEW a \in Accounts,
             Holds(files, "CertRequestFile", Request(k, a))'
      PROVE  a = config'.AccountNumber /\ Holds(files, "PrivateKeyFile", PrivateKey(k))'
  <2>1. Request(k, a) = Request(i, config["AccountNumber"])
    BY <1>5, <1>6, <1>7 DEF Holds
  <2>2. k = i /\ a = config["AccountNumber"]
    BY <2>1, ContentsDiffer
  <2> QED BY <1>5, <1>6, <2>2 DEF Holds
<1> QED BY <1>3, <1>7, Zenon DEF AnswerAwaited

\* Every step keeps what is awaited.
LEMMA NextAnswerAwaited ==
    IndInv /\ MadeInRange /\ AnswerAwaited /\ [Next]_vars => (MadeInRange /\ AnswerAwaited)'
<1> SUFFICES ASSUME IndInv, MadeInRange, AnswerAwaited, [Next]_vars
             PROVE  (MadeInRange /\ AnswerAwaited)'
  OBVIOUS
<1>1. MadeInRange'
  <2>1. made' = made \/ (made < MaxKeys /\ made' = made + 1)
    <3>1. UNCHANGED made \/ NewKey
      BY DEF Next, NextPage, TypeSomething, Type, Tick, Back, Cancel, Restart,
         ExistingKeyAborts, MakingFails, OperatorAnswers, NextIntro, NextAccount,
         NextCertExists, NextCertificate, NextBackedUp, Finish, ExistingKey,
         ExistingRequest, NewRequest, ExistingEncKey, NewEncKey, vars
    <3> QED BY <3>1 DEF NewKey
  <2> QED BY <2>1, SetupAssumption DEF MadeInRange, IndInv, TypeOK, SetupAssumption
<1>2. AnswerAwaited'
  <2>1. CASE asked' /\ page' \in PagesAfterRequest
    <3>1. CASE page \in PagesAfterRequest
      BY <2>1, <3>1, AfterRequestStep, AnswerStays
    <3>2. CASE page \notin PagesAfterRequest
      BY <2>1, <3>2, RequestStep
    <3> QED BY <3>1, <3>2
  <2>2. CASE ~ (asked' /\ page' \in PagesAfterRequest)
    BY <2>2, Zenon DEF AnswerAwaited
  <2> QED BY <2>1, <2>2
<1> QED BY <1>1, <1>2

\* So it holds in every state.
LEMMA SpecAnswerAwaited == Spec => [](IndInv /\ MadeInRange /\ AnswerAwaited)
<1>1. Init => MadeInRange /\ AnswerAwaited
  BY SetupAssumption DEF Init, MadeInRange, AnswerAwaited, SetupAssumption
<1> QED BY <1>1, InitIndInv, NextIndInv, NextAnswerAwaited, PTL DEF Spec

-----------------------------------------------------------------------------
(* The theorems.                                                           *)

\* Settings, files and pages keep their types, whatever the user types, makes
\* and overwrites (TypeOK).
THEOREM TypeCorrect == Spec => []TypeOK
  BY SpecIndInv, PTL DEF IndInv

\* A wizard that ends with Finish leaves a configuration that can be used
\* (FinishedIsUsable).
THEOREM FinishingIsUsable == Spec => []FinishedIsUsable
<1>1. IndInv => FinishedIsUsable
  BY DEF IndInv, AccountPassed, CertificatePassed, KeysPassed, DirectoryPassed,
         FinishedIsUsable
<1> QED BY <1>1, SpecIndInv, PTL

\* The certificate that answers the request is accepted (AnswerIsAccepted).
THEOREM AnswerAccepted == Spec => []AnswerIsAccepted
<1>1. IndInv /\ AnswerAwaited => AnswerIsAccepted
  <2> SUFFICES ASSUME IndInv, AnswerAwaited, page = "Certificate", asked, ~ Spoilt,
                      ~ KeyOverwritten, NEW k \in 1 .. made, NEW a \in Accounts,
                      Holds(files, "CertRequestFile", Request(k, a)),
                      Holds(files, "CertificateFile", Certificate(k, a)),
                      Holds(files, "TrustedCAsFile", CACert)
               PROVE  CertificateOk
    BY DEF AnswerIsAccepted
  <2>1. "PrivateKeyFile" \in FileSettings \ {"KeysFile"}
    BY DEF FileSettings, MadeSettings
  <2>2. config.PrivateKeyFile \notin spoilt
    BY <2>1 DEF Spoilt
  <2>3. a = config.AccountNumber /\ Holds(files, "PrivateKeyFile", PrivateKey(k))
    BY <2>2 DEF AnswerAwaited, PagesAfterRequest
  <2> QED BY <2>3 DEF CertificateOk
<1> QED BY <1>1, SpecAnswerAwaited, PTL

\* Going back never erases a name that the user typed (BackErasesOnlyDefaults).
THEOREM BackKeepsTypedNames == Spec => BackErasesOnlyDefaults
<1>1. ASSUME IndInv, Back,
             NEW s \in MadeSettings, config'[s] # config[s], config'[s] = Unset
      PROVE  s \notin typed
  <2> DEFINE left == {t \in MadeSettings : PageOf[t] = page} \ dirty
             c    == [t \in DOMAIN config |-> IF t \in left THEN Unset ELSE config[t]]
  <2>1. config \in Config /\ DOMAIN config = Settings
    BY <1>1, ConfigValues DEF IndInv, TypeOK
  <2>2. c = [t \in Settings |-> c[t]] /\ \A t \in Settings : c[t] \in Values(t)
    BY <2>1, ConfigValues DEF Values
  <2>3. page \in DOMAIN Prev /\ ShowPage(Prev[page], c, dirty)
    BY <1>1 DEF Back
  <2>4. s \in dirty => c[s] = config[s]
    BY <2>1 DEF Settings, FileSettings
  <2> HIDE DEF c, left
  <2>5. Prev[page] \in Pages
    BY <2>3 DEF Prev, Pages
  <2>6. c \in Config
    BY <2>2, ValuesConfig
  <2>7. config'[s] = c[s] \/ c[s] = Unset
    BY <1>1, <2>3, <2>5, <2>6, ShowPageStep
       DEF IndInv, TypeOK, TypedIsDirty, Settings, FileSettings
  <2> QED BY <1>1, <2>4, <2>7 DEF IndInv, TypedIsDirty
<1>2. IndInv /\ [Next]_vars =>
        [Back => \A s \in MadeSettings : config'[s] # config[s] /\ config'[s] = Unset
                                         => s \notin typed]_vars
  BY <1>1
<1> QED BY <1>2, SpecIndInv, PTL DEF Spec, BackErasesOnlyDefaults
=============================================================================
