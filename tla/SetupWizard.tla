----------------------------- MODULE SetupWizard -----------------------------
(***************************************************************************)
(* The setup wizard (SetupWizard.cc) with the checks of keys and           *)
(* certificates that it asks of the configuration (ClientConfig.cc): its   *)
(* pages and the way between them, the settings typed on them, and the     *)
(* files that they check, make and overwrite.                              *)
(*                                                                         *)
(* The wizard is modal and its questions are too: Next, with its checks,   *)
(* the file that it makes and the answers of the user, is one step.  A     *)
(* page that refuses to be left, with nothing changed, is a stuttering     *)
(* step; so is a check that fails for want of memory, access or a network. *)
(***************************************************************************)
EXTENDS Naturals, FiniteSets

CONSTANTS
    Files, Hosts, Accounts, Dirs,
    PrivateDirs,    \* directories that only their owner may use
    Typed,          \* bound: what the user types or empties, by setting
    RequestName,    \* the name of the request that goes with a private key
    KeysName,       \* the name of the encryption key that goes with it
    FirstConfigs,   \* the settings when the wizard is first started
    FirstFiles,     \* and what the files hold
    FirstKeys,      \* private keys are numbered, these exist already
    MaxKeys,        \* bound: private keys ever made
    Unset,
    Missing,        \* no such file
    Junk,           \* a file of no use: empty, cut short or of another kind
    BadKey,         \* labelled as a private key, but it cannot be decoded
    CACert,         \* a certificate signed with its own key
    EncKey          \* 1024 bytes

PrivateKey(k)     == [type |-> "key", key |-> k]
Request(k, a)     == [type |-> "request", key |-> k, account |-> a]
Certificate(k, a) == [type |-> "certificate", key |-> k, account |-> a]

\* what a file can hold when n private keys have been made
Labelled(n) ==
    {PrivateKey(k) : k \in 1 .. n}
        \cup {Request(k, a) : k \in 1 .. n, a \in Accounts}
        \cup {Certificate(k, a) : k \in 1 .. n, a \in Accounts}

Content(n) == {Missing, Junk, BadKey, CACert, EncKey} \cup Labelled(n)

\* the settings with a FileSavingPage of their own, on which a file is made
MadeSettings == {"PrivateKeyFile", "CertRequestFile", "KeysFile"}
FileSettings == MadeSettings \cup {"CertificateFile", "TrustedCAsFile"}

\* CommandSocket and PidFile are paths; the directory that they are in counts
DirSettings == {"DataDirectory", "CommandSocket", "PidFile"}
Settings == {"StoreHostname", "AccountNumber"} \cup FileSettings \cup DirSettings

Values(s) ==
    {Unset} \cup IF s = "StoreHostname" THEN Hosts
                 ELSE IF s = "AccountNumber" THEN Accounts
                 ELSE IF s \in FileSettings THEN Files
                 ELSE Dirs

Config == {c \in [Settings -> UNION {Values(s) : s \in Settings}] :
               \A s \in Settings : c[s] \in Values(s)}

Pages == {"Intro", "Account", "PrivateKey", "CertExists", "CertRequest",
          "Certificate", "CryptoKey", "BackedUp", "DataDir"}

Prev == [Account |-> "Intro", PrivateKey |-> "Account",
         CertExists |-> "PrivateKey", CertRequest |-> "CertExists",
         Certificate |-> "CertExists", CryptoKey |-> "Certificate",
         BackedUp |-> "CryptoKey", DataDir |-> "BackedUp"]

PageOf == [StoreHostname |-> "Account", AccountNumber |-> "Account",
           PrivateKeyFile |-> "PrivateKey", CertRequestFile |-> "CertRequest",
           CertificateFile |-> "Certificate", TrustedCAsFile |-> "Certificate",
           KeysFile |-> "CryptoKey", DataDirectory |-> "DataDir"]

ASSUME SetupAssumption ==
    /\ Unset \notin Files \cup Hosts \cup Accounts \cup Dirs
    /\ PrivateDirs \subseteq Dirs
    /\ DOMAIN Typed = DOMAIN PageOf
    /\ \A s \in DOMAIN PageOf : Typed[s] \subseteq Values(s)
    /\ RequestName \in [Files -> Files]
    /\ KeysName \in [Files -> Files]
    /\ MaxKeys \in Nat
    /\ FirstKeys \in 0 .. MaxKeys
    /\ {Junk, EncKey} \cap Labelled(MaxKeys) = {}
    /\ FirstConfigs \subseteq Config
    /\ FirstFiles \in [Files -> Content(FirstKeys)]

VARIABLES
    page,       \* the page that is shown, or how the wizard ended
    config,     \* the settings of the ClientConfig
    files,      \* what each file holds
    made,       \* how many private keys have been made
    dirty,      \* mTextValueIsDirty of the FileSavingPages
    requestKey, \* mKeyFileName of the CertRequestPage
    ticked,     \* the box on the BackedUpPage
    typed,      \* history: settings whose value the user has typed or brought
    spoilt,     \* history: files the CryptoKeyPage wrote since the last check
    asked       \* history: the way to the CertificatePage was by a request

vars == <<page, config, files, made, dirty, requestKey, ticked,
          typed, spoilt, asked>>

history == <<typed, spoilt, asked>>

\* Settings, files and pages have their types, and no file holds a private key
\* that was not made.
TypeOK ==
    /\ page \in Pages \cup {"Finished", "Cancelled", "Aborted"}
    /\ config \in Config
    /\ made \in Nat
    /\ files \in [Files -> Content(made)]
    /\ dirty \subseteq MadeSettings
    /\ requestKey \in Files \cup {Unset}
    /\ ticked \in BOOLEAN
    /\ typed \subseteq MadeSettings
    /\ spoilt \subseteq Files
    /\ asked \in BOOLEAN

-----------------------------------------------------------------------------
(* The checks, of files as they are in fs.                                 *)

Holds(fs, s, content) == config[s] \in Files /\ fs[config[s]] = content

\* mutant: a host name is enough
HostOk == config.StoreHostname # Unset

AccountOk == config.StoreHostname # Unset /\ config.AccountNumber # Unset

\* The label of the key is checked, not what it holds; n keys have been made.
PrivateKeyOk(fs, n) ==
    \/ Holds(fs, "PrivateKeyFile", BadKey)
    \/ \E k \in 1 .. n : Holds(fs, "PrivateKeyFile", PrivateKey(k))

\* mutant: the key that the page remembers is taken for the one in use
RequestOkRemembered(fs) ==
    \E k \in 1 .. made :
        /\ requestKey \in Files
        /\ fs[requestKey] = PrivateKey(k)
        /\ Holds(fs, "CertRequestFile", Request(k, config.AccountNumber))

RequestOk(fs) ==
    \E k \in 1 .. made :
        /\ Holds(fs, "PrivateKeyFile", PrivateKey(k))
        /\ Holds(fs, "CertRequestFile", Request(k, config.AccountNumber))

CertificateOk ==
    /\ \E k \in 1 .. made :
        /\ Holds(files, "PrivateKeyFile", PrivateKey(k))
        /\ Holds(files, "CertificateFile", Certificate(k, config.AccountNumber))
    /\ Holds(files, "TrustedCAsFile", CACert)

KeysOk(fs) == Holds(fs, "KeysFile", EncKey)

-----------------------------------------------------------------------------
(* Pages.                                                                  *)

\* A page is shown.  Two of them fill in a name that the user has not given;
\* c are the settings before that, d the dirty flags.
ShowPage(p, c, d) ==
    /\ page' = p
    /\ LET key     == c.PrivateKeyFile
           request == p = "CertRequest" /\ c.CertRequestFile = Unset /\ key # Unset
           keys    == p = "CryptoKey" /\ c.KeysFile = Unset /\ key # Unset
           named   == (IF request THEN {"CertRequestFile"} ELSE {})
                          \cup (IF keys THEN {"KeysFile"} ELSE {})
       IN  /\ config' = [c EXCEPT
                  !.CertRequestFile = IF request THEN RequestName[key] ELSE @,
                  !.KeysFile = IF keys THEN KeysName[key] ELSE @]
           /\ requestKey' = IF request THEN key ELSE requestKey
           /\ dirty' = d \ named
           /\ typed' = typed \ named

GoTo(p) == ShowPage(p, config, dirty)

\* mutant: a change of the text goes unnoticed
TypeUnnoticed(s, v) ==
    /\ page = PageOf[s]
    /\ config' = [config EXCEPT ![s] = v]
    /\ typed' = typed \cup ({s} \cap MadeSettings)
    /\ UNCHANGED <<page, files, made, dirty, requestKey, ticked, spoilt, asked>>

\* the user types, empties or selects a value
Type(s, v) ==
    /\ page = PageOf[s]
    /\ config' = [config EXCEPT ![s] = v]
    /\ dirty' = dirty \cup ({s} \cap MadeSettings)
    /\ typed' = typed \cup ({s} \cap MadeSettings)
    /\ UNCHANGED <<page, files, made, requestKey, ticked, spoilt, asked>>

Tick(yes) ==
    /\ page = "BackedUp"
    /\ ticked' = yes
    /\ UNCHANGED <<page, config, files, made, dirty, requestKey, history>>

\* Back is always allowed; it erases a name that was filled in and left alone
Back ==
    /\ page \in DOMAIN Prev
    /\ LET left == {s \in MadeSettings : PageOf[s] = page} \ dirty
       IN  ShowPage(Prev[page],
                    [s \in DOMAIN config |-> IF s \in left THEN Unset ELSE config[s]],
                    dirty)
    /\ UNCHANGED <<files, made, ticked, spoilt, asked>>

NextIntro ==
    /\ page = "Intro"
    /\ GoTo("Account")
    /\ UNCHANGED <<files, made, ticked, spoilt, asked>>

NextAccount ==
    /\ page = "Account"
    /\ AccountOk
    /\ GoTo("PrivateKey")
    /\ UNCHANGED <<files, made, ticked, spoilt, asked>>

NextCertExists ==
    /\ page = "CertExists"
    /\ \E new \in BOOLEAN :
        /\ GoTo(IF new THEN "CertRequest" ELSE "Certificate")
        /\ asked' = FALSE
    /\ UNCHANGED <<files, made, ticked, spoilt>>

\* mutant: any certificate for the account will do
NextCertificateAnyKey ==
    /\ page = "Certificate"
    /\ \E k \in 1 .. made :
        Holds(files, "CertificateFile", Certificate(k, config.AccountNumber))
    /\ Holds(files, "TrustedCAsFile", CACert)
    /\ GoTo("CryptoKey")
    /\ spoilt' = {}
    /\ UNCHANGED <<files, made, ticked, asked>>

NextCertificate ==
    /\ page = "Certificate"
    /\ CertificateOk
    /\ GoTo("CryptoKey")
    /\ spoilt' = {}
    /\ UNCHANGED <<files, made, ticked, asked>>

NextBackedUp ==
    /\ page = "BackedUp"
    /\ ticked
    /\ GoTo("DataDir")
    /\ UNCHANGED <<files, made, ticked, spoilt, asked>>

\* The last page.  A directory that does not exist is never made: a copy of
\* the check of its permissions comes first, and fails.
Finish ==
    /\ page = "DataDir"
    /\ config.DataDirectory \in PrivateDirs
    /\ config' = [config EXCEPT !.CommandSocket = config.DataDirectory,
                                !.PidFile = config.DataDirectory]
    /\ page' = "Finished"
    /\ UNCHANGED <<files, made, dirty, requestKey, ticked, history>>

\* the pages are destroyed, but nothing that was set or written is taken back
Cancel ==
    /\ page \in Pages
    /\ page' = "Cancelled"
    /\ dirty' = {} /\ typed' = {} /\ spoilt' = {}
    /\ requestKey' = Unset
    /\ ticked' = FALSE
    /\ asked' = FALSE
    /\ UNCHANGED <<config, files, made>>

\* The wizard is started again, with new pages.  The text boxes are filled with
\* the settings, which makes them dirty.
Restart ==
    /\ page \in {"Finished", "Cancelled"}
    /\ page' = "Intro"
    /\ dirty' = {s \in MadeSettings : config[s] # Unset}
    /\ typed' = {s \in MadeSettings : config[s] # Unset}
    /\ requestKey' = Unset
    /\ ticked' = FALSE
    /\ spoilt' = {}
    /\ asked' = FALSE
    /\ UNCHANGED <<config, files, made>>

-----------------------------------------------------------------------------
(* Pages that check a file, or make one first.  A file that exists is      *)
(* overwritten when the user says so.                                      *)

Overwrite(s, content) == files' = [files EXCEPT ![config[s]] = content]

ExistingKey ==
    /\ page = "PrivateKey"
    /\ PrivateKeyOk(files, made)
    /\ GoTo("CertExists")
    /\ UNCHANGED <<files, made, ticked, spoilt, asked>>

\* A file without a private key is refused, unless the first error that OpenSSL
\* remembers, of this file or of an earlier one, is not that there is no label:
\* then a label is compared that was never read, which stops the program.
ExistingKeyAborts ==
    /\ page = "PrivateKey"
    /\ config.PrivateKeyFile \in Files
    /\ files[config.PrivateKeyFile] # Missing
    /\ ~ PrivateKeyOk(files, made)
    /\ page' = "Aborted"
    /\ UNCHANGED <<config, files, made, dirty, requestKey, ticked, history>>

NewKey ==
    /\ page = "PrivateKey"
    /\ config.PrivateKeyFile \in Files
    /\ made < MaxKeys
    /\ made' = made + 1
    /\ Overwrite("PrivateKeyFile", PrivateKey(made'))
    /\ PrivateKeyOk(files', made')
    /\ GoTo("CertExists")
    /\ UNCHANGED <<ticked, spoilt, asked>>

ExistingRequest ==
    /\ page = "CertRequest"
    /\ RequestOk(files)
    /\ GoTo("Certificate")
    /\ asked' = TRUE
    /\ UNCHANGED <<files, made, ticked, spoilt>>

\* The request is signed with the key that the page remembers, and then checked
\* against the one in use.
NewRequest ==
    /\ page = "CertRequest"
    /\ requestKey \in Files
    /\ config.CertRequestFile \in Files
    /\ \E k \in 1 .. made :
        /\ files[requestKey] = PrivateKey(k)
        /\ Overwrite("CertRequestFile", Request(k, config.AccountNumber))
    /\ IF RequestOk(files')
       THEN GoTo("Certificate") /\ asked' = TRUE
       ELSE UNCHANGED <<page, config, dirty, requestKey, typed, asked>>
    /\ UNCHANGED <<made, ticked, spoilt>>

ExistingEncKey ==
    /\ page = "CryptoKey"
    /\ KeysOk(files)
    /\ GoTo("BackedUp")
    /\ UNCHANGED <<files, made, ticked, spoilt, asked>>

NewEncKey ==
    /\ page = "CryptoKey"
    /\ config.KeysFile \in Files
    /\ Overwrite("KeysFile", EncKey)
    /\ KeysOk(files')
    /\ GoTo("BackedUp")
    /\ spoilt' = spoilt \cup {config.KeysFile}
    /\ UNCHANGED <<made, ticked, asked>>

\* The file is opened, which empties it, and then something fails: there are no
\* random numbers, or the user does not want to go on without, or a write.
MakingFails ==
    /\ \E s \in MadeSettings :
        /\ page = PageOf[s]
        /\ config[s] \in Files
        /\ s = "CertRequestFile" =>
               \E k \in 1 .. made : requestKey \in Files /\ files[requestKey] = PrivateKey(k)
        /\ Overwrite(s, Junk)
        /\ spoilt' = IF s = "KeysFile" THEN spoilt \cup {config[s]} ELSE spoilt
    /\ UNCHANGED <<page, config, made, dirty, requestKey, ticked, typed, asked>>

\* The operator of the server answers a request and the user saves the answer,
\* as the CertificatePage asks for.
OperatorAnswers ==
    /\ page = "Certificate"
    /\ \E f \in Typed["CertificateFile"] \cap Files, r \in Files, k \in 1 .. made, a \in Accounts :
        /\ files[r] = Request(k, a)
        /\ files' = [files EXCEPT ![f] = Certificate(k, a)]
    /\ UNCHANGED <<page, config, made, dirty, requestKey, ticked, history>>

-----------------------------------------------------------------------------
Init ==
    /\ page = "Intro"
    /\ config \in FirstConfigs
    /\ files = FirstFiles
    /\ made = FirstKeys
    /\ dirty = {s \in MadeSettings : config[s] # Unset}
    /\ requestKey = Unset
    /\ ticked = FALSE
    /\ typed = dirty
    /\ spoilt = {}
    /\ asked = FALSE

TypeSomething == \E s \in DOMAIN Typed : \E v \in Typed[s] : Type(s, v)

NextPage ==
    \/ NextIntro \/ NextAccount \/ NextCertExists \/ NextCertificate
    \/ NextBackedUp \/ Finish
    \/ ExistingKey \/ NewKey
    \/ ExistingRequest \/ NewRequest
    \/ ExistingEncKey \/ NewEncKey

Next ==
    \/ TypeSomething
    \/ \E yes \in BOOLEAN : Tick(yes)
    \/ NextPage
    \/ Back
    \/ Cancel
    \/ Restart
    \/ ExistingKeyAborts
    \/ MakingFails
    \/ OperatorAnswers

Spec == Init /\ [][Next]_vars

-----------------------------------------------------------------------------
(* Properties.                                                             *)

\* the new encryption key was written over a file that was checked before
Spoilt == \E s \in FileSettings \ {"KeysFile"} : config[s] \in spoilt

\* Whatever way through the pages, back and forth, with keys replaced and files
\* overwritten: when the wizard ends with Finish there is an account, an
\* encryption key, a socket and a pid file in the data directory, and a
\* certificate of this account for the private key in use - unless the user
\* let the new encryption key be written over one of them.
FinishedIsUsable ==
    page = "Finished" =>
        /\ AccountOk
        /\ KeysOk(files)
        /\ config.DataDirectory \in PrivateDirs
        /\ config.CommandSocket = config.DataDirectory
        /\ config.PidFile = config.DataDirectory
        /\ CertificateOk \/ Spoilt

\* the answer of the operator was saved over the private key
KeyOverwritten ==
    \E k \in 1 .. made, a \in Accounts : Holds(files, "PrivateKeyFile", Certificate(k, a))

\* Who made or showed a request, sent it to the operator and got the answer can
\* go on: the certificate will be accepted - unless the user saved the answer
\* over the private key or, further on, let the new encryption key be written
\* over one of the files.
AnswerIsAccepted ==
    page = "Certificate" /\ asked /\ ~Spoilt /\ ~KeyOverwritten =>
        \A k \in 1 .. made, a \in Accounts :
            /\ Holds(files, "CertRequestFile", Request(k, a))
            /\ Holds(files, "CertificateFile", Certificate(k, a))
            /\ Holds(files, "TrustedCAsFile", CACert)
            => CertificateOk

\* Going back erases the name of a file only if the wizard had filled it in and
\* the user did not touch it.
BackErasesOnlyDefaults ==
    [][Back => \A s \in MadeSettings : config'[s] # config[s] /\ config'[s] = Unset
                                       => s \notin typed]_vars
=============================================================================
