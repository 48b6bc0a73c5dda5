------------------------------ MODULE TestWizard ------------------------------
(***************************************************************************)
(* The test of the setup wizard (TestWizard.cc), played against the model: *)
(* a script of what the test does and of what it asserts in between.       *)
(*                                                                         *)
(* Refusals for want of access to a file, a directory or a host are left   *)
(* out, as they are in SetupWizard; a number that cannot be read counts as *)
(* none, which is what the control makes of it.                            *)
(***************************************************************************)
EXTENDS SetupWizard, Sequences, TLC

CONSTANTS
    keyA,     \* the file "existing", where the new key goes first
    keyB,     \* 12ab-key.pem
    req,      \* 12ab-csr.pem, the name that goes with it
    enc,      \* 12ab-FileEncKeys.raw, the name that goes with it
    cert, ca, \* 12ab-cert.pem and client-ca-cert.pem
    oddKey,   \* /foobar/29a.pem
    oddReq,   \* /foobar/29a-csr.pem, the name that goes with it
    custom,   \* /whee/xxx
    nosuch,   \* files that are never made
    another,  \* files that are made and are of no use
    host,
    acct1,    \* 12ab
    acct2,    \* the other numbers that are accepted
    dir,
    shared    \* a directory that others may use

VARIABLES
    who,  \* who works with the wizard: "user" or "test"
    at    \* the next step of the test

testVars == <<page, config, files, made, dirty, requestKey, ticked,
              typed, spoilt, asked, who, at>>

-----------------------------------------------------------------------------
(* Steps.                                                                  *)

Enter(s, v)   == [do |-> "enter", s |-> s, v |-> v]
Set(s, v)     == [do |-> "set", s |-> s, v |-> v]
Write(f, c)   == [do |-> "write", f |-> f, content |-> c]
Check         == [do |-> "check"]
GoBack        == [do |-> "back"]
Forward       == [do |-> "forward", new |-> FALSE]
ForwardNew    == [do |-> "forward", new |-> TRUE]
Refused       == [do |-> "refused", new |-> FALSE]
RefusedNew    == [do |-> "refused", new |-> TRUE]
On(p)         == [do |-> "see", page |-> p, config |-> <<>>]
See(p, c)     == [do |-> "see", page |-> p, config |-> c]

\* what a step of the test does to the wizard
Played(s) ==
    \/ s.do = "enter" /\ Type(s.s, s.v)
    \/ /\ s.do = "set"
       /\ config' = [config EXCEPT ![s.s] = s.v]
       /\ UNCHANGED <<page, files, made, dirty, requestKey, ticked, history>>
    \/ /\ s.do = "write"
       /\ files' = [files EXCEPT ![s.f] = s.content]
       /\ UNCHANGED <<page, config, made, dirty, requestKey, ticked, history>>
    \/ s.do = "check" /\ Tick(TRUE)
    \/ s.do = "back" /\ Back
    \/ /\ s.do = "forward"
       /\ IF s.new THEN \/ NewKey \/ NewRequest \/ NewEncKey
                        \/ NextCertExists /\ page' = "CertRequest"
          ELSE \/ NextIntro \/ NextAccount \/ ExistingKey \/ ExistingRequest
               \/ NextCertificate \/ ExistingEncKey \/ NextBackedUp \/ Finish
    \/ s.do \in {"refused", "see"} /\ UNCHANGED vars

\* the page that is shown may be left
CanGo(new) ==
    CASE page = "Account"     -> AccountOk
      [] page = "PrivateKey"  -> IF new THEN config.PrivateKeyFile \in Files
                                 ELSE PrivateKeyOk(files, made)
      [] page = "CertRequest" -> IF new THEN config.CertRequestFile \in Files
                                 ELSE RequestOk(files)
      [] page = "Certificate" -> CertificateOk
      [] page = "CryptoKey"   -> IF new THEN config.KeysFile \in Files ELSE KeysOk(files)
      [] page = "BackedUp"    -> ticked
      [] page = "DataDir"     -> config.DataDirectory \in PrivateDirs
      [] OTHER                -> TRUE

Possible(s) ==
    CASE s.do = "enter"   -> page = PageOf[s.s]
      [] s.do = "check"   -> page = "BackedUp" /\ ~ ticked
      [] s.do = "back"    -> page \in DOMAIN Prev
      [] s.do = "forward" -> CanGo(s.new)
      [] s.do = "refused" -> ~ CanGo(s.new)
      [] s.do = "see"     -> /\ page = s.page
                             /\ \A setting \in DOMAIN s.config :
                                    config[setting] = s.config[setting]
      [] OTHER            -> TRUE

-----------------------------------------------------------------------------
(* The script, one definition for each function of the test.               *)

AccountPage == <<
    See("Account", [StoreHostname |-> Unset, AccountNumber |-> Unset]),
    Refused, Enter("StoreHostname", host),
    See("Account", [StoreHostname |-> host, AccountNumber |-> Unset]),
    Refused, Enter("AccountNumber", acct2), Forward,
    See("PrivateKey", [AccountNumber |-> acct2]), GoBack, On("Account"),
    Enter("AccountNumber", Unset), Refused,
    Enter("AccountNumber", acct2), Forward, On("PrivateKey"), GoBack, On("Account"),
    Enter("AccountNumber", acct1), Forward,
    See("PrivateKey", [StoreHostname |-> host, AccountNumber |-> acct1])>>

PrivateKeyPage == <<
    RefusedNew, Enter("PrivateKeyFile", keyA), Write(keyA, Junk), ForwardNew,
    See("CertExists", [PrivateKeyFile |-> keyA]), GoBack, On("PrivateKey"),
    Enter("PrivateKeyFile", nosuch), Refused,
    Enter("PrivateKeyFile", another), Write(another, Junk), Refused,
    Write(another, Missing), Write(keyA, Missing), Write(keyB, PrivateKey(MaxKeys)),
    Enter("PrivateKeyFile", keyB), Forward, See("CertExists", [PrivateKeyFile |-> keyB])>>

CertExistsPage == <<ForwardNew, On("CertRequest")>>

Default   == See("CertRequest", [CertRequestFile |-> req])
BackAgain == <<GoBack, On("CertExists"), ForwardNew>>

CertRequestPage ==
    <<Default, GoBack, See("CertExists", [CertRequestFile |-> Unset]),
      Set("CertRequestFile", nosuch), ForwardNew,
      See("CertRequest", [CertRequestFile |-> nosuch]),
      Enter("CertRequestFile", Unset), See("CertRequest", [CertRequestFile |-> Unset]),
      Set("PrivateKeyFile", oddKey)>>
    \o BackAgain
    \o <<See("CertRequest", [CertRequestFile |-> oddReq]), Enter("CertRequestFile", custom)>>
    \o BackAgain
    \o <<See("CertRequest", [CertRequestFile |-> custom]),
         Set("PrivateKeyFile", keyB), Set("CertRequestFile", Unset)>>
    \o BackAgain
    \o <<Default, ForwardNew, On("Certificate")>>
    \o BackAgain
    \o <<Default, Forward, On("Certificate")>>

SignCertificate == <<
    Write(cert, Certificate(MaxKeys, acct1)), Write(ca, CACert)>>

\* a file that is missing and one of no use, for one setting of the page
BadFiles(s) == <<
    Refused, Set(s, nosuch), Refused, Write(another, Junk), Set(s, another), Refused,
    Write(another, Missing)>>

CertificatePage ==
    <<See("Certificate", [CertificateFile |-> Unset, TrustedCAsFile |-> Unset])>>
    \o BadFiles("CertificateFile")
    \o <<Set("CertificateFile", cert), See("Certificate", [TrustedCAsFile |-> Unset])>>
    \o BadFiles("TrustedCAsFile")
    \o <<Set("TrustedCAsFile", ca), On("Certificate"), Forward, On("CryptoKey")>>

CryptoKeyPage == <<
    See("CryptoKey", [KeysFile |-> enc]), GoBack, See("Certificate", [KeysFile |-> Unset]),
    Set("KeysFile", nosuch), Forward, See("CryptoKey", [KeysFile |-> nosuch]),
    Enter("KeysFile", Unset), See("CryptoKey", [KeysFile |-> Unset]),
    GoBack, On("Certificate"), Forward, See("CryptoKey", [KeysFile |-> enc]),
    ForwardNew, On("BackedUp"), GoBack, On("CryptoKey"),
    Set("KeysFile", another), Write(another, Junk), Refused, Write(another, Missing),
    Set("KeysFile", enc), Forward, On("BackedUp")>>

BackedUpPage == <<Refused, Check, Forward, On("DataDir")>>

DataDirPage == <<
    Set("DataDirectory", Unset), Refused, Set("DataDirectory", shared), Refused,
    Set("DataDirectory", dir), Forward,
    See("Finished", [CommandSocket |-> dir, PidFile |-> dir])>>

Script == <<On("Intro"), Forward, On("Account")>>
    \o AccountPage \o PrivateKeyPage \o CertExistsPage \o CertRequestPage
    \o SignCertificate \o CertificatePage \o CryptoKeyPage \o BackedUpPage \o DataDirPage

-----------------------------------------------------------------------------
Blank == [s \in Settings |-> Unset]

\* the test starts with an empty configuration, and none of its files is there
TestInit ==
    /\ who = "test"
    /\ at = 1
    /\ page = "Intro"
    /\ config = Blank
    /\ files = [f \in Files |-> Missing]
    /\ made = MaxKeys - 1
    /\ dirty = {}
    /\ requestKey = Unset
    /\ ticked = FALSE
    /\ typed = {} /\ spoilt = {} /\ asked = FALSE

TestStep ==
    /\ who = "test"
    /\ at \in DOMAIN Script
    /\ Played(Script[at])
    /\ at' = at + 1
    /\ UNCHANGED who

\* The wizard passes its test: each page may be left when the test can leave
\* it and refuses when the test is refused, and shows the settings asserted.
TestPasses ==
    who = "test" /\ at \in DOMAIN Script => Possible(Script[at])
=============================================================================
