---------------------------- MODULE MCSetupWizard ----------------------------
(* Instance of SetupWizard for TLC: a user, who goes any way, or the test.  *)
EXTENDS TestWizard

mcFiles == {keyA, keyB, req, enc, cert, ca, oddKey, oddReq, custom, nosuch, another}

\* the user may put the encryption key where the private key is
mcTyped == [StoreHostname |-> {host}, AccountNumber |-> {acct1, acct2},
            PrivateKeyFile |-> {keyA, keyB}, CertRequestFile |-> {req, Unset},
            CertificateFile |-> {cert}, TrustedCAsFile |-> {ca},
            KeysFile |-> {enc, keyA}, DataDirectory |-> {dir}]

\* the names of the keys differ in what is taken off: x-key.pem and x.pem
mcRequestName == [f \in mcFiles |-> IF f = oddKey THEN oddReq ELSE req]
mcKeysName == [f \in mcFiles |-> enc]

mcFirstConfigs == {Blank}

mcFirstFiles ==
    [f \in mcFiles |->
        CASE f = keyA -> PrivateKey(1)
          [] f = keyB -> BadKey
          [] f = cert -> Certificate(1, acct1)
          [] f = ca   -> CACert
          [] OTHER    -> Missing]

MCInit ==
    \/ who = "user" /\ at = 0 /\ Init
    \/ TestInit

MCNext ==
    \/ who = "user" /\ Next /\ UNCHANGED <<who, at>>
    \/ TestStep

MCSpec == MCInit /\ [][MCNext]_testVars
=============================================================================
