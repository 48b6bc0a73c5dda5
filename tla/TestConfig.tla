----------------------------- MODULE TestConfig -----------------------------
(***************************************************************************)
(* The test of the configuration (TestConfig.cc) and of the settings that  *)
(* it asks for (TestWizard.cc), played against the model.  Left out: the   *)
(* name of the file of the request, which is not saved, and the removal of *)
(* a file that is saved again at once.                                     *)
(***************************************************************************)
EXTENDS ConfigWindow, Naturals

CONSTANTS
    ConfigFoo,   \* mConfigFileName
    Wacky,       \* what the test sets settings to
    Hello        \* the location it adds

VARIABLES
    who,         \* who works with the window: "user", or one of the tests
    at           \* the next step of the test

testVars == <<vars, who, at>>

AllProps == SetToSeq(Props)

-----------------------------------------------------------------------------
(* Steps.                                                                  *)

SetTo(p, x)   == [do |-> "set", prop |-> p, value |-> x]
Clear(p)      == SetTo(p, Unset)
AddHello      == [do |-> "add"]
New           == [do |-> "new"]
SaveAs        == [do |-> "save"]
Open          == [do |-> "open"]
Exit          == [do |-> "exit"]
\* assertions: of the settings, of all of them being clean or none, of the
\* file being there, and of what Check says
Default1      == [do |-> "is", value |-> Default, locs |-> <<>>]
All(x, locs)  == [do |-> "is", value |-> [p \in Props |-> x], locs |-> locs]
Clean(b)      == [do |-> "clean", yes |-> b]
FileExists    == [do |-> "file"]
Checked(b)    == [do |-> "check", yes |-> b]
Closed        == [do |-> "closed"]

Played(s) ==
    \/ s.do = "set"  /\ SetElsewhere(s.prop, s.value)
    \/ s.do = "add"  /\ AddLocation(Hello)
    \/ s.do = "new"  /\ DoFileNew
    \/ s.do = "save" /\ status = "running" /\ WriteFile(ConfigFoo) /\ UNCHANGED <<status, willing>>
    \/ s.do = "open" /\ DoFileOpen(ConfigFoo)
    \/ s.do = "exit" /\ CloseAtOnce(TRUE)
    \/ s.do \in {"is", "clean", "file", "check", "closed"} /\ UNCHANGED vars

Possible(s) ==
    CASE s.do = "is"     -> config.val = s.value /\ config.locs = s.locs
      [] s.do = "clean"  -> /\ IsClean(config) = s.yes
                            /\ \A p \in Props : (config.val[p] = config.was[p]) = s.yes
      [] s.do = "file"   -> disk[ConfigFoo] # Unreadable
      [] s.do = "check"  -> Check(config) = s.yes /\ ticked = s.yes
      [] s.do = "closed" -> status = "closed"
      [] s.do = "open"   -> Loadable(disk[ConfigFoo])
      [] s.do = "exit"   -> IsClean(config)
      [] OTHER           -> TRUE

-----------------------------------------------------------------------------
(* The scripts.                                                            *)

SetAllTo(x) == [i \in DOMAIN AllProps |-> SetTo(AllProps[i], x)]

SetAll == SetAllTo(Wacky)

AssertDefaultConfig == <<Default1, Clean(TRUE)>>

AssertConfigAsExpected == <<All(Wacky, <<Hello>>)>>

ClearConfig == SetAllTo(Unset)

AssertClearConfig == <<All(Unset, <<Hello>>), Clean(TRUE)>>

Save == <<SaveAs, FileExists, Clean(TRUE)>>

ConfigScript ==
    AssertDefaultConfig
    \o SetAll \o <<AddHello>> \o AssertConfigAsExpected \o <<Clean(FALSE)>>
    \o Save \o Save \o Save
    \o AssertConfigAsExpected
    \o <<New>> \o AssertDefaultConfig
    \o <<Open>> \o AssertConfigAsExpected \o <<Clean(TRUE)>>
    \o ClearConfig \o <<Clean(FALSE)>>
    \o Save \o AssertClearConfig
    \o <<New>> \o AssertDefaultConfig
    \o <<Open>> \o AssertClearConfig
    \o <<New>> \o AssertDefaultConfig
    \o <<Exit, Closed>>

\* CHECK_REQUIRED_PROPERTY
Required(p) == <<Checked(TRUE), Clear(p), Checked(FALSE), Open, Checked(TRUE)>>

RequiredItems ==
    SetAll \o <<Checked(TRUE), SaveAs>>
    \o FlattenSeq([i \in DOMAIN AllProps |-> Required(AllProps[i])])

Script == IF who = "config test" THEN ConfigScript ELSE RequiredItems

-----------------------------------------------------------------------------
TestInit ==
    /\ who \in {"config test", "items test"} /\ at = 1
    /\ Init
    /\ disk[ConfigFoo] = Unreadable

TestStep ==
    /\ who # "user"
    /\ at \in DOMAIN Script /\ Played(Script[at])
    /\ at' = at + 1
    /\ UNCHANGED who

\* The window passes the test: what it sets, saves, opens, clears and finds
\* unsaved is what the test asserts, and the settings that it must have are
\* missed when they are cleared.
TestPasses ==
    who # "user" /\ at \in DOMAIN Script => Possible(Script[at])
=============================================================================
