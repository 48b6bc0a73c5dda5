------------------------------ MODULE TestFiles ------------------------------
(***************************************************************************)
(* The files that the tests of backup, compare and restore work with: what *)
(* is in the archives under test/data, and the rules of the location that  *)
(* TestWithServer::SetupDefaultLocation makes for them.  A node goes by    *)
(* its name, or by its path where there are two of that name.              *)
(***************************************************************************)
EXTENDS Naturals, FiniteSets, TLC

\* what is in a directory, at any time of any test
Contents ==
    "testdata" :> {"spacetest", "x1", "dir23", "sub23", "anotehr", "exclude_dir",
                   "exclude_dir_2", "xx_not_this_dir_ALWAYSINCLUDE", "renamed-dir",
                   "symlink-to-dir", "f1.dat", "symlink1", "df324", "df9834.dsf", "f45.df",
                   "symlink3", "xx_not_this_dir_22", "excluded_1", "excluded_2", "zEXCLUDEu",
                   "dont.excludethis", "chsh", "apropos", "read-fail-test-file",
                   "continuous-update", "df324-ren", "find2perl-ren"}
 @@ "spacetest" :> {"f1", "f2", "d1", "d2", "d3", "d6", "d7"}
 @@ "d1" :> {"f3", "f4"} @@ "d2" :> {"f6"} @@ "d3" :> {"d4"} @@ "d4" :> {"f5"}
 @@ "d6" :> {"d8"} @@ "d8" :> {"f7"} @@ "d7" :> {}
 @@ "x1" :> {"dsfdsfs98.fd", "cxfxcv", "dir-to-file"} @@ "cxfxcv" :> {".profile"}
 @@ "dir-to-file" :> {"contents", "contents2"}
 @@ "sub23" :> {"pem2.h", "pkcs12.h", "pkcs7.h", "rand.h", "dhsfdss", "ping!", "error",
                "false", "find2perl", "sub23/xx_not_this_dir_22", "somefile.excludethis",
                "read-fail-test-dir", "in-the-future"}
 @@ "dhsfdss" :> {"bfdlink.h", "bitstring.h", "blf.h", "dfsfd", "dsfsfdslkjfkdsjf"}
 @@ "dfsfd" :> {"a.out.h"} @@ "ping!" :> {"apply"}
 @@ "anotehr" :> {"nameser.h", "telnet.h", "tftp.h"}
 @@ "renamed-dir" :> {"new/bfdlink.h", "new/bitstring.h", "new/blf.h", "new/dfsfd",
                      "new/dsfsfdslkjfkdsjf"}
 @@ "new/dfsfd" :> {"new/a.out.h"}

TestNodes == {"testdata"} \cup UNION {Contents[d] : d \in DOMAIN Contents}

TestParent == [n \in TestNodes |-> IF n = "testdata" THEN n
                                   ELSE CHOOSE d \in DOMAIN Contents : n \in Contents[d]]

\* the archives
Archive ==
    [spacetest1 |-> {"spacetest", "f1", "f2", "d1", "f3", "f4", "d2", "d3", "d4", "f5",
                     "d6", "d7"},
     spacetest2 |-> {"spacetest", "d2", "f6", "d6", "d8", "f7"},
     test_base  |-> {"f1.dat", "x1", "dsfdsfs98.fd", "cxfxcv", ".profile", "symlink1",
                     "df324", "df9834.dsf", "f45.df", "symlink3", "dir23"},
     test2      |-> {"sub23", "pem2.h", "pkcs12.h", "pkcs7.h", "rand.h", "dhsfdss",
                     "bfdlink.h", "bitstring.h", "blf.h", "dfsfd", "a.out.h",
                     "dsfsfdslkjfkdsjf", "anotehr", "nameser.h", "telnet.h", "tftp.h"},
     testexclude |-> {"exclude_dir", "exclude_dir_2", "sub23", "sub23/xx_not_this_dir_22",
                      "somefile.excludethis", "xx_not_this_dir_22", "excluded_1",
                      "excluded_2", "zEXCLUDEu", "dont.excludethis",
                      "xx_not_this_dir_ALWAYSINCLUDE"},
     test3      |-> {"chsh", "sub23", "error", "false", "find2perl", "dhsfdss", "blf.h",
                     "ping!", "apply", "pkcs12.h", "pkcs7.h", "apropos"}]

\* those of the entries that are directories
ArchivedDirs ==
    {"spacetest", "d1", "d2", "d3", "d4", "d6", "d7", "d8", "x1", "cxfxcv", "dir23", "sub23",
     "dhsfdss", "dfsfd", "dsfsfdslkjfkdsjf", "anotehr", "exclude_dir", "exclude_dir_2",
     "sub23/xx_not_this_dir_22", "xx_not_this_dir_ALWAYSINCLUDE", "ping!"}

\* what the rules of the default location match
DefaultExcluded ==
    {"excluded_1", "excluded_2", "somefile.excludethis", "zEXCLUDEu",
     "exclude_dir", "exclude_dir_2", "sub23/xx_not_this_dir_22"}
=============================================================================
