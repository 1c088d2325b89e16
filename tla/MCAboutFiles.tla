------------------------------ MODULE MCAboutFiles ------------------------------
(***************************************************************************)
(* AboutFiles for TLC: a package foo with an sdist and a wheel of version 1 *)
(* and a wheel of version 2, whose filename says Foo; the server has a     *)
(* version 3.                                                              *)
(***************************************************************************)
EXTENDS AboutFiles, TLC

CONSTANTS foo1s, foo1w, foo2w, foo3h

MCRank == foo1s :> 1 @@ foo1w :> 2 @@ foo2w :> 3 @@ foo3h :> 4
MCRawName == foo1s :> "foo" @@ foo1w :> "foo" @@ foo2w :> "Foo" @@ foo3h :> "foo"
MCVersion == foo1s :> 1 @@ foo1w :> 1 @@ foo2w :> 2 @@ foo3h :> 3
MCNormalize == [n \in {"foo", "Foo"} |-> "foo"]
MCLicense == {"mit", "apache", "public-domain"}
MCLicenseKeys == "" :> {} @@ "mit" :> {"mit.LICENSE"} @@ "apache" :> {"apache.LICENSE"}
                 @@ "public-domain" :> {"public-domain.LICENSE"}
MCLicenseFile == {"mit.LICENSE", "apache.LICENSE", "public-domain.LICENSE", "COPYING"}
MCCopyright == {"foo authors", "foo maintainers", "bar authors"}
MCHolder == [c \in MCCopyright |-> IF c = "bar authors" THEN "bar" ELSE "foo"]

\* An ABOUT file with nothing but these two fields.
Basic(expression, statement) ==
  [package_url |-> TRUE, license_expression |-> expression, copyright |-> statement,
   notice_file |-> FALSE, licenses |-> {}, extra_data |-> NoExtra, md5 |-> 1,
   download_url |-> TRUE]
WithNotice(a) == [a EXCEPT !.notice_file = TRUE]
WithLicenseFile(a) == [a EXCEPT !.extra_data.license_file = "COPYING"]
WithLicenses(a) == [a EXCEPT !.licenses = {"COPYING"}]
WithClassifiers(a) == [a EXCEPT !.extra_data.classifiers = TRUE]
OfAnother(a) == [a EXCEPT !.package_url = FALSE]

MCInitialAbouts ==
  {foo1s :> a @@ foo1w :> b @@ foo2w :> Absent :
     a \in {WithNotice(Basic("mit", "foo authors"))},
     b \in {OfAnother(Basic("apache", "bar authors")), WithLicenses(Basic("apache", ""))}} \cup
  {foo1s :> Absent @@ foo1w :> b @@
   foo2w :> WithClassifiers(WithLicenseFile(Basic("public-domain", ""))) :
     b \in {OfAnother(Basic("apache", "bar authors")), Basic("apache", "")}}
MCInitialNotice == foo1s :> "thanks" @@ foo1w :> Absent @@ foo2w :> Absent

MCRemoteAbout ==
  foo1s :> WithNotice(Basic("apache", "foo maintainers")) @@ foo1w :> Absent
  @@ foo2w :> OfAnother(Basic("mit", "bar authors")) @@ foo3h :> Basic("mit", "foo maintainers")
MCRemoteNotice == foo1s :> "thanks" @@ foo1w :> "" @@ foo2w :> "" @@ foo3h :> ""
MCPkgInfo ==
  foo1s :> Absent @@
  foo1w :> [license_expression |-> "", copyright |-> "foo authors", classifiers |-> TRUE] @@
  foo2w :> [license_expression |-> "apache", copyright |-> "foo authors", classifiers |-> TRUE]

MCPage == <<[scheme |-> FALSE, rooted |-> TRUE, file |-> "mit.LICENSE"],
            [scheme |-> FALSE, rooted |-> FALSE, file |-> "apache.LICENSE"],
            [scheme |-> TRUE, rooted |-> TRUE, file |-> "COPYING"]>>

\* Only the wheel of foo 1 has an ABOUT file.
MCWheelAbout ==
  {foo1s :> Absent @@ foo2w :> Absent @@ foo1w :> Basic("mit", "foo authors")}
================================================================================
