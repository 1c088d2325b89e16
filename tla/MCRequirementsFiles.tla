-------------------------- MODULE MCRequirementsFiles --------------------------
(***************************************************************************)
(* RequirementsFiles for TLC: a package whose new version is spelled in    *)
(* another way, one that has a version that is refused, and one that was   *)
(* installed from a file.                                                  *)
(***************************************************************************)
EXTENDS RequirementsFiles, TLC

Line_(name, version, kind) == [name |-> name, version |-> version, kind |-> kind]

MCSpelling == {"Zope_I", "zope_i", "zope-i", "attrs", "local"}
MCLower == [s \in MCSpelling |-> IF s = "Zope_I" THEN "zope_i" ELSE s]
MCNormalize == [s \in MCSpelling |-> IF s \in {"attrs", "local"} THEN s ELSE "zope-i"]

MCInstallable ==
  {Line_("Zope_I", 1, "pinned"), Line_("zope-i", 2, "pinned"),
   Line_("attrs", 1, "pinned"), Line_("attrs", 2, "refused"),
   Line_("local", 1, "ignored")}

File_(lines) == [exists |-> TRUE, lines |-> lines]
NoFile == [exists |-> FALSE, lines |-> {}]
MCInitialMain ==
  {NoFile, File_({Line_("Zope_I", 2, "pinned"), Line_("attrs", 1, "ignored")}),
   File_({Line_("attrs", 1, "refused")})}
MCInitialDev == {NoFile, File_({<<"zope_i", 2>>})}
================================================================================
