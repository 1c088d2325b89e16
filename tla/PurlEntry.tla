------------------------------- MODULE PurlEntry -------------------------------
(***************************************************************************)
(* The keys of a purl map: what create_purl_map_entry makes of the         *)
(* argument it is given.                                                   *)
(*                                                                         *)
(* A PackageURL is a record.  Its namespace and its name are sequences of  *)
(* the non-empty segments that "/" separates in the program's strings, so  *)
(* joining two of them with "/" is concatenation.  A missing namespace     *)
(* (None) is <<>>.  packageurl keeps a "/" that was written as "%2F" in a  *)
(* name: such a name has more than one segment.  The field rest stands for *)
(* the version, the qualifiers and the subpath.                            *)
(***************************************************************************)
EXTENDS Naturals, Sequences

CONSTANTS
  Segment,        \* what stands between two slashes
  PackageURLs,    \* the PackageURL objects in use
  Strings,        \* the strings in use
  Others,         \* arguments that are neither a PackageURL nor a string
  from_string,    \* PackageURL.from_string: what it returns for each string
  Unparsable      \* ... and what stands for its ValueError

ASSUME PackageURLsAssumption ==
  /\ \A p \in PackageURLs : /\ p.type \in Segment
                            /\ p.namespace \in Seq(Segment)
                            /\ p.name \in Seq(Segment) \ {<<>>}

ASSUME FromStringAssumption ==
  /\ from_string \in [Strings -> PackageURLs \cup {Unparsable}]
  /\ Unparsable \notin PackageURLs

ASSUME ArgumentsAssumption ==
  /\ PackageURLs \cap Strings = {}
  /\ PackageURLs \cap Others = {}
  /\ Strings \cap Others = {}

Argument == PackageURLs \cup Strings \cup Others

\* The PackageURL that an argument is, or is converted to.
ToPackageURL(arg) == IF arg \in Strings THEN from_string[arg] ELSE arg

\* The two ways to a ValueError: another type, a string that does not parse.
IsRejected(arg) == arg \in Others \/ ToPackageURL(arg) = Unparsable

EntryOf(p) == IF p.namespace # <<>>
              THEN <<p.type>> \o p.namespace \o p.name
              ELSE <<p.type>> \o p.name

\* Mutant: the namespace is left out.
EntryWithoutNamespace(arg) ==
  <<ToPackageURL(arg).type>> \o ToPackageURL(arg).name

create_purl_map_entry(arg) == EntryOf(ToPackageURL(arg))

Entry == {EntryOf(p) : p \in PackageURLs}

\* The package identity the documentation calls a base PURL.
BasePurl(p) == [type |-> p.type, namespace |-> p.namespace, name |-> p.name]

BasePurls(args) == {BasePurl(ToPackageURL(a)) : a \in args}

\* No name in use contains a "/".
PlainNames == \A p \in PackageURLs : Len(p.name) = 1
================================================================================
