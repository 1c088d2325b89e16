----------------------------- MODULE MCSimpleIndex -----------------------------
(***************************************************************************)
(* SimpleIndex for TLC: two spellings of a name, two texts of a version,   *)
(* wheels with and without a build tag, and files that the generator and   *)
(* the readers take for different things.                                  *)
(***************************************************************************)
EXTENDS SimpleIndex, TLC

File_(parts, extension) == [parts |-> parts, extension |-> extension, hidden |-> FALSE]

pureWheel    == File_(<<"foo", "1.0.0", "py2.py3", "none", "any">>, ".whl")
sdist        == File_(<<"foo", "1.0">>, ".tar.gz")
zip          == File_(<<"foo", "1.0">>, ".zip")
newSdist     == File_(<<"foo", "2.0">>, ".zip")
xz           == File_(<<"foo", "2.0">>, ".tar.xz")
bz2          == File_(<<"foo", "2.0">>, ".tar.bz2")
linuxWheel   == File_(<<"Foo_Bar", "2.0", "1", "cp310", "cp310", "manylinux1">>, ".whl")
macWheel     == File_(<<"Foo_Bar", "2.0", "cp38", "abi3", "universal2">>, ".whl")
dashedSdist  == File_(<<"foo", "bar", "2.0">>, ".tar.gz")
binary       == File_(<<"foo", "1.0.linux", "x86_64">>, ".tar.gz")
noVersion    == File_(<<"foo">>, ".zip")
app          == File_(<<"virtualenv">>, ".pyz")
about        == File_(<<"foo", "1.0">>, ".tar.gz.ABOUT")
hiddenSdist  == [sdist EXCEPT !.hidden = TRUE]

\* In the order of the names of the files.
Sorted ==
  <<hiddenSdist, linuxWheel, macWheel, pureWheel, binary, sdist, about, zip, bz2, xz,
    newSdist, dashedSdist, noVersion, app>>
MCFileName == {Sorted[i] : i \in DOMAIN Sorted}
MCRank == [f \in MCFileName |-> CHOOSE i \in DOMAIN Sorted : Sorted[i] = f]

MCWords ==
  [p \in {"foo", "bar", "virtualenv", "any", "none"} |-> <<p>>] @@
  [p \in {"1", "cp310", "cp38", "abi3", "universal2", "manylinux1"} |-> <<p>>] @@
  "Foo_Bar" :> <<"foo", "bar">> @@ "py2.py3" :> <<"py2", "py3">> @@
  "1.0" :> <<"1", "0">> @@ "1.0.0" :> <<"1", "0", "0">> @@ "2.0" :> <<"2", "0">> @@
  "1.0.linux" :> <<"1", "0", "linux">> @@ "x86_64" :> <<"x86", "64">> @@
  "Foo-Bar" :> <<"foo", "bar">> @@ "x86-64" :> <<"x86", "64">>
MCDashed ==
  [p \in DOMAIN MCWords |-> CASE p = "Foo_Bar" -> "Foo-Bar" [] p = "x86_64" -> "x86-64"
                              [] OTHER -> p]
MCOrdinal ==
  [p \in DOMAIN MCWords |-> CASE p = "1.0" -> 1 [] p = "1.0.0" -> 1 [] p = "2.0" -> 2
                              [] OTHER -> 0]
MCNumbered == {"1", "1.0", "1.0.0", "2.0", "1.0.linux"}
MCRefused == {<<"x86_64", p>> : p \in DOMAIN MCWords}
MCPieces ==
  "py2.py3" :> {<<"py", 2>>, <<"py", 3>>} @@ "none" :> {NoAbi} @@ "any" :> {AnyPlatform} @@
  "cp310" :> {<<"cp", 3, 10>>} @@ "cp38" :> {<<"cp", 3, 8>>} @@ "abi3" :> {StableAbi} @@
  "1" :> {<<"1">>} @@
  "manylinux1" :> {<<"manylinux1", "x86_64">>} @@
  "universal2" :> {<<"macosx_10_6", "universal2">>}

MCPlatformsByOs ==
  "linux" :> <<<<"linux", "x86_64">>, <<"manylinux2010", "x86_64">>>> @@
  "macos" :> <<<<"macosx_10_9", "x86_64">>, <<"macosx_10_6", "x86_64">>,
               <<"macosx_10_6", "universal2">>>>
MCMacPlatforms ==
  <<"macosx_10_9", "x86_64">> :>
    {"macosx_10_9", "macosx_10_6"} \X {"x86_64", "intel", "universal2"} @@
  <<"macosx_10_6", "x86_64">> :> {"macosx_10_6"} \X {"x86_64", "intel", "universal2"} @@
  <<"macosx_10_6", "universal2">> :> {"macosx_10_6", "macosx_10_3"} \X {"universal2"}

MCDirectories ==
  {{pureWheel, sdist, about}, {linuxWheel, macWheel, hiddenSdist},
   {sdist, zip, newSdist}, {xz, bz2, binary}, {dashedSdist, app}, {noVersion, app}}
MCChanging == {sdist, linuxWheel}
================================================================================
