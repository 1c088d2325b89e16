------------------------------ MODULE PackagesProofs ------------------------------
(***************************************************************************)
(* What the operators of Tags and Packages give for any platforms, names   *)
(* and ranks: the tags of an environment, first and last files, and the    *)
(* packages of a list of files.                                            *)
(*                                                                         *)
(* Induction is by a least counterexample, which WFMin gives for a set of  *)
(* naturals that is not empty.                                             *)
(***************************************************************************)
EXTENDS Packages, FiniteSetTheorems, WellFoundedInduction, TLAPS

\* A set of naturals that is not empty has a least one.
LEMMA LeastOfNaturals ==
  ASSUME NEW S \in SUBSET Nat, S # {}
  PROVE  \E m \in S : \A n \in S : m <= n
<1>1. PICK m \in S : \A n \in S : ~ (<<n, m>> \in OpToRel(<, Nat))
  BY NatLessThanWellFounded, WFMin
<1>2. \A n \in S : n \in Nat /\ m \in Nat /\ ~ (n < m)
  BY <1>1 DEF OpToRel
<1> QED
  BY <1>2

--------------------------------------------------------------------------------
(***************************************************************************)
(* The platforms of an environment                                         *)
(***************************************************************************)

Brings(platforms, i) == GetCustomPlatforms(platforms[i])

\* What is seen after one more platform.
Grown(before, platform) ==
  before \cup (IF platform \in before THEN {} ELSE GetCustomPlatforms(platform))

\* What is seen after each of the first n platforms.
SeenUpTo(g, platforms, n) ==
  g = [i \in 0..n |-> IF i = 0 THEN {} ELSE Grown(g[i - 1], platforms[i])]

\* The recursion of _expand_allowed_platforms has a solution.
LEMMA SeenExists ==
  ASSUME NEW platforms, NEW n \in Nat
  PROVE  \E g : SeenUpTo(g, platforms, n)
<1> DEFINE Bad == {m \in Nat : ~ \E g : SeenUpTo(g, platforms, m)}
<1> SUFFICES ASSUME Bad # {} PROVE FALSE
  OBVIOUS
<1>1. PICK m \in Bad : \A k \in Bad : m <= k
  BY LeastOfNaturals
<1>2. CASE m = 0
  <2> DEFINE g == [i \in 0..0 |-> {}]
  <2>1. SeenUpTo(g, platforms, 0)
    BY DEF SeenUpTo
  <2> QED
    BY <1>2, <2>1
<1>3. CASE m # 0
  <2>1. m \in Nat /\ m - 1 \in Nat /\ ~ (m <= m - 1)
    BY <1>3
  <2>2. PICK h : SeenUpTo(h, platforms, m - 1)
    BY <1>1, <2>1
  <2> DEFINE g == [i \in 0..m |-> IF i = m THEN Grown(h[m - 1], platforms[m]) ELSE h[i]]
  <2>3. ASSUME NEW i \in 0..m
        PROVE  g[i] = IF i = 0 THEN {} ELSE Grown(g[i - 1], platforms[i])
    <3>1. CASE i = m
      BY <1>3, <2>1, <3>1
    <3>2. CASE i # m
      <4>1. i \in 0..(m - 1)
        BY <2>1, <3>2
      <4>2. h[i] = IF i = 0 THEN {} ELSE Grown(h[i - 1], platforms[i])
        BY <2>2, <4>1 DEF SeenUpTo
      <4>3. i # 0 => i - 1 \in 0..m /\ i - 1 # m
        BY <2>1, <4>1
      <4> QED
        BY <3>2, <4>2, <4>3
    <3> QED
      BY <3>1, <3>2
  <2>4. g = [i \in 0..m |-> g[i]]
    OBVIOUS
  <2> HIDE DEF g
  <2>5. SeenUpTo(g, platforms, m)
    BY <2>3, <2>4 DEF SeenUpTo
  <2> QED
    BY <2>5
<1> QED
  BY <1>2, <1>3

\* What is seen comes from the platforms so far, and what one of them brings that
\* no earlier one brings stays seen.
LEMMA SeenIsBrought ==
  ASSUME NEW platforms, NEW n \in Nat, NEW g, SeenUpTo(g, platforms, n)
  PROVE  \A m \in 0..n :
           /\ \A p \in g[m] : \E i \in 1..m : p \in Brings(platforms, i)
           /\ \A i \in 1..m :
                (\A j \in 1..(i - 1) : platforms[i] \notin Brings(platforms, j))
                  => Brings(platforms, i) \subseteq g[m]
<1> DEFINE From(m) == \A p \in g[m] : \E i \in 1..m : p \in Brings(platforms, i)
           Keeps(m) == \A i \in 1..m :
             (\A j \in 1..(i - 1) : platforms[i] \notin Brings(platforms, j))
               => Brings(platforms, i) \subseteq g[m]
           Bad == {m \in 0..n : ~ (From(m) /\ Keeps(m))}
<1> SUFFICES ASSUME Bad # {} PROVE FALSE
  OBVIOUS
<1>1. PICK m \in Bad : \A k \in Bad : m <= k
  <2>1. Bad \in SUBSET Nat
    OBVIOUS
  <2> QED
    BY <2>1, LeastOfNaturals
<1>2. g[m] = IF m = 0 THEN {} ELSE Grown(g[m - 1], platforms[m])
  BY DEF SeenUpTo
<1>3. CASE m = 0
  BY <1>2, <1>3
<1>4. CASE m # 0
  <2>1. m \in 1..n /\ m - 1 \in 0..n /\ ~ (m <= m - 1)
    BY <1>4
  <2>2. From(m - 1) /\ Keeps(m - 1)
    BY <1>1, <2>1
  <2>3. g[m] = g[m - 1] \cup (IF platforms[m] \in g[m - 1] THEN {} ELSE Brings(platforms, m))
    BY <1>2, <1>4 DEF Grown, Brings
  <2>4. From(m)
    <3> SUFFICES ASSUME NEW p \in g[m] PROVE \E i \in 1..m : p \in Brings(platforms, i)
      OBVIOUS
    <3>1. CASE p \in g[m - 1]
      <4>1. PICK i \in 1..(m - 1) : p \in Brings(platforms, i)
        BY <2>2, <3>1
      <4> QED
        BY <2>1, <4>1
    <3>2. CASE p \notin g[m - 1]
      BY <2>1, <2>3, <3>2
    <3> QED
      BY <3>1, <3>2
  <2>5. Keeps(m)
    <3> SUFFICES ASSUME NEW i \in 1..m,
                        \A j \in 1..(i - 1) : platforms[i] \notin Brings(platforms, j)
                 PROVE  Brings(platforms, i) \subseteq g[m]
      OBVIOUS
    <3>1. CASE i = m
      <4>1. platforms[m] \notin g[m - 1]
        BY <2>2, <3>1
      <4> QED
        BY <2>3, <3>1, <4>1
    <3>2. CASE i # m
      <4>1. i \in 1..(m - 1)
        BY <2>1, <3>2
      <4>2. Brings(platforms, i) \subseteq g[m - 1]
        BY <2>2, <4>1
      <4> QED
        BY <2>3, <4>2
    <3> QED
      BY <3>1, <3>2
  <2> QED
    BY <1>1, <2>4, <2>5
<1> QED
  BY <1>3, <1>4

\* A platform that is not lost is expanded just when a listed one brings it.
LEMMA ExpandedPlatforms ==
  ASSUME NEW platforms, Len(platforms) \in Nat, DOMAIN platforms = 1..Len(platforms),
         NEW platform, LosesNothing(platform, platforms)
  PROVE  platform \in ExpandAllowedPlatforms(platforms)
           <=> \E i \in DOMAIN platforms : platform \in Brings(platforms, i)
<1> DEFINE n == Len(platforms)
           seen == CHOOSE g :
             g = [i \in 0..n |->
                    IF i = 0 THEN {}
                    ELSE g[i - 1] \cup (IF platforms[i] \in g[i - 1] THEN {}
                                        ELSE GetCustomPlatforms(platforms[i]))]
<1>1. ExpandAllowedPlatforms(platforms) = seen[n]
  BY DEF ExpandAllowedPlatforms
<1>2. SeenUpTo(seen, platforms, n)
  <2>1. \E g : SeenUpTo(g, platforms, n)
    BY SeenExists
  <2> QED
    BY <2>1 DEF SeenUpTo, Grown
<1> HIDE DEF seen
<1>3. n \in 0..n
  OBVIOUS
<1>4. /\ \A p \in seen[n] : \E i \in 1..n : p \in Brings(platforms, i)
      /\ \A i \in 1..n :
           (\A j \in 1..(i - 1) : platforms[i] \notin Brings(platforms, j))
             => Brings(platforms, i) \subseteq seen[n]
  BY <1>2, <1>3, SeenIsBrought
<1>5. (\E i \in DOMAIN platforms : platform \in Brings(platforms, i)) =>
        \E i \in DOMAIN platforms :
          /\ platform \in Brings(platforms, i)
          /\ \A j \in 1..(i - 1) : platforms[i] \notin Brings(platforms, j)
  BY DEF LosesNothing, Brings
<1> QED
  BY <1>1, <1>4, <1>5

--------------------------------------------------------------------------------
(***************************************************************************)
(* The tags of an environment                                              *)
(***************************************************************************)

LEMMA EnvironmentPlatforms ==
  ASSUME NEW environment \in Environment
  PROVE  /\ \E os \in OperatingSystem : environment.platforms = PlatformsByOs[os]
         /\ environment.platforms \in Seq(Seq(STRING))
         /\ StableAbi \in environment.abis
<1>1. PICK minor \in PythonMinors, os \in OperatingSystem :
        environment = from_pyver_and_os(minor, os)
  BY DEF Environment
<1> QED
  BY <1>1, PlatformsAssumption DEF from_pyver_and_os

\* An environment has the tags that fit it, but for those of a lost platform.
THEOREM TagsAreExact ==
  ASSUME NEW environment \in Environment, NEW interpreter, NEW abi, NEW platform,
         LosesNothing(platform, environment.platforms)
  PROVE  <<interpreter, abi, platform>> \in TagsOf(environment)
           <=> Fits(<<interpreter, abi, platform>>, environment)
<1> DEFINE minor == environment.minor
           expanded == ExpandAllowedPlatforms(environment.platforms)
           cp == <<"cp", 3, minor>>
           older == {<<"cp", 3, n>> : n \in 2..minor}
           generic == {<<"py", 3>>} \cup {<<"py", 3, n>> : n \in 0..minor}
<1>1. platform \in expanded <=> RunsOn(platform, environment)
  <2>1. /\ Len(environment.platforms) \in Nat
        /\ DOMAIN environment.platforms = 1..Len(environment.platforms)
    BY EnvironmentPlatforms
  <2> QED
    BY <2>1, ExpandedPlatforms DEF RunsOn, Brings
<1> HIDE DEF expanded, cp, older, generic, minor
<1>2. environment.abis \cup {StableAbi, NoAbi} = environment.abis \cup {NoAbi}
  BY EnvironmentPlatforms
<1>3. <<interpreter, abi, platform>> \in CpythonTags(minor, environment.abis, expanded)
        <=> platform \in expanded
              /\ \/ interpreter = cp /\ abi \in environment.abis \cup {NoAbi}
                 \/ interpreter \in older /\ abi = StableAbi
  BY <1>2 DEF CpythonTags, cp, older
<1>4. <<interpreter, abi, platform>> \in CompatibleTags(minor, expanded)
        <=> \/ interpreter \in generic /\ abi = NoAbi /\ platform \in expanded \cup {AnyPlatform}
            \/ interpreter = cp /\ abi = NoAbi /\ platform = AnyPlatform
  BY DEF CompatibleTags, cp, generic
<1>5. Fits(<<interpreter, abi, platform>>, environment)
        <=> \/ RunsOn(platform, environment)
               /\ \/ interpreter = cp /\ abi \in environment.abis \cup {NoAbi}
                  \/ interpreter \in older /\ abi = StableAbi
                  \/ interpreter \in generic /\ abi = NoAbi
            \/ platform = AnyPlatform /\ abi = NoAbi /\ interpreter \in generic \cup {cp}
  BY DEF Fits, cp, older, generic, minor
<1>6. TagsOf(environment) = CpythonTags(minor, environment.abis, expanded)
                              \cup CompatibleTags(minor, expanded)
  BY DEF TagsOf, expanded, minor
<1> QED
  BY <1>1, <1>3, <1>4, <1>5, <1>6

\* A wheel is supported just when one of its tags fits the environment.
LEMMA SupportedFits ==
  ASSUME NEW f \in FileName, IsWheelName(f), NEW environment \in Environment
  PROVE  is_supported_by_tags(f, EnvironmentTags[environment])
           <=> \E tag \in WheelTags(f) : Fits(tag, environment)
<1>1. ASSUME NEW tag \in WheelTags(f)
      PROVE  tag \in TagsOf(environment) <=> Fits(tag, environment)
  <2>1. PICK interpreter, abi, platform : tag = <<interpreter, abi, platform>>
    BY DEF WheelTags
  <2>2. platform \in WheelPlatforms
    BY <2>1 DEF WheelPlatforms
  <2>3. LosesNothing(platform, environment.platforms)
    BY <2>2, EnvironmentPlatforms, SkippingAssumption
  <2> QED
    BY <2>1, <2>3, TagsAreExact
<1> QED
  BY <1>1 DEF is_supported_by_tags, EnvironmentTags

--------------------------------------------------------------------------------
(***************************************************************************)
(* First and last files                                                    *)
(***************************************************************************)

LEMMA FirstIsIn ==
  ASSUME NEW files \in SUBSET FileName, files # {}, NEW rank \in [FileName -> Nat]
  PROVE  First(files, rank) \in files
<1> DEFINE Ranks == {rank[f] : f \in files}
<1>1. Ranks \in SUBSET Nat /\ Ranks # {}
  OBVIOUS
<1>2. PICK r \in Ranks : \A s \in Ranks : r <= s
  BY <1>1, LeastOfNaturals
<1>3. \E f \in files : \A g \in files : rank[f] <= rank[g]
  BY <1>2
<1> QED
  BY <1>3 DEF First

\* A finite set has a last one: of a smallest set that has none, those that come
\* after one of its members would be a smaller one.
LEMMA LatestIsThere ==
  ASSUME NEW files \in SUBSET FileName, files # {}, IsFiniteSet(files),
         NEW rank \in [FileName -> Nat]
  PROVE  Latest(files, rank) # {}
<1> DEFINE Bad == {n \in Nat : \E S \in SUBSET files :
                     /\ S # {} /\ Cardinality(S) = n /\ IsFiniteSet(S)
                     /\ \A f \in S : \E g \in S : ~ (rank[g] <= rank[f])}
<1>1. SUFFICES ASSUME Latest(files, rank) = {} PROVE FALSE
  OBVIOUS
<1>2. \A f \in files : \E g \in files : ~ (rank[g] <= rank[f])
  BY <1>1 DEF Latest
<1>3. Bad # {}
  <2>1. Cardinality(files) \in Nat
    BY FS_CardinalityType
  <2> QED
    BY <1>2, <2>1
<1>4. PICK n \in Bad : \A m \in Bad : n <= m
  <2>1. Bad \in SUBSET Nat
    OBVIOUS
  <2> QED
    BY <1>3, <2>1, LeastOfNaturals
<1>5. PICK S \in SUBSET files :
        /\ S # {} /\ Cardinality(S) = n /\ IsFiniteSet(S)
        /\ \A f \in S : \E g \in S : ~ (rank[g] <= rank[f])
  BY <1>4
<1>6. PICK f \in S : TRUE
  BY <1>5
<1> DEFINE T == {g \in S : ~ (rank[g] <= rank[f])}
<1>7. T \in SUBSET S /\ T # {} /\ f \notin T
  BY <1>5
<1>8. IsFiniteSet(T) /\ Cardinality(T) \in Nat /\ ~ (n <= Cardinality(T))
  <2>1. n \in Nat
    OBVIOUS
  <2>2. IsFiniteSet(S \ {f}) /\ Cardinality(S \ {f}) = n - 1
    BY <1>5, <1>6, FS_RemoveElement
  <2>3. T \in SUBSET (S \ {f})
    BY <1>7
  <2> HIDE DEF T, Bad
  <2>4. IsFiniteSet(T) /\ Cardinality(T) <= n - 1
    BY <2>2, <2>3, FS_Subset
  <2>5. Cardinality(T) \in Nat
    BY <2>4, FS_CardinalityType
  <2> QED
    BY <2>1, <2>4, <2>5
<1>9. \A g \in T : \E h \in T : ~ (rank[h] <= rank[g])
  <2> SUFFICES ASSUME NEW g \in T PROVE \E h \in T : ~ (rank[h] <= rank[g])
    OBVIOUS
  <2>1. PICK h \in S : ~ (rank[h] <= rank[g])
    BY <1>5
  <2>2. rank[f] \in Nat /\ rank[g] \in Nat /\ rank[h] \in Nat /\ ~ (rank[g] <= rank[f])
    BY <1>5
  <2> QED
    BY <2>1, <2>2
<1>10. Cardinality(T) \in Bad
  <2> HIDE DEF T
  <2> QED
    BY <1>5, <1>7, <1>8, <1>9
<1> QED
  BY <1>4, <1>8, <1>10

--------------------------------------------------------------------------------
(***************************************************************************)
(* Packages                                                                *)
(***************************************************************************)

\* The distributions that become one package with f.
SameKey(f, files) == {g \in {h \in files : IsDist(h)} : SortKey(g) = SortKey(f)}

PackageOf(f, files, rank) == PackageFromDists(SameKey(f, files), rank)

LEMMA PackagesAreOfFiles ==
  ASSUME NEW files, NEW rank
  PROVE  PackagesFrom(files, rank) = {PackageOf(f, files, rank) : f \in {h \in files : IsDist(h)}}
<1> QED
  BY DEF PackagesFrom, PackageOf, SameKey

LEMMA SortKeys ==
  ASSUME NEW f, NEW g
  PROVE  SortKey(f) = SortKey(g)
           <=> NameOf(f) = NameOf(g) /\ Ordinal[VersionOf(f)] = Ordinal[VersionOf(g)]
<1> QED
  BY DEF SortKey

LEMMA VersionsAreOrdered ==
  ASSUME NEW f \in FileName, IsDist(f)
  PROVE  Ordinal[VersionOf(f)] \in Nat
<1>1. f.parts \in Seq(Part) /\ Len(f.parts) >= 2
  BY FileNamesAssumption DEF IsDist, IsWheelName, IsSdistName
<1>2. f.parts[2] \in Part /\ Last(f.parts) \in Part
  BY <1>1 DEF Last
<1> QED
  BY <1>2, FileNamesAssumption DEF VersionOf

\* A package has the name and the version of its files, up to spelling.
LEMMA PackageOfFile ==
  ASSUME NEW files \in SUBSET FileName, NEW f \in files, IsDist(f),
         NEW rank \in [FileName -> Nat]
  PROVE  /\ \E g \in SameKey(f, files) : PackageOf(f, files, rank).version = VersionOf(g)
         /\ PackageOf(f, files, rank).name = NameOf(f)
         /\ Ordinal[PackageOf(f, files, rank).version] = Ordinal[VersionOf(f)]
         /\ PackageOf(f, files, rank).wheels = {g \in SameKey(f, files) : IsWheel(g)}
         /\ PackageOf(f, files, rank).sdist =
              Latest({g \in SameKey(f, files) : ~ IsWheel(g)}, rank)
<1> DEFINE first == First(SameKey(f, files), rank)
<1>1. first \in SameKey(f, files)
  <2>1. f \in SameKey(f, files) /\ SameKey(f, files) \in SUBSET FileName
    BY DEF SameKey
  <2> QED
    BY <2>1, FirstIsIn
<1>2. NameOf(first) = NameOf(f) /\ Ordinal[VersionOf(first)] = Ordinal[VersionOf(f)]
  <2>1. SortKey(first) = SortKey(f)
    BY <1>1 DEF SameKey
  <2> QED
    BY <2>1, SortKeys
<1>3. PackageOf(f, files, rank) =
        [name |-> NameOf(first), version |-> VersionOf(first),
         sdist |-> Latest({g \in SameKey(f, files) : ~ IsWheel(g)}, rank),
         wheels |-> {g \in SameKey(f, files) : IsWheel(g)}]
  BY DEF PackageOf, PackageFromDists
<1> HIDE DEF first
<1> QED
  BY <1>1, <1>2, <1>3

\* Files of one name and of equal versions become one package, in whatever spelling
\* their versions are and in whatever order they are listed.
THEOREM OnePackagePerVersion ==
  ASSUME NEW files \in SUBSET FileName, NEW rank \in [FileName -> Nat],
         NEW p \in PackagesFrom(files, rank), NEW q \in PackagesFrom(files, rank),
         p.name = q.name, Ordinal[p.version] = Ordinal[q.version]
  PROVE  p = q
<1>1. PICK f \in files : IsDist(f) /\ p = PackageOf(f, files, rank)
  BY PackagesAreOfFiles
<1>2. PICK g \in files : IsDist(g) /\ q = PackageOf(g, files, rank)
  BY PackagesAreOfFiles
<1>3. p.name = NameOf(f) /\ Ordinal[p.version] = Ordinal[VersionOf(f)]
  BY <1>1, PackageOfFile
<1>4. q.name = NameOf(g) /\ Ordinal[q.version] = Ordinal[VersionOf(g)]
  BY <1>2, PackageOfFile
<1>5. SortKey(f) = SortKey(g)
  BY <1>3, <1>4, SortKeys
<1>6. SameKey(f, files) = SameKey(g, files)
  BY <1>5 DEF SameKey
<1> QED
  BY <1>1, <1>2, <1>6 DEF PackageOf

\* Each distribution is in one package: a wheel in its wheels; of its sdists the
\* package keeps one.
THEOREM NoDistributionIsDropped ==
  ASSUME NEW files \in SUBSET FileName, IsFiniteSet(files), NEW rank \in [FileName -> Nat],
         NEW f \in files, IsDist(f)
  PROVE  /\ PackageOf(f, files, rank) \in PackagesFrom(files, rank)
         /\ IsWheel(f) => f \in PackageOf(f, files, rank).wheels
         /\ ~ IsWheel(f) => PackageOf(f, files, rank).sdist # {}
         /\ \A p \in PackagesFrom(files, rank) :
              f \in p.wheels => p = PackageOf(f, files, rank)
<1>1. PackageOf(f, files, rank) \in PackagesFrom(files, rank)
  BY PackagesAreOfFiles
<1>2. IsWheel(f) => f \in PackageOf(f, files, rank).wheels
  <2>1. f \in SameKey(f, files)
    BY DEF SameKey
  <2>2. PackageOf(f, files, rank).wheels = {g \in SameKey(f, files) : IsWheel(g)}
    BY PackageOfFile
  <2> QED
    BY <2>1, <2>2
<1>3. ASSUME ~ IsWheel(f)
      PROVE  PackageOf(f, files, rank).sdist # {}
  <2> DEFINE sdists == {g \in SameKey(f, files) : ~ IsWheel(g)}
  <2>1. sdists \in SUBSET files /\ sdists # {}
    BY <1>3 DEF SameKey
  <2> HIDE DEF sdists
  <2>2. IsFiniteSet(sdists)
    BY <2>1, FS_Subset
  <2>3. Latest(sdists, rank) # {}
    BY <2>1, <2>2, LatestIsThere
  <2> QED
    BY <2>3, PackageOfFile DEF sdists
<1>4. ASSUME NEW p \in PackagesFrom(files, rank), f \in p.wheels
      PROVE  p = PackageOf(f, files, rank)
  <2>1. PICK g \in files : IsDist(g) /\ p = PackageOf(g, files, rank)
    BY PackagesAreOfFiles
  <2>2. f \in SameKey(g, files)
    <3>1. p.wheels = {h \in SameKey(g, files) : IsWheel(h)}
      BY <2>1, PackageOfFile
    <3> QED
      BY <1>4, <3>1
  <2>3. SameKey(f, files) = SameKey(g, files)
    BY <2>2 DEF SameKey
  <2> QED
    BY <2>1, <2>3 DEF PackageOf
<1> QED
  BY <1>1, <1>2, <1>3, <1>4
================================================================================
