------------------------------ MODULE Spelling ------------------------------
(***************************************************************************)
(* What the conversions of Names are to compute, of every name up to a     *)
(* length and of every short list of versions: a behaviour spells out one  *)
(* name or one list.                                                       *)
(***************************************************************************)
EXTENDS Names

CONSTANTS
  MaxLength,     \* bound: the length of a name
  MaxVersions    \* bound: the length of a list

VARIABLES spelled, versions

Blank == spelled = <<>> /\ versions = <<>>

AddChar(c) ==
  /\ versions = <<>> /\ Len(spelled) < MaxLength
  /\ spelled' = Append(spelled, c) /\ UNCHANGED versions

AddVersion(v) ==
  /\ spelled = <<>> /\ Len(versions) < MaxVersions
  /\ versions' = Append(versions, v) /\ UNCHANGED spelled

Spell == (\E c \in Char : AddChar(c)) \/ (\E v \in Semver : AddVersion(v))

Spelling == Blank /\ [][Spell]_<<spelled, versions>>

-----------------------------------------------------------------------------

\* The characters of a name that normalizeName keeps: of a run of separators the first.
Kept(name) == {i \in DOMAIN name : \/ name[i] \notin Separator
                                   \/ i = 1 \/ name[i - 1] \notin Separator}

\* A project has one normalised name however it is spelled: the pass is a
\* canonical form (PEP 503), as metadata's lookups by name need it.
NamesNormalise ==
  LET n == normalizeName(spelled) IN
  /\ Len(n) = Cardinality(Kept(spelled))
  /\ \A i \in Kept(spelled) : n[Cardinality({j \in Kept(spelled) : j <= i})] =
       IF spelled[i] \in Separator THEN "-" ELSE ToLower(spelled[i])
  /\ normalizeName(n) = n

\* A sanitised group, name or version is one proper path component: not empty,
\* of safe characters, neither "." nor "..", and sanitising it again changes
\* nothing, so that the JSON and the multipart publish agree on the key.
NamesAreComponents ==
  LET n == sanitizeName(spelled) IN
  /\ n # <<>>
  /\ n # <<"package">> =>
       /\ \A i \in DOMAIN n : n[i] \in SafeChar
       /\ n[1] \notin Separator /\ Last(n) \notin Separator
       /\ \A i \in 1 .. Len(n) - 1 : ~(n[i] = "-" /\ n[i + 1] = "-")
       /\ sanitizeName(n) = n

\* The path in a request names the module that was published, and no other: on
\* paths without "!" encoding and decoding are inverse to each other, and every
\* path that decodes is the encoding of what it decodes to.
PathsRoundTrip ==
  /\ "!" \notin Range(spelled) => decodeModulePath(encodeModulePath(spelled)) = spelled
  /\ decodeModulePath(spelled) # Invalid =>
       encodeModulePath(decodeModulePath(spelled)) = spelled

\* @latest is a listed release than which no listed release is higher, a
\* pre-release only if no release is listed, and nothing only if nothing valid
\* is.  The npm tag "latest" is a listed version, but for its "v" if it has one,
\* than which none is higher, or else the last of the list.  And sortVersions,
\* which the fallback of @latest relies on, has a weak order.
LatestIsHighest ==
  LET latest   == latestVersion(versions)
      listed   == Range(versions)
      valid    == {s \in listed : IsValid(s)}
      releases == {s \in valid : s.pre = 0}
      among    == IF releases = {} THEN valid ELSE releases
      tag      == npmLatestVersion(versions)
      tagged   == {s \in listed : s.valid}
  IN /\ IF valid = {} THEN latest = NoVersion
        ELSE latest \in among /\ \A s \in among : ~Precedes(latest, s)
     /\ IF tagged # {}
        THEN /\ ~tag.prefixed /\ (tag \in listed \/ WithV(tag) \in listed)
             /\ tag.valid /\ \A s \in tagged : ~Precedes(tag, s)
        ELSE versions # <<>> => tag = Last(versions)
     /\ \A a, b, c \in listed :
          /\ ~(SortsBefore(a, b) /\ SortsBefore(b, a))
          /\ SortsBefore(a, b) => SortsBefore(a, c) \/ SortsBefore(c, b)

=============================================================================
