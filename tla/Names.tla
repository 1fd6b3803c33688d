-------------------------------- MODULE Names --------------------------------
(***************************************************************************)
(* The conversions by which the facades turn names into metadata names and *)
(* storage keys, and choose the latest of some versions.  A name is the    *)
(* sequence of its characters; each conversion of the code is one pass     *)
(* from left to right, and Spelling says what it is to compute.            *)
(***************************************************************************)
EXTENDS Naturals, SequencesExt

CONSTANTS
  Lower, Upper,   \* letters
  lowerOf,        \* upper-case letter -> its lower-case form
  Digit,
  Other,          \* the characters that sanitizeName replaces, but for "!"
  \* bounds: the release numbers, the ranks of pre-releases and the build
  \* metadata that versions tell apart
  MaxNumber, MaxPre, MaxBuild

Separator == {"-", "_", "."}
Char == Lower \cup Upper \cup Digit \cup Other \cup Separator \cup {"!"}

\* A character is of one kind, and the letters come in two cases.
ASSUME CharAssumption ==
  /\ lowerOf \in Bijection(Upper, Lower)
  /\ Lower \cap Upper = {}
  /\ (Lower \cup Upper) \cap (Digit \cup Other) = {} /\ Digit \cap Other = {}
  /\ (Lower \cup Upper \cup Digit \cup Other) \cap (Separator \cup {"!"}) = {}
  /\ {"package", "invalid"} \cap Char = {}

ASSUME VersionAssumption == MaxNumber \in Nat /\ MaxPre \in Nat /\ MaxBuild \in Nat

upperOf(c)  == CHOOSE u \in Upper : lowerOf[u] = c
ToLower(c)  == IF c \in Upper THEN lowerOf[c] ELSE c
IsLast(s, c) == s # <<>> /\ Last(s) = c

\* One pass over a sequence: each element, in its turn, is a step from what the
\* elements before it have left.
Pass(step, start, seq) ==
  LET after[i \in 0 .. Len(seq)] == IF i = 0 THEN start ELSE step[after[i - 1]][seq[i]]
  IN after[Len(seq)]

-----------------------------------------------------------------------------
(* PyPI: a run of separators becomes one "-", letters become lower case *)

\* Mutant: each separator becomes a "-".
normalizeName_EachSeparator(name) ==
  [i \in DOMAIN name |-> IF name[i] \in Separator THEN "-" ELSE ToLower(name[i])]

normalizeStep ==
  [out \in Seq(Char) |-> [c \in Char |->
     IF c \notin Separator THEN Append(out, ToLower(c))
     ELSE IF IsLast(out, "-") THEN out ELSE Append(out, "-")]]

normalizeName(name) == Pass(normalizeStep, <<>>, name)

-----------------------------------------------------------------------------
(* Composer: one path component for a group, name or version *)

SafeChar == Lower \cup Digit \cup Separator
safeOf(c) == IF ToLower(c) \in SafeChar THEN ToLower(c) ELSE "-"

sanitizeStep ==
  [out \in Seq(Char) |-> [c \in Char |->
     IF safeOf(c) = "-" /\ IsLast(out, "-") THEN out ELSE Append(out, safeOf(c))]]

\* strings.Trim
TrimSeparators(s) ==
  LET inner == {i \in DOMAIN s : s[i] \notin Separator}
  IN IF inner = {} THEN <<>> ELSE SubSeq(s, Min(inner), Max(inner))

orPackage(s) == IF s = <<>> THEN <<"package">> ELSE s

\* Mutant: the result is not trimmed.
sanitizeName_Untrimmed(name) == orPackage(Pass(sanitizeStep, <<>>, name))

sanitizeName(name) == orPackage(TrimSeparators(Pass(sanitizeStep, <<>>, name)))

-----------------------------------------------------------------------------
(* Go: "!a" stands for "A" in the path of a module *)

encodeStep ==
  [out \in Seq(Char) |-> [c \in Char |->
     IF c \in Upper THEN out \o <<"!", lowerOf[c]>> ELSE Append(out, c)]]

encodeModulePath(path) == Pass(encodeStep, <<>>, path)

Invalid == <<"invalid">>

\* What is written so far, whether a "!" was read last, and that no error was met.
Decoding == [out : Seq(Char), escape : BOOLEAN, ok : BOOLEAN]
NotRead  == [out |-> <<>>, escape |-> FALSE, ok |-> TRUE]
Decoded(s) == IF s.ok /\ ~s.escape THEN s.out ELSE Invalid

\* The letter after a "!".
Escaped(s, c) == [out    |-> IF c \in Lower THEN Append(s.out, upperOf(c)) ELSE s.out,
                  escape |-> FALSE,
                  ok     |-> s.ok /\ c \in Lower]

\* Mutant: an upper-case letter is taken as it is.
decodeModulePath_Lenient(enc) ==
  LET step == [s \in Decoding |-> [c \in Char |->
                 IF s.escape THEN Escaped(s, c)
                 ELSE IF c = "!" THEN [s EXCEPT !.escape = TRUE]
                 ELSE [s EXCEPT !.out = Append(@, c)]]]
  IN Decoded(Pass(step, NotRead, enc))

decodeChar(s, c) ==
  IF s.escape THEN Escaped(s, c)
  ELSE IF c = "!" THEN [s EXCEPT !.escape = TRUE]
  ELSE [s EXCEPT !.out = Append(@, c), !.ok = @ /\ c \notin Upper]

decodeStep == [s \in Decoding |-> [c \in Char |-> decodeChar(s, c)]]

decodeModulePath(enc) == Decoded(Pass(decodeStep, NotRead, enc))

-----------------------------------------------------------------------------
(* Versions *)

\* A listed string: does it begin with "v", and is it semver, if that is seen to?
\* Of semver, the release number, the rank of the pre-release (0 for a release)
\* and the build metadata, which has no rank.
Raw       == [prefixed : BOOLEAN, valid : BOOLEAN,
              number : 0 .. MaxNumber, pre : 0 .. MaxPre, build : 0 .. MaxBuild]
NoVersion == [prefixed |-> FALSE, valid |-> FALSE, number |-> 0, pre |-> 0, build |-> 0]
Semver    == {s \in Raw : ~s.valid => s.number = 0 /\ s.pre = 0}

\* semver.IsValid wants the "v".
IsValid(s) == s.prefixed /\ s.valid

\* semver.Compare(a, b) < 0: any pre-release comes before its release.
Precedes(a, b) ==
  \/ a.number < b.number
  \/ a.number = b.number /\ a.pre # 0 /\ (b.pre = 0 \/ a.pre < b.pre)

\* The order of strings, where it is asked of those that are not valid.
TextBefore(a, b) ==
  IF a.prefixed # b.prefixed THEN b.prefixed
  ELSE IF a.valid # b.valid THEN a.valid
  ELSE IF a.number # b.number THEN a.number < b.number
  ELSE IF a.pre # b.pre THEN a.pre < b.pre
  ELSE a.build < b.build

\* sortVersions: invalid strings first, among themselves in string order.
SortsBefore(a, b) ==
  IF IsValid(a) /\ IsValid(b) THEN Precedes(a, b)
  ELSE IF IsValid(a) # IsValid(b) THEN IsValid(b) ELSE TextBefore(a, b)

Better(best, s) == IF best = NoVersion \/ Precedes(best, s) THEN s ELSE best

Best == [any : Semver, release : Semver]

latestStep ==
  [best \in Best |-> [s \in Semver |->
     IF ~IsValid(s) THEN best
     ELSE [any     |-> Better(best.any, s),
           release |-> IF s.pre = 0 THEN Better(best.release, s) ELSE best.release]]]

\* Mutant: the highest version of all, a pre-release or not.
latestVersion_Any(versions) ==
  Pass(latestStep, [any |-> NoVersion, release |-> NoVersion], versions).any

\* goproxy: the highest release or, if there is none, the highest pre-release.
latestVersion(versions) ==
  LET best == Pass(latestStep, [any |-> NoVersion, release |-> NoVersion], versions)
  IN IF best.release # NoVersion THEN best.release ELSE best.any

\* npm puts the "v" in front of a version that has none, to compare it ...
Listed(s, v) == [prefixed |-> v, valid |-> s.valid,
                 number |-> s.number, pre |-> s.pre, build |-> s.build]
WithV(s)     == Listed(s, TRUE)
WithoutV(s)  == Listed(s, FALSE)

npmStep ==
  [best \in Semver |-> [s \in Semver |->
     IF IsValid(WithV(s)) THEN Better(best, WithV(s)) ELSE best]]

\* ... and takes it off the highest, or gives the last of the list as it is.
npmLatestVersion(versions) ==
  LET best == Pass(npmStep, NoVersion, versions)
  IN IF best # NoVersion THEN WithoutV(best)
     ELSE IF versions # <<>> THEN Last(versions) ELSE NoVersion

=============================================================================
