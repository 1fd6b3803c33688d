------------------------------ MODULE MCFacades ------------------------------
(* Small instances of Facades.  Of its names, "a/A" has a vendor, is a module  *)
(* path with a capital, and is sanitised like "a-a"; "A_a" is normalised to    *)
(* "a-a"; "a/!a" is encoded like "a/A"; and "Aa" is like no other.             *)
EXTENDS Facades, Names, TLC

MCProject    == {"a/A", "a-a", "Aa", "A_a", "a/!a"}
MCProjects   == [php |-> {"a/A", "a-a", "Aa"}, pypi |-> {"A_a", "a-a"}, go |-> {"a/A", "a/!a"}]
MCVendorOf   == "a/A" :> "a" @@ "a-a" :> None @@ "Aa" :> None @@ "A_a" :> None
                @@ "a/!a" :> "a"
MCGroup      == {"a", "aa"}
MCVersion    == {"a.", "a.a"}
MCSanitized  == "a/A" :> "a-a" @@ "a-a" :> "a-a" @@ "Aa" :> "aa"
                @@ "a" :> "a" @@ "aa" :> "aa" @@ "a." :> "a" @@ "a.a" :> "a.a"
MCNormalized == "A_a" :> "a-a" @@ "a-a" :> "a-a"
MCEncoded    == "a/A" :> "a/!a" @@ "a/!a" :> "a/!a"
MCDecoded    == "a/!a" :> "a/A"

\* Of a JSON publish: the key of a release of "Aa".
MCJsonKey == {storageKey([repo |-> "php", group |-> "a", name |-> "Aa", version |-> "a."], "dist")}

\* The tables are what the conversions of the code make of these names.
Chars == "a/A" :> <<"a", "/", "A">> @@ "a-a" :> <<"a", "-", "a">> @@ "Aa" :> <<"A", "a">>
         @@ "A_a" :> <<"A", "_", "a">> @@ "a/!a" :> <<"a", "/", "!", "a">>
         @@ "a" :> <<"a">> @@ "aa" :> <<"a", "a">>
         @@ "a." :> <<"a", ".">> @@ "a.a" :> <<"a", ".", "a">>

ASSUME TablesAssumption ==
  /\ \A n \in DOMAIN sanitized : Chars[sanitized[n]] = sanitizeName(Chars[n])
  /\ \A n \in DOMAIN normalized : Chars[normalized[n]] = normalizeName(Chars[n])
  /\ \A n \in DOMAIN encoded : Chars[encoded[n]] = encodeModulePath(Chars[n])
  /\ \A n \in DOMAIN decoded : Chars[decoded[n]] = decodeModulePath(Chars[n])

MCLowerOf == "A" :> "a"

Clients == Permutations(Publisher) \cup Permutations(Build)

\* PyPI alone.
OnlyPypi == [php |-> {}, pypi |-> {"A_a", "a-a"}, go |-> {}]
NoPaths  == <<>>

=============================================================================
