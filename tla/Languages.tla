----------------------------- MODULE Languages -----------------------------
(***************************************************************************)
(* get_language: the language of a connection, from the cookie and the     *)
(* Accept-Language headers of its scope.  Django's functions on language   *)
(* codes are constants.                                                    *)
(***************************************************************************)
EXTENDS Naturals, SequencesExt

CONSTANTS
    Offered,      \* codes in get_languages() that check_for_language takes
    Variant,      \* Variant[code]: get_supported_language_variant, None if it raises
    WellFormed,   \* codes language_code_re takes
    Default,      \* LANGUAGE_CODE
    None          \* no cookie, no language

(* No code is offered as a wildcard.                                       *)
LanguageParameters == None # "*" /\ \A code \in DOMAIN Variant : Variant[code] # "*"

(* A mistake: a wildcard is skipped like a code that is not offered.       *)
TriedOn(found, code) ==
    IF found # None THEN found
    ELSE IF code \in WellFormed THEN Variant[code] ELSE None

(* One turn of the loop over the header, which parse_accept_lang_header    *)
(* has put in the order of preference.  "*" breaks; a malformed code, and  *)
(* one without a variant, continue.                                        *)
Tried(found, code) ==
    IF found # None THEN found
    ELSE IF code = "*" THEN code
    ELSE IF code \in WellFormed THEN Variant[code] ELSE None

Language(scope) ==
    IF scope.cookie \in Offered THEN scope.cookie
    ELSE IF Variant[scope.cookie] # None THEN Variant[scope.cookie]
    ELSE LET found == FoldLeft(Tried, None, scope.accept) IN
         IF found \notin {None, "*"} THEN found
         ELSE IF Variant[Default] # None THEN Variant[Default] ELSE Default

-----------------------------------------------------------------------------
(* What the docstring promises: 1) the cookie, 2) the header, 3) the       *)
(* default.  The entries of the header that count are those before a       *)
(* wildcard which are offered in some variant, the first of them most.     *)
Counts(accept, i) ==
    /\ accept[i] \in WellFormed /\ Variant[accept[i]] # None
    /\ \A j \in 1 .. i : accept[j] # "*"
Promised(scope, code) ==
    \/ scope.cookie \in Offered /\ code = scope.cookie
    \/ /\ scope.cookie \notin Offered
       /\ Variant[scope.cookie] # None /\ code = Variant[scope.cookie]
    \/ /\ scope.cookie \notin Offered /\ Variant[scope.cookie] = None
       /\ \/ \E i \in DOMAIN scope.accept :
                 /\ Counts(scope.accept, i) /\ code = Variant[scope.accept[i]]
                 /\ \A j \in 1 .. i - 1 : ~Counts(scope.accept, j)
          \/ /\ \A i \in DOMAIN scope.accept : ~Counts(scope.accept, i)
             /\ code = IF Variant[Default] = None THEN Default ELSE Variant[Default]
=============================================================================
