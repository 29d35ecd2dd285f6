----------------------------- MODULE MCPattern -----------------------------
(***************************************************************************)
(* All patterns of up to MaxTokens tokens, and all sequences of up to      *)
(* MaxItems of the items below, with a word and braces that are not        *)
(* closed among them.                                                      *)
(***************************************************************************)
EXTENDS Pattern

CONSTANTS Tokens, MaxTokens, MaxItems

MCItems ==
  {<<"x">>, <<"{", "{">>, <<"}", "}">>, <<"{">>, <<"}">>, <<"{", "m", "}">>,
   <<"{", "time", ":", "HMSf", "}">>, <<"{", "file", ":", "nameonly", "}">>,
   <<"{", "time", ":", "HMSF", "}">>, <<"{", "time", ":", "HMS", "}">>,
   <<"{", "level", ":", "path", "}">>}

MCPatterns ==
  BoundedSeq(Tokens, MaxTokens) \cup {FlattenSeq(s) : s \in BoundedSeq(MCItems, MaxItems)}

AllTokens ==
  Tokens \cup DOMAIN FieldNames \cup DOMAIN SpecNames \cup {"{", "}", ":", "x", ".", ":06", ":09"}

(* The number of characters of each token.                                 *)
MCWidth ==
  [t \in AllTokens |->
     CASE t \in {"time", "file", "line", "path", "HMSf", "HMSF"} -> 4
       [] t \in {":06", ":09", "HMS"} -> 3
       [] t \in {"level"} -> 5
       [] t \in {"thread"} -> 6
       [] t \in {"message"} -> 7
       [] t \in {"function", "nameonly"} -> 8
       [] OTHER -> 1]
=============================================================================
