------------------------------ MODULE Pattern ------------------------------
(***************************************************************************)
(* parse_pattern() of detail/pattern.h, which the compiler evaluates, and  *)
(* what PatternFormatter::format() prints with its result.                 *)
(*                                                                         *)
(* A pattern is a sequence of tokens: the braces, the colon and words.  No *)
(* word is the concatenation of others, so two words in a row are a name   *)
(* that no table has.  The format string made for fmt::vformat() is a      *)
(* sequence of tokens too; only its length is counted in characters.       *)
(***************************************************************************)
EXTENDS Integers, Sequences, SequencesExt

CONSTANTS
  Patterns,      \* the patterns that are parsed
  Width,         \* the number of characters of each token
  MaxFields,     \* the template parameters of PatternFormatter
  MaxFmtStrLen

(* A width begins with a colon, which is a token of its own in a pattern.  *)
ASSUME PatternAssumption ==
  /\ MaxFields \in Nat /\ MaxFmtStrLen \in Nat
  /\ Width \in [DOMAIN Width -> Nat] /\ Patterns \subseteq Seq(DOMAIN Width \ {":06", ":09"})
  /\ \A t \in {"{", "}", "."} : t \in DOMAIN Width /\ Width[t] = 1
  /\ \A t \in {":06", ":09"} : t \in DOMAIN Width /\ Width[t] = 3

VARIABLES
  pattern,          \* Pattern
  i,                \* index of the next token, from 1
  fmt_str,          \* result.fmt_str
  fmt_str_len,      \* result.fmt_str_len, in characters
  fields,           \* result.fields and result.specs, up to field_count
  error,            \* result.error; NotConstant: the compiler gives up
  pc

vars == <<pattern, i, fmt_str, fmt_str_len, fields, error, pc>>

(* The number of characters of a sequence of tokens.                       *)
Chars(s) ==
  LET chars[k \in 0 .. Len(s)] == IF k = 0 THEN 0 ELSE chars[k - 1] + Width[s[k]]
  IN  chars[Len(s)]

-----------------------------------------------------------------------------
(* The tables.  A name that is not a single word is in none of them.       *)

FieldNames ==
  [time |-> "Time", file |-> "File", function |-> "Function", line |-> "Line",
   level |-> "Level", message |-> "Message", m |-> "Message", thread |-> "ThreadName"]

SpecNames ==
  [HMS |-> "TimeHMS", HMSf |-> "TimeHMSf", HMSF |-> "TimeHMSF",
   path |-> "None", nameonly |-> "FileNameOnly"]

InTable(name, table) == Len(name) = 1 /\ name[1] \in DOMAIN table

TimeSpecs == {"TimeHMS", "TimeHMSf", "TimeHMSF"}

validate_field_spec_combination(field, spec) ==
  \/ spec = "None"
  \/ field = "Time" /\ spec \in TimeSpecs
  \/ field = "File" /\ spec = "FileNameOnly"

(* expand_spec_into_result().                                              *)
expand_spec(spec) ==
  CASE spec = "TimeHMSf" -> <<"{", "}", ".", "{", ":06", "}">>
    [] spec = "TimeHMSF" -> <<"{", "}", ".", "{", ":09", "}">>
    [] OTHER -> <<"{", "}">>

-----------------------------------------------------------------------------
(* The loop of parse_pattern(): one action per branch.                     *)

Init ==
  /\ pattern \in Patterns
  /\ i = 1 /\ fmt_str = <<>> /\ fmt_str_len = 0 /\ fields = <<>>
  /\ error = "None" /\ pc = "loop"

More == pc = "loop" /\ i <= Len(pattern)
Here(t) == More /\ pattern[i] = t
Doubled(t) == i < Len(pattern) /\ pattern[i + 1] = t

Reject(e) ==
  /\ error' = e /\ pc' = "done"
  /\ UNCHANGED <<pattern, i, fmt_str, fmt_str_len, fields>>

(* Writing past the end of fmt_str is no constant expression.              *)
Push(s, next) ==
  IF fmt_str_len + Chars(s) <= MaxFmtStrLen
  THEN /\ fmt_str' = fmt_str \o s /\ fmt_str_len' = fmt_str_len + Chars(s) /\ i' = next
       /\ UNCHANGED <<pattern, error, pc>>
  ELSE /\ error' = "NotConstant" /\ pc' = "done"
       /\ UNCHANGED <<pattern, i, fmt_str, fmt_str_len>>

(* Fault: the brace is forwarded unescaped.                                *)
ForwardOpen_Single ==
  /\ Here("{") /\ Doubled("{")
  /\ Push(<<"{">>, i + 2) /\ UNCHANGED fields
ForwardOpen ==
  /\ Here("{") /\ Doubled("{")
  /\ Push(<<"{", "{">>, i + 2) /\ UNCHANGED fields

(* bracket_close_idx, or 0 if the pattern has no further closing brace.    *)
CloseIdx == SelectInSubSeq(pattern, i + 1, Len(pattern), LAMBDA t : t = "}")

name_and_spec == SubSeq(pattern, i + 1, CloseIdx - 1)
Separator == SelectInSeq(name_and_spec, LAMBDA t : t = ":")
(* Fault: the field name keeps the separator.                                    *)
field_name_WithSeparator ==
  IF Separator = 0 THEN name_and_spec ELSE SubSeq(name_and_spec, 1, Separator)
field_name ==
  IF Separator = 0 THEN name_and_spec ELSE SubSeq(name_and_spec, 1, Separator - 1)
spec_name ==
  IF Separator = 0 THEN <<>> ELSE SubSeq(name_and_spec, Separator + 1, Len(name_and_spec))
Field == FieldNames[field_name[1]]
FormatSpec == IF spec_name = <<>> THEN "None" ELSE SpecNames[spec_name[1]]

(* Fault: one field more than the array holds is let through.              *)
TooManyFields_OffByOne == Len(fields) > MaxFields
TooManyFields == Len(fields) >= MaxFields

(* The checks of a field in the order they are made.                       *)
FieldError ==
  IF CloseIdx = 0 THEN "UnterminatedBrace"
  ELSE IF name_and_spec = <<>> THEN "EmptyFieldName"
  ELSE IF ~InTable(field_name, FieldNames) THEN "UnknownFieldName"
  ELSE IF spec_name # <<>> /\ ~InTable(spec_name, SpecNames) THEN "UnknownFormatSpec"
  ELSE IF ~validate_field_spec_combination(Field, FormatSpec) THEN "InvalidSpecUsage"
  ELSE IF TooManyFields THEN "TooManyFields"
  ELSE "None"

RejectField ==
  /\ Here("{") /\ ~Doubled("{")
  /\ FieldError # "None" /\ Reject(FieldError)

(* Fault: parsing goes on at the closing brace.                            *)
AddField_AtBrace ==
  /\ Here("{") /\ ~Doubled("{") /\ FieldError = "None"
  /\ fields' = Append(fields, [field |-> Field, spec |-> FormatSpec])
  /\ Push(expand_spec(FormatSpec), CloseIdx)
AddField ==
  /\ Here("{") /\ ~Doubled("{") /\ FieldError = "None"
  /\ fields' = Append(fields, [field |-> Field, spec |-> FormatSpec])
  /\ Push(expand_spec(FormatSpec), CloseIdx + 1)

ForwardClose ==
  /\ Here("}") /\ Doubled("}")
  /\ Push(<<"}", "}">>, i + 2) /\ UNCHANGED fields

RejectClose == Here("}") /\ ~Doubled("}") /\ Reject("UnmatchedClosingBrace")

ForwardText ==
  /\ More /\ pattern[i] \notin {"{", "}"}
  /\ Push(<<pattern[i]>>, i + 1) /\ UNCHANGED fields

Finish ==
  /\ pc = "loop" /\ i > Len(pattern)
  /\ pc' = "done"
  /\ UNCHANGED <<pattern, i, fmt_str, fmt_str_len, fields, error>>

(* The static_asserts of PatternFormatter accept or refuse the result.     *)
Compiled == pc = "done" /\ error = "None"

Next ==
  \/ ForwardOpen \/ RejectField \/ AddField \/ ForwardClose \/ RejectClose
  \/ ForwardText \/ Finish
  \/ pc = "done" /\ UNCHANGED vars

Spec == Init /\ [][Next]_vars

-----------------------------------------------------------------------------
(* PatternFormatter::format_impl() for one event.  A printed text is a     *)
(* sequence of tokens; the message contains braces.                        *)

Data ==
  [Level |-> <<"WARN">>, ThreadName |-> <<"worker">>, Time |-> <<"full">>,
   File |-> <<"dir", "/", "sub", "\\", "name">>, Function |-> <<"f">>,
   Line |-> <<"123">>, Message |-> <<"{", "}", "}", "{", ":06">>]

BaseName(path) ==
  SubSeq(path, SelectLastInSeq(path, LAMBDA t : t \in {"/", "\\"}) + 1, Len(path))

(* expand_and_process_format_arg() on get_field(): the arguments of one    *)
(* field.  process_time_arg() gives the text of the whole second and the   *)
(* number of micro- or nanoseconds.                                        *)
Expand(f) ==
  CASE f.spec = "None" -> <<Data[f.field]>>
    [] f.spec = "TimeHMS" -> << <<"hms">> >>
    [] f.spec = "TimeHMSf" -> << <<"hms">>, <<"us">> >>
    [] f.spec = "TimeHMSF" -> << <<"hms">>, <<"ns">> >>
    [] f.spec = "FileNameOnly" -> <<BaseName(Data[f.field])>>

(* The arguments of the first k fields.                                    *)
ArgsOf(fs) ==
  LET args[k \in 0 .. Len(fs)] == IF k = 0 THEN <<>> ELSE args[k - 1] \o Expand(fs[k])
  IN  args
Args == ArgsOf(fields)[Len(fields)]

(* A number padded with zeros.  Texts take no such format.                 *)
Padded(arg, width) ==
  CASE arg = <<"us">> /\ width = ":06" -> <<"us6">>
    [] arg = <<"ns">> /\ width = ":09" -> <<"ns9">>
    [] OTHER -> <<"format_error">>

(* fmt::vformat(): doubled braces stand for themselves, every other pair   *)
(* for the next argument.  Its state is the text printed so far, the next  *)
(* argument, and the brace or the width that is open.                      *)
ScanToken(st, t, args) ==
  LET Open(mode) == [st EXCEPT !.mode = mode]
      Emit(text) == [st EXCEPT !.mode = "text", !.out = @ \o text]
      Use(text) == [mode |-> "text", next |-> st.next + 1, out |-> st.out \o text]
      HasNext == st.next <= Len(args)
  IN  CASE st.mode = "text" /\ t \in {"{", "}"} -> Open(t)
        [] st.mode = "text" /\ t \notin {"{", "}"} -> Emit(<<t>>)
        [] st.mode \in {"{", "}"} /\ t = st.mode -> Emit(<<t>>)
        [] st.mode = "{" /\ t = "}" /\ HasNext -> Use(args[st.next])
        [] st.mode = "{" /\ t \in {":06", ":09"} /\ HasNext -> Open(t)
        [] st.mode \in {":06", ":09"} /\ t = "}" -> Use(Padded(args[st.next], st.mode))
        [] OTHER -> Open("error")

Scan(s, args) ==
  LET state[k \in 0 .. Len(s)] ==
        IF k = 0 THEN [mode |-> "text", next |-> 1, out |-> <<>>]
        ELSE ScanToken(state[k - 1], s[k], args)
  IN  state

Vformat(s, args) ==
  LET end == Scan(s, args)[Len(s)]
  IN  IF end.mode = "text" THEN end.out ELSE <<"format_error">>

Printed == Vformat(fmt_str, Args)

-----------------------------------------------------------------------------
(* Reference: a pattern is a sequence of items, which are words, doubled   *)
(* braces and fields, and prints what its items print.                     *)

(* What the specs print that are not just the field.                       *)
SpecMeaning ==
  [HMS |-> <<"hms">>, HMSf |-> <<"hms", ".", "us6">>, HMSF |-> <<"hms", ".", "ns9">>,
   nameonly |-> <<"name">>]

(* A spec that may follow the name of a field.                             *)
IsSpecOf(name, spec) ==
  \/ spec = "path"
  \/ name = "time" /\ spec \in {"HMS", "HMSf", "HMSF"}
  \/ name = "file" /\ spec = "nameonly"

(* {name}, {name:} or {name:spec}.                                         *)
IsFieldItem(s) ==
  /\ Len(s) \in 3 .. 5
  /\ s[1] = "{" /\ s[2] \in DOMAIN FieldNames /\ s[Len(s)] = "}"
  /\ Len(s) > 3 => s[3] = ":"
  /\ Len(s) > 4 => IsSpecOf(s[2], s[4])
IsEscape(s) == Len(s) = 2 /\ s[1] \in {"{", "}"} /\ s[2] = s[1]
IsWord(s) == Len(s) = 1 /\ s[1] \notin {"{", "}"}
IsItem(s) == IsWord(s) \/ IsEscape(s) \/ IsFieldItem(s)

Meaning(s) ==
  IF ~IsFieldItem(s) THEN <<s[1]>>
  ELSE IF Len(s) = 5 /\ s[4] # "path" THEN SpecMeaning[s[4]]
  ELSE Data[FieldNames[s[2]]]

(* The characters an item takes in the format string: two for each         *)
(* placeholder without padding, five for one with padding.                 *)
FmtLen(s) ==
  IF ~IsFieldItem(s) THEN Chars(s)
  ELSE IF Len(s) = 5 /\ s[4] \in {"HMSf", "HMSF"} THEN 8 ELSE 2

(* Whether the first k tokens of p are a sequence of items.                *)
WellFormed(p) ==
  LET good[k \in 0 .. Len(p)] ==
        k = 0 \/ \E j \in 0 .. k - 1 : IsItem(SubSeq(p, j + 1, k)) /\ good[j]
  IN  good

(* Where the last of these items begins.                                   *)
LastStart(p, k) ==
  CHOOSE j \in 0 .. k - 1 : IsItem(SubSeq(p, j + 1, k)) /\ WellFormed(p)[j]

(* What these items amount to: how many fields, how long a format string,  *)
(* and what they print.                                                    *)
Reading(p) ==
  LET reading[k \in 0 .. Len(p)] ==
        IF k = 0 \/ ~WellFormed(p)[k] THEN [fields |-> 0, chars |-> 0, text |-> <<>>]
        ELSE LET before == reading[LastStart(p, k)]
                 item == SubSeq(p, LastStart(p, k) + 1, k)
             IN  [fields |-> before.fields + (IF IsFieldItem(item) THEN 1 ELSE 0),
                  chars |-> before.chars + FmtLen(item),
                  text |-> before.text \o Meaning(item)]
  IN  reading

Fits(p) ==
  LET whole == Reading(p)[Len(p)]
  IN  whole.fields <= MaxFields /\ whole.chars <= MaxFmtStrLen

-----------------------------------------------------------------------------
(* Every variable has a value of its type; the result respects the sizes   *)
(* of its arrays.                                                          *)
TypeOK ==
  /\ i \in 1 .. Len(pattern) + 1
  /\ fmt_str_len \in 0 .. MaxFmtStrLen
  /\ Len(fields) <= MaxFields
  /\ \A k \in DOMAIN fields :
       validate_field_spec_combination(fields[k].field, fields[k].spec)
  /\ error \in {"None", "UnterminatedBrace", "EmptyFieldName", "UnknownFieldName",
                "UnknownFormatSpec", "InvalidSpecUsage", "TooManyFields",
                "UnmatchedClosingBrace", "NotConstant"}
  /\ pc \in {"loop", "done"}

(* What parse_pattern() has consumed is a sequence of whole items, and it  *)
(* stops at the first place where the pattern is no item.                  *)
StopsAtFirstFault ==
  /\ WellFormed(pattern)[i - 1]
  /\ error \notin {"None", "TooManyFields", "NotConstant"} =>
       \A k \in i .. Len(pattern) : ~WellFormed(pattern)[k]

(* A pattern compiles exactly if it is a sequence of items that fits the   *)
(* limits of PatternFormatter.                                             *)
AcceptsExactly ==
  pc = "done" =>
    (error = "None" <=> WellFormed(pattern)[Len(pattern)] /\ Fits(pattern))

(* A pattern that compiles prints what it says: vformat() finds in the     *)
(* expanded string exactly the placeholders that the expanded arguments    *)
(* belong to, wherever braces and fields touch.                            *)
FormatsAsWritten ==
  Compiled => Printed = Reading(pattern)[Len(pattern)].text

=============================================================================
