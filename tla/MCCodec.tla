------------------------------ MODULE MCCodec ------------------------------
(***************************************************************************)
(* 64-bit and 32-bit x86, statements with no, one, two and three           *)
(* arguments, and texts with no, one and two characters.                   *)
(***************************************************************************)
EXTENDS Codec
MCAbis == {[ptr |-> 8, align64 |-> 8], [ptr |-> 4, align64 |-> 4]}
MCCallSites == << <<>>, <<"int", "string">>, <<"u32string", "char">>,
                  <<"string", "pointer", "u32string">> >>
MCTexts == {<<>>, <<7>>, <<7, 8>>}
=============================================================================
