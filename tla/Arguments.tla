----------------------------- MODULE Arguments -----------------------------
(***************************************************************************)
(* How the texts written to the files of a window are read                 *)
(* (WindowFileEntry).  A text is a sequence of tokens: each delimiter is a *)
(* token of its own, and so is each run of characters between them, of     *)
(* which only numbers and the names of types matter.                       *)
(***************************************************************************)
EXTENDS Integers, Sequences, SequencesExt

Blanks == {" ", "\n"}
Number == "7"

(***************************************************************************)
(* std::string::find, with 0 for npos: the search of the next delimiter    *)
(* after one that is missing begins at the front again.                    *)
(***************************************************************************)
find(text, token, from) == LET S == {i \in from..Len(text) : text[i] = token}
                           IN  IF S = {} THEN 0 ELSE CHOOSE i \in S : \A j \in S : i <= j

stripped(text) ==
    LET solid == {i \in DOMAIN text : text[i] \notin Blanks}
    IN  IF solid = {} THEN <<>>
        ELSE SubSeq(text, CHOOSE i \in solid : \A j \in solid : i <= j,
                          CHOOSE i \in solid : \A j \in solid : i >= j)

(***************************************************************************)
(* stoi with base 0 on the value of a CARDINAL: all of it is a number.     *)
(***************************************************************************)
ValueFits(type, value) == \/ type \in {<<"STRING">>, <<"UTF8_STRING">>}
                          \/ type = <<"CARDINAL">> /\ value = <<Number>>

setProperty_anywhere(input) ==
    LET open   == find(input, "(", 1)
        close  == find(input, ")", open + 1)
        assign == find(input, "=", close + 1)
        value  == stripped(SubSeq(input, assign + 1, Len(input)))
    IN  /\ 0 \notin {open, close, assign}
        /\ open > 1 /\ close > open + 1 /\ value # <<>>
        /\ ValueFits(SubSeq(input, open + 1, close - 1), value)

setProperty(input) ==
    LET open   == find(input, "(", 1)
        close  == find(input, ")", open + 1)
        assign == find(input, "=", close + 1)
        value  == stripped(SubSeq(input, assign + 1, Len(input)))
    IN  /\ 0 \notin {open, close, assign}
        /\ assign = close + 1
        /\ open > 1 /\ close > open + 1 /\ value # <<>>
        /\ ValueFits(SubSeq(input, open + 1, close - 1), value)

(***************************************************************************)
(* "!NAME" deletes a property, whatever NAME is.                           *)
(***************************************************************************)
writeProperties(input) == (input # <<>> /\ input[1] = "!") \/ setProperty(input)

(***************************************************************************)
(* >> skips blanks and then takes a number or one character; good() fails  *)
(* when a number reaches the end of the text.                              *)
(***************************************************************************)
GeometryPattern == <<Number, ",", Number, ":", Number, "x", Number>>

Solids(text) ==
    LET kept[n \in 0..Len(text)] ==
            IF n = 0 THEN <<>>
            ELSE IF text[n] \in Blanks THEN kept[n - 1] ELSE Append(kept[n - 1], text[n])
    IN  kept[Len(text)]

EndsInBlank(input) == Len(Solids(input)) > 7 \/ Last(input) \in Blanks

writeGeometry(input) == /\ IsPrefix(GeometryPattern, Solids(input))
                        /\ EndsInBlank(input)

-----------------------------------------------------------------------------
(* Properties: which of all short texts are accepted.                      *)

Texts(tokens, n) == UNION {[1..m -> tokens] : m \in 0..n}

(***************************************************************************)
(* NAME(TYPE)=VALUE with a type that is known, a value that is not blank   *)
(* and fits it, and no delimiter skipped.                                  *)
(***************************************************************************)
NamesProperty(text) ==
    \E open \in 2..Len(text) - 4 :
        /\ {i \in 1..open : text[i] = "("} = {open}
        /\ SubSeq(text, open + 2, open + 3) = <<")", "=">>
        /\ \E value \in {stripped(SubSeq(text, open + 4, Len(text)))} :
              value # <<>> /\ ValueFits(<<text[open + 1]>>, value)

(***************************************************************************)
(* "expected PROP_NAME(TYPE)=VALUE" (WindowFileEntry.cxx:55): exactly the  *)
(* texts that split this way are accepted.                                 *)
(* "a string of the from X,Y:WxH" (README.md:130) is accepted when a line  *)
(* end follows, and nothing else of that length is; so what the file shows *)
(* can be written back.                                                    *)
(***************************************************************************)
ArgumentSyntax ==
    /\ \A text \in Texts({"CARDINAL", Number, "(", ")", "=", " "}, 7) :
          setProperty(text) <=> NamesProperty(text)
    /\ \A text \in Texts({Number, ",", ":", "x"}, 7) :
          writeGeometry(Append(text, "\n")) <=> text = GeometryPattern
=============================================================================
