-------------------------------- MODULE Texts --------------------------------
(***************************************************************************)
(* Texts that callers send and read back: free text (api/src/validation.rs)*)
(* and the names, slugs, keys and filters the routes accept, and the CSV   *)
(* cells of routes/transactions_csv.rs.                                    *)
(*                                                                         *)
(* A text is a sequence of characters of the classes below, the ones the   *)
(* code tells apart.                                                       *)
(***************************************************************************)
EXTENDS Integers, Sequences, FiniteSetsExt, SequencesExt

CONSTANTS SlugMin, SlugMax, NameMin, NameMax

ASSUME TextAssumption == {SlugMin, SlugMax, NameMin, NameMax} \subseteq Nat

Lower == "a"
Upper == "A"
Digit == "1"
Dash == "-"
Under == "_"
At == "@"
Equals == "="
Comma == ","
Quote == "\""
Apostrophe == "'"
Newline == "\n"
Return == "\r"
Space == " "
Hidden == "zero width"      \* is_spoofing_char

Blanks == {Space, Newline, Return}
Control == {Newline, Return}
All(text, set) == \A i \in DOMAIN text : text[i] \in set

trimmed(text) ==
    LET solid == {i \in DOMAIN text : text[i] \notin Blanks}
    IN IF solid = {} THEN <<>> ELSE SubSeq(text, Min(solid), Max(solid))

Accepted(text) == [ok |-> TRUE, text |-> text]
Rejected == [ok |-> FALSE, text |-> <<>>]

(* Accepted(<<>>) is Ok(None).                                             *)
clean_text(value, max_chars) ==
    LET text == trimmed(value)
    IN IF text = <<>> THEN Accepted(<<>>)
       ELSE IF Len(text) > max_chars \/ ToSet(text) \cap (Control \cup {Hidden}) # {}
       THEN Rejected ELSE Accepted(text)

(***************************************************************************)
(* Names the routes accept.                                                *)
(***************************************************************************)
fold(text) == [i \in DOMAIN text |-> IF text[i] = Upper THEN Lower ELSE text[i]]

normalize_email(email) ==
    LET e == fold(trimmed(email))
    IN IF At \in ToSet(e) /\ Len(e) >= 3 THEN Accepted(e) ELSE Rejected

(* reserved is RESERVED_USERNAMES, in lower case.                          *)
validate_username(input, reserved) ==
    LET name == trimmed(input)
    IN IF \/ Len(name) \notin NameMin .. NameMax
          \/ ~ All(name, {Lower, Upper, Digit, Dash, Under})
          \/ fold(name) \in reserved
       THEN Rejected ELSE Accepted(name)

validate_slug(input, reserved) ==
    LET slug == fold(trimmed(input))
    IN IF \/ Len(slug) \notin SlugMin .. SlugMax
          \/ slug \in reserved
          \/ ~ All(slug, {Lower, Digit, Dash})
       THEN Rejected ELSE Accepted(slug)

(***************************************************************************)
(* CSV                                                                     *)
(***************************************************************************)
neutralised(value) ==
    IF value # <<>> /\ Head(value) \in {Equals, Dash, At, Return} THEN <<Apostrophe>> \o value
    ELSE value

doubled(value) ==
    FoldLeft(LAMBDA out, c : out \o (IF c = Quote THEN <<Quote, Quote>> ELSE <<c>>), <<>>, value)

text_cell(value) ==
    LET cell == neutralised(value)
    IN IF ToSet(cell) \cap {Comma, Quote, Newline, Return} # {}
       THEN <<Quote>> \o doubled(cell) \o <<Quote>> ELSE cell

write_row(cells) ==
    FoldLeft(LAMBDA out, i : out \o (IF i > 1 THEN <<Comma>> ELSE <<>>) \o text_cell(cells[i]),
             <<>>, [i \in DOMAIN cells |-> i]) \o <<Return, Newline>>

(***************************************************************************)
(* Transaction filters (routes/wallets.rs).                                *)
(***************************************************************************)

(* An asset text: the code, the folded code, and the issuer, "" when the   *)
(* text has no colon.                                                      *)
parse_asset_filter(raw, codes, accounts) ==
    IF raw.issuer = "" /\ raw.folded \in {"native", "xlm"}
    THEN [ok |-> TRUE, code |-> "native", issuer |-> ""]
    ELSE IF raw.code \notin codes \/ (raw.issuer # "" /\ raw.issuer \notin accounts)
    THEN [ok |-> FALSE, code |-> "", issuer |-> ""]
    ELSE [ok |-> TRUE, code |-> raw.code, issuer |-> raw.issuer]

=============================================================================
