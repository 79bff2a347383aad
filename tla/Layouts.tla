------------------------------ MODULE Layouts ------------------------------
(***************************************************************************)
(* The world around the converter: what is engraved on the keys of a       *)
(* Japanese (JIS) and an English (US) keyboard, and hence what an operating *)
(* system set to that layout types for a key.  Taken from the layouts, not *)
(* from the tables of KeyTable.c, which are checked against it.            *)
(***************************************************************************)
EXTENDS Integers, Sequences

Letters == <<"A", "B", "C", "D", "E", "F", "G", "H", "I", "J", "K", "L", "M",
             "N", "O", "P", "Q", "R", "S", "T", "U", "V", "W", "X", "Y", "Z">>
Small == <<"a", "b", "c", "d", "e", "f", "g", "h", "i", "j", "k", "l", "m",
           "n", "o", "p", "q", "r", "s", "t", "u", "v", "w", "x", "y", "z">>
LetterKeys == \h04 .. \h1d

\* A key with the characters it types: without and with shift.
JisSymbols == {
  <<\h1e, "1", "!">>, <<\h1f, "2", "quote">>, <<\h20, "3", "#">>, <<\h21, "4", "$">>,
  <<\h22, "5", "%">>, <<\h23, "6", "&">>, <<\h24, "7", "apostrophe">>, <<\h25, "8", "lpar">>,
  <<\h26, "9", "rpar">>, <<\h27, "0", "none">>, <<\h2c, "space", "space">>,
  <<\h2d, "-", "=">>, <<\h2e, "^", "~">>, <<\h2f, "@", "backquote">>, <<\h30, "[", "lbrace">>,
  <<\h32, "]", "rbrace">>, <<\h33, "semicolon", "+">>, <<\h34, ":", "star">>, <<\h36, "comma", "<">>,
  <<\h37, ".", ">">>, <<\h38, "/", "?">>, <<\h87, "backslash", "underscore">>,
  <<\h89, "backslash", "|">> }      \* the Yen key is the backslash of ASCII

UsSymbols == {
  <<\h1e, "1", "!">>, <<\h1f, "2", "@">>, <<\h20, "3", "#">>, <<\h21, "4", "$">>,
  <<\h22, "5", "%">>, <<\h23, "6", "^">>, <<\h24, "7", "&">>, <<\h25, "8", "star">>,
  <<\h26, "9", "lpar">>, <<\h27, "0", "rpar">>, <<\h2c, "space", "space">>,
  <<\h2d, "-", "underscore">>, <<\h2e, "=", "+">>, <<\h2f, "[", "lbrace">>, <<\h30, "]", "rbrace">>,
  <<\h31, "backslash", "|">>, <<\h33, "semicolon", ":">>, <<\h34, "apostrophe", "quote">>,
  <<\h35, "backquote", "~">>, <<\h36, "comma", "<">>, <<\h37, ".", ">">>, <<\h38, "/", "?">> }

Keys(symbols) == LetterKeys \cup {row[1] : row \in symbols}

Char(symbols, key, shifted) ==
  IF key \in LetterKeys
  THEN IF shifted THEN Letters[key - 3] ELSE Small[key - 3]
  ELSE LET rows == {row \in symbols : row[1] = key}
       IN  IF rows = {} THEN "none"
           ELSE (CHOOSE row \in rows : TRUE)[IF shifted THEN 3 ELSE 2]

=============================================================================
