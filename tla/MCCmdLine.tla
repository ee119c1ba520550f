----------------------------- MODULE MCCmdLine -----------------------------
(* parse_cmdline over every line of up to MCLineLen characters drawn from *)
(* a key's letters, '=', a value digit, ' ' and '\t', and over the lines  *)
(* "io=" followed by a value: every value of up to MCValueLen - 1         *)
(* characters of the digits 0, 1 and f (up to and past the width of        *)
(* unsigned long), one of MCValueLen (past MAX_CMDLINE_VALUE_STRING_LEN),  *)
(* and every value of up to                                                *)
(* three characters with a sign, a 0x / 0X prefix, a tab or a letter that *)
(* is not a hexadecimal digit.  The one-entry table stands for            *)
(* xmon_cmdline_options ("iobase=" shortened to "io=", default "0").      *)
EXTENDS CmdLine

MCLineLen == 5
MCValueLen == 7
MCChars == {"i", "o", "=", "5", " ", "TAB"}
MCKey == <<"i", "o", "=">>
MCLines ==
  BoundedSeq(MCChars, MCLineLen)
  \cup {MCKey \o v : v \in BoundedSeq({"0", "1", "f"}, MCValueLen - 1)}
  \cup {MCKey \o [j \in 1..MCValueLen |-> "f"]}
  \cup {MCKey \o v : v \in BoundedSeq({"0", "x", "X", "-", "+", "TAB", "g", "F", "5"}, 3)}
\* isspace as in the usual _ctype[] table: blank and tab.
MCSpaces == {" ", "TAB"}
MCNames == << MCKey >>
MCDefaults == << <<"0">> >>
=============================================================================
