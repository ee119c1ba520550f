------------------------------- MODULE CmdLine -------------------------------
(***************************************************************************)
(* parse_cmdline (pre_os/xmon_loader/utils/string/cmdline.c): walks a      *)
(* NUL-terminated command line and updates the def_val_str of the entries *)
(* of an option table.  One step per turn of its outer loop: skip one      *)
(* white-space character, stop at the NUL, or take one option up to the   *)
(* next ' ' (strchr) -- with a value after its first '=' (strchr over the  *)
(* rest of the line), or without one.  Names are matched with strncmp, as  *)
(* the code does, over the length of the option's key.                     *)
(*                                                                         *)
(* A line is a sequence of one-character strings; "TAB" stands for '\t'. *)
(* The _ctype[] table behind isspace is not part of the repository, so   *)
(* the set of white-space characters is a constant.  Values are          *)
(* sequences of characters; the CMD_OPTION_PRESENT_BUT_NO_VALUE string is *)
(* the sequence OptionOnly.                                                *)
(***************************************************************************)
EXTENDS Naturals, Sequences, SequencesExt, StrToUL

CONSTANTS Lines,        \* the command lines given to parse_cmdline
          Names,        \* the option table's names, in table order
          Defaults,     \* their default values
          MaxValueLen,  \* MAX_CMDLINE_VALUE_STRING_LEN
          IoBaseName    \* "iobase=", the name get_io_base_from_cmdline_option asks for

ASSUME Len(Names) = Len(Defaults) /\ MaxValueLen \in Nat \ {0}

OptionOnly == <<"OPTIONONLY">>

\* The rest of s from position k on.
Rest(s, k) == IF k <= Len(s) THEN SubSeq(s, k, Len(s)) ELSE <<>>

\* strchr(s + k - 1, c): the first position from k on holding c, or 0 (NULL).
StrChr(s, k, c) ==
  IF \E j \in k..Len(s) : s[j] = c THEN CHOOSE j \in k..Len(s) : s[j] = c /\ \A i \in k..j - 1 : s[i] # c
  ELSE 0

\* strncmp(a, b, n) == 0: the strings agree on their first n characters, up
\* to and including a NUL of a.
StrNCmpZero(a, b, n) ==
  \A k \in 1..n : (\A j \in 1..k - 1 : CharAt(a, j) # NUL) => CharAt(a, k) = CharAt(b, k)

\* The first table entry, in table order, whose name strncmp-matches b over
\* n characters; 0 if none (the loop stops at the "\0" entry).
FirstMatch(b, n) ==
  IF \E i \in 1..Len(Names) : StrNCmpZero(Names[i], b, n)
  THEN CHOOSE i \in 1..Len(Names) : StrNCmpZero(Names[i], b, n)
                                    /\ \A j \in 1..i - 1 : ~StrNCmpZero(Names[j], b, n)
  ELSE 0

VARIABLES line, p, opts, status,
          ioDone,   \* get_io_base_from_cmdline_option has returned
          ioBase    \* its result

cvars == <<line, p, opts, status>>
vars == <<line, p, opts, status, ioDone, ioBase>>

Init ==
  /\ line \in Lines
  /\ p = 1
  /\ opts = [i \in 1..Len(Names) |-> Defaults[i]]
  /\ status = "parsing"
  /\ ioDone = FALSE
  /\ ioBase = 0

\* while (isspace(*p)) p++;  one character per step.
SkipSpace ==
  /\ status = "parsing" /\ CharAt(line, p) \in Spaces
  /\ p' = p + 1
  /\ UNCHANGED <<line, opts, status>>

\* if (*p == '\0') break;  ... return XMON_LOADER_SUCCESS.
EndOfLine ==
  /\ status = "parsing" /\ CharAt(line, p) = NUL
  /\ status' = "XMON_LOADER_SUCCESS"
  /\ UNCHANGED <<line, p, opts>>

\* opt_end: the next ' ' from opt_start, or the terminating NUL.
OptEnd(s, k) == IF StrChr(s, k, " ") = 0 THEN Len(s) + 1 ELSE StrChr(s, k, " ")

\* The valueless branch without its p = opt_end.
ValuelessNoAdvance ==
  LET e == OptEnd(line, p)
      v == StrChr(line, p, "=")
      i == FirstMatch(Rest(line, p), e - p)
  IN /\ status = "parsing" /\ CharAt(line, p) \notin Spaces \cup {NUL}
     /\ v = 0 \/ v > e
     /\ opts' = IF i = 0 THEN opts ELSE [opts EXCEPT ![i] = OptionOnly]
     /\ UNCHANGED <<line, p, status>>

\* An option with no '=' before opt_end: the first entry matching its
\* opt_end - opt_start characters gets CMD_OPTION_PRESENT_BUT_NO_VALUE.
Valueless ==
  LET e == OptEnd(line, p)
      v == StrChr(line, p, "=")
      i == FirstMatch(Rest(line, p), e - p)
  IN /\ status = "parsing" /\ CharAt(line, p) \notin Spaces \cup {NUL}
     /\ v = 0 \/ v > e
     /\ opts' = IF i = 0 THEN opts ELSE [opts EXCEPT ![i] = OptionOnly]
     /\ p' = e
     /\ UNCHANGED <<line, status>>

\* An option "key=value": opt_name_size = val_start - opt_start - 1 and
\* copy_size = opt_end - val_start (val_start past the '=').
NameSize(v) == v - p
CopySize(v, e) == e - v - 1
HasValue(v, e) ==
  /\ status = "parsing" /\ CharAt(line, p) \notin Spaces \cup {NUL}
  /\ v # 0 /\ v <= e

\* copy_size > MAX_CMDLINE_VALUE_STRING_LEN - 1: return the error.
ValueTooLarge ==
  LET e == OptEnd(line, p)  v == StrChr(line, p, "=")
  IN /\ HasValue(v, e)
     /\ CopySize(v, e) > MaxValueLen - 1
     /\ status' = "XMON_CMDLINE_VALUE_STRING_LEN_TOO_LARGE"
     /\ p' = e
     /\ UNCHANGED <<line, opts>>

\* An empty key or an empty value: continue.
EmptyPart ==
  LET e == OptEnd(line, p)  v == StrChr(line, p, "=")
  IN /\ HasValue(v, e)
     /\ CopySize(v, e) <= MaxValueLen - 1
     /\ NameSize(v) = 0 \/ CopySize(v, e) = 0
     /\ p' = e
     /\ UNCHANGED <<line, opts, status>>

\* The value's limit test one character too generous.
CopyValueLimitOffByOne ==
  LET e == OptEnd(line, p)  v == StrChr(line, p, "=")
      i == FirstMatch(Rest(line, p), NameSize(v))
  IN /\ HasValue(v, e)
     /\ CopySize(v, e) <= MaxValueLen
     /\ NameSize(v) > 0 /\ CopySize(v, e) > 0
     /\ opts' = IF i = 0 THEN opts ELSE [opts EXCEPT ![i] = SubSeq(line, v + 1, e - 1)]
     /\ p' = e
     /\ UNCHANGED <<line, status>>

\* Otherwise the first entry matching the key's opt_name_size characters
\* gets the copy_size characters after the '=' (strncpy, then the NUL).
CopyValue ==
  LET e == OptEnd(line, p)  v == StrChr(line, p, "=")
      i == FirstMatch(Rest(line, p), NameSize(v))
  IN /\ HasValue(v, e)
     /\ CopySize(v, e) <= MaxValueLen - 1
     /\ NameSize(v) > 0 /\ CopySize(v, e) > 0
     /\ opts' = IF i = 0 THEN opts ELSE [opts EXCEPT ![i] = SubSeq(line, v + 1, e - 1)]
     /\ p' = e
     /\ UNCHANGED <<line, status>>

ParseStep == SkipSpace \/ EndOfLine \/ Valueless \/ ValueTooLarge \/ EmptyPart \/ CopyValue

(***************************************************************************)
(* xmon_loader.c reads the table through get_io_base_from_cmdline_option: *)
(* get_cmdline_value_str finds the entry whose name strcmp-equals          *)
(* para_name (the loop stops at the "\0" entry), and the value is         *)
(* converted by strtoul(iobasestr, NULL, 16) and cast to uint16_t.  No     *)
(* file of src calls parse_cmdline; the step follows its return here, as   *)
(* the table's use after parsing.                                          *)
(***************************************************************************)
\* get_cmdline_value_str(cmdline, para_name): the entry's index, 0 for NULL.
GetCmdlineValueStr(name) ==
  IF \E i \in 1..Len(Names) : Names[i] = name
  THEN CHOOSE i \in 1..Len(Names) : Names[i] = name /\ \A j \in 1..i - 1 : Names[j] # name
  ELSE 0

\* get_io_base_from_cmdline_option(): 0 if the option is not in the table.
GetIoBaseFromCmdlineOption(t) ==
  LET i == GetCmdlineValueStr(IoBaseName)
  IN IF i = 0 THEN 0 ELSE StrToUL(t[i], 16) % 2^16

GetIoBase ==
  /\ status # "parsing" /\ ~ioDone
  /\ ioBase' = GetIoBaseFromCmdlineOption(opts)
  /\ ioDone' = TRUE
  /\ UNCHANGED cvars

Next == (ParseStep /\ UNCHANGED <<ioDone, ioBase>>) \/ GetIoBase

\* parse_cmdline runs to its return on the one thread that calls it.
Spec == Init /\ [][Next]_vars /\ WF_vars(ParseStep /\ UNCHANGED <<ioDone, ioBase>>)

-----------------------------------------------------------------------------
(***************************************************************************)
(* What the option table promises (cmdline.h, the comment above          *)
(* xmon_cmdline_options): a white-space separated word "key=value" whose  *)
(* key is an entry's name without its '=' sets that entry to value; a     *)
(* word "key" naming an entry sets it to CMD_OPTION_PRESENT_BUT_NO_VALUE;  *)
(* other words leave the table alone.  Later words win.                   *)
(***************************************************************************)
Key(n) == IF n # <<>> /\ Last(n) = "=" THEN Front(n) ELSE n

\* The words of s: the maximal runs of characters that are not white space.
RECURSIVE Words(_)
Words(s) ==
  IF s = <<>> THEN <<>>
  ELSE IF Head(s) \in Spaces THEN Words(Tail(s))
  ELSE LET n == IF \E k \in 1..Len(s) : s[k] \in Spaces
                THEN CHOOSE k \in 1..Len(s) : s[k] \in Spaces /\ \A j \in 1..k - 1 : s[j] \notin Spaces
                ELSE Len(s) + 1
       IN <<SubSeq(s, 1, n - 1)>> \o Words(Rest(s, n))

\* The table after one word w.
ApplyWord(t, w) ==
  LET eq == StrChr(w, 1, "=")
      k == IF eq = 0 THEN w ELSE SubSeq(w, 1, eq - 1)
      val == IF eq = 0 THEN OptionOnly ELSE Rest(w, eq + 1)
  IN [i \in DOMAIN t |-> IF Key(Names[i]) = k /\ val # <<>> THEN val ELSE t[i]]

IntendedOptions(s) ==
  FoldLeft(ApplyWord, [i \in 1..Len(Names) |-> Defaults[i]], Words(s))

\* A value the parser stores, with its NUL, fits def_val_str
\* [MAX_CMDLINE_VALUE_STRING_LEN]: the copy_size limit test keeps strncpy
\* and the def_val_str[copy_size] = '\0' inside the array.
ValueFits ==
  \A i \in DOMAIN opts : opts[i] = OptionOnly \/ Len(opts[i]) + 1 <= MaxValueLen

\* Every iteration of the outer loop moves p forward or returns, so the
\* parse ends.
ParseEnds == <>(status # "parsing")

\* The serial port base xmon_loader takes from the table is the
\* hexadecimal value of the iobase option's value, as the C standard
\* defines strtoul (sign, 0x prefix, ULONG_MAX on overflow), cut to the 16
\* bits of io_base: strtoul's digit loop and its overflow clamp give what
\* the standard says at every boundary of the value.
IoBaseIsOptionValue ==
  ioDone =>
    ioBase = StandardStrToUL16(opts[CHOOSE i \in 1..Len(Names) : Names[i] = IoBaseName]) % 2^16

\* A parse that returns XMON_LOADER_SUCCESS has set the table as the
\* option-table comment describes.
ParseAsDocumented ==
  status = "XMON_LOADER_SUCCESS" => opts = IntendedOptions(line)

=============================================================================
