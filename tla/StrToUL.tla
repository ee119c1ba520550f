------------------------------- MODULE StrToUL -------------------------------
(***************************************************************************)
(* strtoul of pre_os/xmon_loader/utils/string/string.c (the FreeBSD libkern *)
(* one): skip white space, take a sign, take a "0x" prefix in base 0 or    *)
(* 16, then read digits, clamping to ULONG_MAX once the value would pass   *)
(* it (the cutoff / cutlim test), and negate in unsigned arithmetic.       *)
(*                                                                         *)
(* A string is a sequence of one-character strings ("TAB" for '\t'); the  *)
(* characters are classified by their ASCII codes, as the code's          *)
(* arithmetic on them requires.  isspace, isdigit, isalpha and isupper    *)
(* read _ctype[], which is not part of the repository: isspace is the     *)
(* constant set Spaces, the others the ASCII classes.  unsigned long has   *)
(* ULongBits bits: 64 in the build, fewer under TLC, whose integers end at *)
(* 2^31 - 1; the clamp test is the same at every width.                    *)
(***************************************************************************)
EXTENDS Integers, Sequences, SequencesExt, TLC

CONSTANTS Spaces,     \* the characters isspace accepts
          ULongBits   \* the width of unsigned long

NUL == "NUL"

\* The character at position k of a NUL-terminated string s.
CharAt(s, k) == IF k <= Len(s) THEN s[k] ELSE NUL

\* ASCII codes of the characters the modelled strings hold.  The value
\* CMD_OPTION_PRESENT_BUT_NO_VALUE, one token in the models, reads as its
\* first character 'O'.
Ascii ==
  ("NUL" :> 0) @@ ("TAB" :> 9) @@ (" " :> 32) @@ ("+" :> 43) @@ ("-" :> 45)
  @@ ("0" :> 48) @@ ("1" :> 49) @@ ("5" :> 53) @@ ("=" :> 61) @@ ("F" :> 70)
  @@ ("X" :> 88) @@ ("f" :> 102) @@ ("g" :> 103) @@ ("i" :> 105)
  @@ ("o" :> 111) @@ ("x" :> 120) @@ ("OPTIONONLY" :> 79)

IsDigit(c) == Ascii[c] \in 48..57
IsUpper(c) == Ascii[c] \in 65..90
IsAlpha(c) == IsUpper(c) \/ Ascii[c] \in 97..122

\* #define ULONG_MAX, at ULongBits bits.
ULONG_MAX == 2^ULongBits - 1

\* while (isspace(c)) c = *s++: the position of the first other character.
RECURSIVE SkipSpaces(_, _)
SkipSpaces(s, k) == IF CharAt(s, k) \in Spaces THEN SkipSpaces(s, k + 1) ELSE k

\* The value of digit character c: c - '0', or c - ('A' - 10) / c - ('a' - 10).
DigitOf(c) ==
  IF IsDigit(c) THEN Ascii[c] - 48
  ELSE IF IsUpper(c) THEN Ascii[c] - 55 ELSE Ascii[c] - 87

\* The digit loop with acc >= cutoff for acc > cutoff.
RECURSIVE StrToULLoopCutoffOffByOne(_, _, _, _, _)
StrToULLoopCutoffOffByOne(s, k, base, acc, any) ==
  LET c == CharAt(s, k)
      cutoff == ULONG_MAX \div base
      cutlim == ULONG_MAX % base
  IN IF ~(IsDigit(c) \/ IsAlpha(c)) \/ DigitOf(c) >= base THEN [acc |-> acc, any |-> any]
     ELSE IF any < 0 \/ acc >= cutoff \/ (acc = cutoff /\ DigitOf(c) > cutlim)
          THEN StrToULLoopCutoffOffByOne(s, k + 1, base, acc, -1)
          ELSE StrToULLoopCutoffOffByOne(s, k + 1, base, acc * base + DigitOf(c), 1)

\* for (acc = 0, any = 0;; c = *s++): from position k, a character that is
\* not a digit or letter, or a digit not below base, ends the loop; once
\* acc * base + c would pass ULONG_MAX, any becomes -1 and acc stays.
RECURSIVE StrToULLoop(_, _, _, _, _)
StrToULLoop(s, k, base, acc, any) ==
  LET c == CharAt(s, k)
      cutoff == ULONG_MAX \div base
      cutlim == ULONG_MAX % base
  IN IF ~(IsDigit(c) \/ IsAlpha(c)) \/ DigitOf(c) >= base THEN [acc |-> acc, any |-> any]
     ELSE IF any < 0 \/ acc > cutoff \/ (acc = cutoff /\ DigitOf(c) > cutlim)
          THEN StrToULLoop(s, k + 1, base, acc, -1)
          ELSE StrToULLoop(s, k + 1, base, acc * base + DigitOf(c), 1)

\* strtoul(s, NULL, base0): the sign, the "0x" / "0X" prefix in base 0 or
\* 16 (taken whatever follows it), base 0 becoming 8 or 10, the loop, and
\* ULONG_MAX on overflow or -acc modulo 2^ULongBits for a '-'.
StrToUL(s, base0) ==
  LET k0 == SkipSpaces(s, 1)
      neg == CharAt(s, k0) = "-"
      k1 == IF CharAt(s, k0) \in {"-", "+"} THEN k0 + 1 ELSE k0
      hex == base0 \in {0, 16} /\ CharAt(s, k1) = "0" /\ CharAt(s, k1 + 1) \in {"x", "X"}
      k2 == IF hex THEN k1 + 2 ELSE k1
      base == IF hex THEN 16
              ELSE IF base0 = 0 THEN (IF CharAt(s, k2) = "0" THEN 8 ELSE 10)
              ELSE base0
      r == StrToULLoop(s, k2, base, 0, 0)
  IN IF r.any < 0 THEN ULONG_MAX
     ELSE IF neg THEN (2^ULongBits - r.acc) % 2^ULongBits
     ELSE r.acc

-----------------------------------------------------------------------------
(***************************************************************************)
(* strtoul in base 16 as the C standard (7.22.1.4) defines it: after      *)
(* white space and an optional sign, the subject sequence is an optional  *)
(* 0x or 0X and a non-empty run of hexadecimal digits; its value, negated *)
(* in the unsigned type after a '-', is the result, ULONG_MAX when the    *)
(* value is out of range, and 0 when there is no subject sequence.        *)
(***************************************************************************)
HexValue == ("0" :> 0) @@ ("1" :> 1) @@ ("5" :> 5) @@ ("f" :> 15) @@ ("F" :> 15)
HexDigits == DOMAIN HexValue

\* The longest run of hexadecimal digits of s from position k on.
RECURSIVE HexRun(_, _)
HexRun(s, k) ==
  IF k <= Len(s) /\ s[k] \in HexDigits THEN <<s[k]>> \o HexRun(s, k + 1) ELSE <<>>

StandardStrToUL16(s) ==
  LET k0 == CHOOSE k \in 1..Len(s) + 1 :
              /\ \A j \in 1..k - 1 : s[j] \in Spaces
              /\ k = Len(s) + 1 \/ s[k] \notin Spaces
      k1 == IF CharAt(s, k0) \in {"-", "+"} THEN k0 + 1 ELSE k0
      pre == CharAt(s, k1) = "0" /\ CharAt(s, k1 + 1) \in {"x", "X"}
                             /\ HexRun(s, k1 + 2) # <<>>
      run == HexRun(s, IF pre THEN k1 + 2 ELSE k1)
      v == FoldLeft(LAMBDA a, d : a * 16 + HexValue[d], 0, run)
  IN IF v > ULONG_MAX THEN ULONG_MAX
     ELSE IF CharAt(s, k0) = "-" THEN (2^ULongBits - v) % 2^ULongBits
     ELSE v

=============================================================================
