------------------------------- MODULE TextTools -------------------------------
(***************************************************************************)
(* The conversions of text on which the names of shares, folders and files *)
(* depend: splitting the option "shared_folders", bringing the rest of a   *)
(* URL into the form of a relative path, percent-encoding of names and the *)
(* sizes shown in the lists of files (tools.c, percent_encoding.c).        *)
(*                                                                         *)
(* A string is a sequence of characters.  The properties compare each      *)
(* conversion with what it promises, for every input of the constants.     *)
(***************************************************************************)
EXTENDS Integers, Sequences, FiniteSets, SequencesExt

CONSTANTS
  Lists,      \* lists of [key, val, sep, delim] the user may write
  UrlTails,   \* rests of URLs, over "/" and names
  Sizes,      \* sizes of files
  Kilo,       \* 1024
  MaxInt      \* INT_MAX

Separators == {",", ";"}
Delimiters == {"|", ":"} \cup Separators

\* An entry in the documented form: a value without delimiters, or a name without
\* delimiters and a value without separators
Writable(o) ==
  /\ o.val # <<>>
  /\ ToSet(o.key) \cap Delimiters = {}
  /\ ToSet(o.val) \cap (IF o.key = <<>> THEN Delimiters ELSE Separators) = {}

ASSUME TextToolsAssumption ==
  /\ Lists \subseteq Seq([key : Seq(STRING), val : Seq(STRING),
                          sep : Separators, delim : Delimiters \ Separators])
  /\ \A list \in Lists : \A i \in DOMAIN list : Writable(list[i])
  /\ \A p \in UrlTails : p \in Seq(STRING)
  /\ Sizes \subseteq Nat
  /\ Kilo \in Nat \ {0}
  /\ MaxInt \in Nat

-----------------------------------------------------------------------------
\* split_shared_folder_str

\* sscanf's %[^...]: the end of the longest piece of s from i on without a
\* character of stop
EndOf(s, i, stop) ==
  CHOOSE e \in i - 1 .. Len(s) :
    /\ \A k \in i .. e : s[k] \notin stop
    /\ e = Len(s) \/ s[e + 1] \in stop

Skip(s, i) ==
  CHOOSE k \in i .. Len(s) + 1 :
    /\ \A n \in i .. k - 1 : s[n] \in Delimiters
    /\ k = Len(s) + 1 \/ s[k] \notin Delimiters

Entry(key, val) == [key |-> key, val |-> val]

Split_KeepsLength(s) ==
  LET from[i \in 1 .. Len(s) + 1] ==
        LET e == EndOf(s, i, Delimiters)
            token == SubSeq(s, i, e)
            valueEnd == EndOf(s, e + 2, Separators)
        IN IF e < i THEN <<>>
           ELSE IF e = Len(s) THEN <<Entry(<<>>, token)>>
           ELSE IF s[e + 1] \in Separators
                THEN <<Entry(<<>>, token)>> \o from[Skip(s, valueEnd + 1)]
           ELSE IF valueEnd < e + 2 THEN from[Skip(s, e + 1)]
           ELSE <<Entry(token, SubSeq(s, e + 2, valueEnd))>> \o from[Skip(s, valueEnd + 1)]
  IN from[1]

\* (D_Suffix before a definition D is a mutant of D.)
\* One turn of the loop reads a token and, behind "|" or ":", a value up to the
\* next separator; a token with nothing behind it is a value without a key, and
\* a key without a value is dropped.  A string that begins with a delimiter is
\* not read any further.
Split(s) ==
  LET from[i \in 1 .. Len(s) + 1] ==
        LET e == EndOf(s, i, Delimiters)
            token == SubSeq(s, i, e)
            valueEnd == EndOf(s, e + 2, Separators)
        IN IF e < i THEN <<>>
           ELSE IF e = Len(s) THEN <<Entry(<<>>, token)>>
           ELSE IF s[e + 1] \in Separators
                THEN <<Entry(<<>>, token)>> \o from[Skip(s, e + 1)]
           ELSE IF valueEnd < e + 2 THEN from[Skip(s, e + 1)]
           ELSE <<Entry(token, SubSeq(s, e + 2, valueEnd))>> \o from[Skip(s, valueEnd + 1)]
  IN from[1]

Written(list) ==
  FlattenSeq([i \in DOMAIN list |->
    (IF list[i].key = <<>> THEN <<>> ELSE list[i].key \o <<list[i].delim>>)
      \o list[i].val \o (IF i = Len(list) THEN <<>> ELSE <<list[i].sep>>)])

\* Every folder that the user writes in the documented form
\* "[optkey1<{:|}>]val1[<{,;}>[optkey2]<{:|}>]val2[...]]" (tools.c:156) is read
\* with its name, also when the path has a ":" or a "|" and a name is given.
OptionIsSplit ==
  \A list \in Lists :
    Split(Written(list)) = [i \in DOMAIN list |-> Entry(list[i].key, list[i].val)]

-----------------------------------------------------------------------------
\* consume_leading_slashs
NoLeading(p) ==
  SubSeq(p, CHOOSE i \in 1 .. Len(p) + 1 :
              /\ \A k \in 1 .. i - 1 : p[k] = "/"
              /\ i = Len(p) + 1 \/ p[i] # "/", Len(p))

\* rstrip_slash
NoTrailing(p) ==
  SubSeq(p, 1, CHOOSE i \in 0 .. Len(p) :
                 /\ \A k \in i + 1 .. Len(p) : p[k] = "/"
                 /\ i = 0 \/ p[i] # "/")

\* left_slashed_string_if_not_empty
LeftSlashed_KeepsEnd(p) ==
  IF p \in {<<>>, <<"/">>} THEN <<>> ELSE <<"/">> \o NoLeading(p)

LeftSlashed(p) ==
  IF p \in {<<>>, <<"/">>} THEN <<>> ELSE NoTrailing(<<"/">> \o NoLeading(p))

\* Two ways to write the same folder of a share in a URL, with more or fewer
\* slashes around it, become one relative path: "" or a path that begins with
\* one slash and ends with none, so that "<share path><relative path>" names the
\* folder and what is stored for a share can be compared.
FolderIsNormal ==
  \A p \in UrlTails :
    LET n == LeftSlashed(p) IN
    /\ \A before, after \in {<<>>, <<"/">>, <<"/", "/">>} :
         LeftSlashed(before \o p \o after) = n
    /\ n # <<>> => /\ n[1] = "/" /\ n[2] # "/"
                   /\ n[Len(n)] # "/"

-----------------------------------------------------------------------------
\* The rows of the bitmaps from " " on: a set bit stands for a character that is
\* encoded.  Control characters (the first four rows) always are.
Bitmap == [
  encodeURI          |-> <<37, 0, 0, 80, 0, 0, 0, 120, 1, 0, 0, 184>>,
  encodeURIComponent |-> <<125, 152, 0, 252, 1, 0, 0, 120, 1, 0, 0, 184>>,
  encodeAllReserved  |-> <<255, 159, 0, 252, 1, 0, 0, 120, 1, 0, 0, 184>>,
  encodeUnixPath     |-> <<255, 31, 0, 252, 1, 0, 0, 120, 1, 0, 0, 184>>]

Bit(byte, n) == (byte \div <<1, 2, 4, 8, 16, 32, 64, 128>>[n + 1]) % 2 = 1

\* __encode_by_map.  Bytes from 128 on are negative chars: never encoded.
Includes_NoSignTest(map, c) ==
  c % 128 < 32 \/ Bit(Bitmap[map][(c % 128) \div 8 - 3], c % 8)

Includes(map, c) ==
  c < 128 /\ (c < 32 \/ Bit(Bitmap[map][c \div 8 - 3], c % 8))

EncodeByMap(map, text) ==
  FlattenSeq([i \in DOMAIN text |->
    IF Includes(map, text[i]) THEN <<37, "hex", text[i]>> ELSE <<text[i]>>])

Letters == 65 .. 90 \cup 97 .. 122 \cup 48 .. 57
Mark == {45, 95, 46, 33, 126, 42, 39, 40, 41}          \* - _ . ! ~ * ' ( )
Reserved == {59, 47, 63, 58, 64, 38, 61, 43, 36, 44, 35}   \* ; / ? : @ & = + $ , #

\* What the comments say is left as it is (percent_encoding.c:126-157).
Documented == [
  encodeURI          |-> Letters \cup Mark \cup Reserved,
  encodeURIComponent |-> Letters \cup Mark,
  encodeAllReserved  |-> Letters \cup {45, 95, 126, 46},
  encodeUnixPath     |-> Letters \cup {45, 95, 126, 46, 47}]

\* Each encoding leaves exactly the documented characters and the bytes of
\* characters beyond ASCII as they are; the percent sign is always encoded, so
\* that decoding a link gives the name of the share or file back.
EncodingIsDocumented ==
  \A map \in DOMAIN Bitmap :
    /\ \A c \in 0 .. 255 : ~Includes(map, c) <=> c \in Documented[map] \cup 128 .. 255
    /\ Includes(map, 37)

-----------------------------------------------------------------------------
\* print_filesize_BIN64: the unit and the number in thousandths of the unit
Mega == Kilo * Kilo
Giga == Mega * Kilo

FileSize_NoMask(n) ==
  LET Of(unit) ==
        [unit |-> unit,
         milli |-> 1000 * (n \div unit) + (1000 * (n \div (unit \div Kilo))) \div Kilo]
  IN CASE n > Giga -> Of(Giga)
       [] n > Mega /\ n <= Giga -> Of(Mega)
       [] n >= Kilo /\ n <= Mega -> Of(Kilo)
       [] OTHER -> [unit |-> 1, milli |-> 1000 * n]

FileSize(n) ==
  LET Of(unit) ==
        [unit |-> unit,
         milli |-> 1000 * (n \div unit)
                     + (1000 * ((n % unit) \div (unit \div Kilo))) \div Kilo]
  IN CASE n > Giga -> Of(Giga)
       [] n > Mega /\ n <= Giga -> Of(Mega)
       [] n >= Kilo /\ n <= Mega -> Of(Kilo)
       [] OTHER -> [unit |-> 1, milli |-> 1000 * n]

\* "int s = st.st_size" of media_api_list
ListedSize(n) ==
  LET low == n % (2 * (MaxInt + 1))
  IN IF low <= MaxInt THEN low ELSE low - 2 * (MaxInt + 1)

\* The size of a file shown by the pages is its size rounded down, to less than two
\* thousandths of the unit (1000 \div Kilo is 0); the one in the JSON list is the
\* exact size of every file that an int can hold, and of no other.
SizeIsTrue ==
  \A n \in Sizes :
    LET shown == FileSize(n) IN
    /\ shown.milli * shown.unit <= 1000 * n
    /\ 1000 * n < (shown.milli + 2 + 1000 \div Kilo) * shown.unit
    /\ ListedSize(n) = n <=> n <= MaxInt
=============================================================================
