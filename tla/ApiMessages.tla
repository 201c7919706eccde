---------------------------- MODULE ApiMessages ----------------------------
(***************************************************************************)
(* The texts on the websocket.  To the page: a string in quotes            *)
(* (utf8_quote_with_escape), a message in chunks                           *)
(* (__chunked_websocket_vprintf), put together by ws.onmessage.  From the  *)
(* page: a command and its parameters (send_ws), taken apart by            *)
(* handle_command_p2.                                                      *)
(*                                                                         *)
(* A string is a sequence of bytes: "q" is the quote, "b" a backslash, "l" *)
(* begins a character of two bytes that "c" ends, "0" is the byte zero.    *)
(***************************************************************************)
EXTENDS Integers, Sequences, SequencesExt

CONSTANTS
  Strings,       \* strings of the status
  Lengths,       \* lengths of messages
  MaxWrite,      \* MAX_FD_WRITE_SIZE
  ShortLen,      \* SHORT_BUFFER_LEN
  MetaLen,       \* METADATA_LEN
  CommandTexts   \* commands with two parameters, as texts

\* No byte zero, and the two bytes of a character stand together
WellFormed(s) ==
  /\ "0" \notin ToSet(s)
  /\ \A i \in DOMAIN s : s[i] = "l" => i < Len(s) /\ s[i + 1] = "c"
  /\ \A i \in DOMAIN s : s[i] = "c" => i > 1 /\ s[i - 1] = "l"

\* mpv's strings are UTF-8 that a zero ends; the number and the id of a chunk are two
\* bytes each; the names of commands are words.
ASSUME ApiMessagesAssumption ==
  /\ \A s \in Strings : s \in Seq(STRING) /\ WellFormed(s)
  /\ Lengths \subseteq Nat
  /\ MaxWrite \in Nat /\ ShortLen \in Nat \ {0} /\ MetaLen \in Nat
  /\ 4 <= MetaLen /\ MetaLen < MaxWrite
  /\ \A c \in CommandTexts :
       /\ c \in [cmd : Seq(STRING), p1 : Seq(STRING), p2 : Seq(STRING)]
       /\ c.cmd # <<>> /\ "/" \notin ToSet(c.cmd)

-----------------------------------------------------------------------------
\* The index after the character at i (u8_inc); indices count from zero
NextChar(s, i) == IF s[i + 1] = "l" THEN i + 2 ELSE i + 1

\* Copies the characters of s from i on while i < end, with a backslash before
\* each quote: [out, i] afterwards.
Escaped(s, from, end) ==
  LET step[i \in Nat] ==
        IF i >= end \/ i >= Len(s) THEN [out |-> <<>>, i |-> i]
        ELSE LET n == NextChar(s, i)
                 t == step[n]
             IN [out |-> (IF s[i + 1] = "q" THEN <<"b">> ELSE <<>>) \o SubSeq(s, i + 1, n) \o t.out,
                 i   |-> t.i]
  IN step[from]

\* The last bytes of s from i on, filled up with zeros
Tail4(s, i) == SubSeq(s, i + 1, Len(s)) \o <<"0", "0", "0", "0", "0", "0", "0", "0">>

\* utf8_quote_with_escape.  The last four bytes are copied from a string of their
\* own, starting at the offset that the index has to len - 4.
Quote(s) ==
  LET head == Escaped(s, 0, Len(s) - 4)
      tail == Tail4(s, head.i)
  IN IF "q" \notin ToSet(s) THEN <<"q">> \o s \o <<"q">>
     ELSE <<"q">> \o head.out \o Escaped(tail, head.i - (Len(s) - 4), 4).out \o <<"q">>

\* JSON.parse of a string; NoString when it is not one
NoString == <<"none">>

Parsed(t) ==
  LET body == SubSeq(t, 2, Len(t) - 1)
      from[i \in 1 .. Len(body) + 2] ==
        IF i > Len(body) THEN <<>>
        ELSE IF body[i] = "b" THEN <<body[i + 1]>> \o from[i + 2]
        ELSE <<body[i]>> \o from[i + 1]
      \* the backslashes that escape, and the quotes that end the string too early
      escapes[i \in 0 .. Len(body)] == i > 0 /\ body[i] = "b" /\ ~escapes[i - 1]
      open == {i \in 1 .. Len(body) : body[i] = "q" /\ ~escapes[i - 1]}
      bad  == {i \in 1 .. Len(body) : escapes[i] /\ (i = Len(body) \/ body[i + 1] \notin {"q", "b"})}
  IN IF open \cup bad # {} \/ "0" \in ToSet(body) THEN NoString ELSE from[1]

\* No quote to escape, or enough bytes and no character across the last four bytes;
\* and no backslash, which is not escaped
Quotable(s) ==
  /\ "b" \notin ToSet(s)
  /\ "q" \in ToSet(s) => Len(s) >= 4 /\ s[Len(s) - 3] # "c"

StringsArrive == \A s \in Strings : Quotable(s) => Parsed(Quote(s)) = s

-----------------------------------------------------------------------------
\* (D_Suffix before a definition D is a mutant of D.)
RoundUp_Down(n, d) == n \div d

RoundUp(n, d) == (n + d - 1) \div d

Message(l) == [i \in 1 .. l |-> i]

\* The chunks of a message of length l: their number is rounded with a chunk size
\* that is smaller than what the loop writes.
Chunks(l) ==
  IF l < ShortLen THEN <<[num |-> 1, id |-> 0, bytes |-> l + MetaLen, data |-> Message(l)]>>
  ELSE LET num == RoundUp(l, MaxWrite - MetaLen)
       IN [k \in 1 .. num |->
             LET left == l - MaxWrite * (k - 1)
             IN [num |-> num, id |-> k - 1,
                 bytes |-> (IF left > MaxWrite THEN MaxWrite ELSE left) + MetaLen,
                 data |-> SubSeq(Message(l), MaxWrite * (k - 1) + 1,
                                 MaxWrite * (k - 1) + (IF left > MaxWrite THEN MaxWrite ELSE left))]]

\* ws.onmessage: got is what was put together, unhandled what waits.  A chunk too
\* short for its number and its id is not counted.
Received(t, chunk) ==
  IF chunk.bytes < 3 THEN t
  ELSE LET kept == IF chunk.id = 0 THEN <<>> ELSE t.unhandled
           now  == Append(kept, chunk.data)
       IN IF chunk.num = 1 THEN [got |-> Append(t.got, chunk.data), unhandled |-> kept]
          ELSE IF chunk.id = Len(kept) /\ Len(now) = chunk.num
               THEN [got |-> Append(t.got, FlattenSeq(now)), unhandled |-> <<>>]
          ELSE [got |-> t.got, unhandled |-> now]

\* Messages sent one after the other
Arrived(ls) ==
  LET chunks == FlattenSeq([k \in DOMAIN ls |-> Chunks(ls[k])])
      after[k \in 0 .. Len(chunks)] ==
        IF k = 0 THEN [got |-> <<>>, unhandled |-> <<>>] ELSE Received(after[k - 1], chunks[k])
  IN after[Len(chunks)]

\* The chunks that the loop writes are as many as were announced, or the last one
\* still holds its number and id.
Chunkable(l) ==
  l >= ShortLen => MaxWrite * (RoundUp(l, MaxWrite - MetaLen) - 1) - l < 2

MessagesArrive ==
  \A k, l \in Lengths : Chunkable(k) /\ Chunkable(l) => Arrived(<<k, l>>).got = <<Message(k), Message(l)>>

-----------------------------------------------------------------------------
\* send_ws: the command as it is sent.  encodeURIComponent replaces each "/" of a
\* parameter unless the caller prevents it.
Encoded(p) == [i \in DOMAIN p |-> IF p[i] = "/" THEN "%2F" ELSE p[i]]

Uri(c, encode) ==
  LET E(p) == IF encode THEN Encoded(p) ELSE p
  IN c.cmd \o <<"/">> \o E(c.p1) \o <<"/">> \o E(c.p2)

\* The parts of a text at its first two slashes (sscanf); neither the command nor the
\* first parameter is read when it is empty, and then nothing after it is.
SlashAfter(t, i) ==
  LET at == {k \in i + 1 .. Len(t) : t[k] = "/"}
  IN IF at = {} THEN Len(t) + 1 ELSE CHOOSE k \in at : \A j \in at : k <= j

Split(t) ==
  LET i == SlashAfter(t, 0)
      k == SlashAfter(t, i)
  IN IF i = 1 THEN [cmd |-> <<>>, p1 |-> <<>>, p2 |-> <<>>]
     ELSE [cmd |-> SubSeq(t, 1, i - 1), p1 |-> SubSeq(t, i + 1, k - 1),
           p2 |-> IF k = i + 1 THEN <<>> ELSE SubSeq(t, k + 1, Len(t))]

\* A command arrives with its parameters; the server does not decode them.
CommandsArrive ==
  \A c \in CommandTexts :
    /\ (c.p1 # <<>> \/ c.p2 = <<>>) =>
         Split(Uri(c, TRUE)) = [c EXCEPT !.p1 = Encoded(@), !.p2 = Encoded(@)]
    /\ (c.p1 # <<>> /\ "/" \notin ToSet(c.p1)) => Split(Uri(c, FALSE)) = c
=============================================================================
