--------------------------- MODULE ApiMessages_proofs ---------------------------
(***************************************************************************)
(* Proofs about ApiMessages, for every string, length, size of the buffers *)
(* and command: what the page sends is what handle_command_p2 reads, the   *)
(* chunks of a message are put together to that message, and a string is   *)
(* read back from its quotes.                                              *)
(***************************************************************************)
EXTENDS ApiMessages, DataLemmas, TLAPS

-----------------------------------------------------------------------------
(* Commands and their parameters.                                          *)

\* The bytes that texts are made of (the provers are not told that literals are strings)
Byte == STRING \cup {"q", "b", "l", "c", "0", "/", "%2F"}

LEMMA TextsAreBytes ==
  ASSUME NEW s \in Seq(STRING)
  PROVE  s \in Seq(Byte)
<1> DEFINE X == Seq(STRING)
<1>1. STRING \subseteq Byte
  BY DEF Byte
<1>2. X \subseteq Seq(Byte)
  BY <1>1, SeqMonotonic
<1>3. s \in X
  OBVIOUS
<1> HIDE DEF X
<1>4. QED
  BY <1>2, <1>3

\* A text between its slashes
LEMMA PartsOf ==
  ASSUME NEW m \in Seq(Byte), NEW p \in Seq(Byte), NEW r \in Seq(Byte)
  PROVE  LET t == m \o <<"/">> \o p \o <<"/">> \o r IN
         /\ t \in Seq(Byte)
         /\ Len(t) = Len(m) + Len(p) + Len(r) + 2
         /\ \A i \in 1 .. Len(m) : t[i] = m[i]
         /\ t[Len(m) + 1] = "/"
         /\ \A i \in 1 .. Len(p) : t[Len(m) + 1 + i] = p[i]
         /\ t[Len(m) + Len(p) + 2] = "/"
         /\ \A i \in 1 .. Len(r) : t[Len(m) + Len(p) + 2 + i] = r[i]
<1> DEFINE d == <<"/">>
           u == m \o d \o p
           t == u \o d \o r
<1>1. d \in Seq(Byte) /\ Len(d) = 1 /\ d[1] = "/"
  <2>1. "/" \in Byte
    BY DEF Byte
  <2>2. QED
    BY <2>1
<1> HIDE DEF d
<1>2. Len(m) \in Nat /\ Len(p) \in Nat /\ Len(r) \in Nat
  OBVIOUS
<1>3. /\ u \in Seq(Byte)
      /\ Len(u) = Len(m) + Len(d) + Len(p)
      /\ \A i \in 1 .. Len(m) : u[i] = m[i]
      /\ \A i \in 1 .. Len(d) : u[Len(m) + i] = d[i]
      /\ \A i \in 1 .. Len(p) : u[Len(m) + Len(d) + i] = p[i]
  <2>1. d \in Seq(Byte)
    BY <1>1
  <2>2. QED
    BY <2>1, ThreeParts
<1> HIDE DEF u
<1>4. /\ t \in Seq(Byte)
      /\ Len(t) = Len(u) + Len(d) + Len(r)
      /\ \A i \in 1 .. Len(u) : t[i] = u[i]
      /\ \A i \in 1 .. Len(d) : t[Len(u) + i] = d[i]
      /\ \A i \in 1 .. Len(r) : t[Len(u) + Len(d) + i] = r[i]
  <2>1. u \in Seq(Byte) /\ d \in Seq(Byte)
    BY <1>1, <1>3
  <2>2. QED
    BY <2>1, ThreeParts
<1> HIDE DEF t
<1>5. Len(u) = Len(m) + 1 + Len(p)
  BY <1>1, <1>3
<1>6. \A i \in 1 .. Len(m) : t[i] = m[i]
  <2>1. \A i \in 1 .. Len(m) : i \in 1 .. Len(u)
    BY <1>2, <1>5
  <2>2. QED
    BY <2>1, <1>3, <1>4
<1>7. t[Len(m) + 1] = "/"
  <2>1. Len(m) + 1 \in 1 .. Len(u)
    BY <1>2, <1>5
  <2>2. u[Len(m) + 1] = "/"
    BY <1>1, <1>3
  <2>3. QED
    BY <2>1, <2>2, <1>4
<1>8. ASSUME NEW i \in 1 .. Len(p) PROVE t[Len(m) + 1 + i] = p[i]
  <2>1. Len(m) + 1 + i \in 1 .. Len(u)
    BY <1>2, <1>5
  <2>2. u[Len(m) + 1 + i] = p[i]
    BY <1>1, <1>3
  <2>3. QED
    BY <2>1, <2>2, <1>4
<1>9. t[Len(m) + Len(p) + 2] = "/"
  <2>1. Len(u) + 1 = Len(m) + Len(p) + 2
    BY <1>2, <1>5
  <2>2. t[Len(u) + 1] = "/"
    BY <1>1, <1>4
  <2>3. QED
    BY <2>1, <2>2
<1>10. ASSUME NEW i \in 1 .. Len(r) PROVE t[Len(m) + Len(p) + 2 + i] = r[i]
  <2>1. Len(u) + Len(d) + i = Len(m) + Len(p) + 2 + i
    BY <1>1, <1>2, <1>5
  <2>2. t[Len(u) + Len(d) + i] = r[i]
    BY <1>4
  <2>3. QED
    BY <2>1, <2>2
<1>11. Len(t) = Len(m) + Len(p) + Len(r) + 2
  BY <1>1, <1>2, <1>4, <1>5
<1>12. t = m \o <<"/">> \o p \o <<"/">> \o r
  BY DEF t, u, d
<1>13. QED
  BY <1>4, <1>6, <1>7, <1>8, <1>9, <1>10, <1>11, <1>12

\* Where the first slash is
LEMMA SlashAfterIs ==
  ASSUME NEW t \in Seq(Byte), NEW i \in 0 .. Len(t), NEW k \in i + 1 .. Len(t),
         t[k] = "/", \A j \in i + 1 .. k - 1 : t[j] # "/"
  PROVE  SlashAfter(t, i) = k
<1> DEFINE at == {j \in i + 1 .. Len(t) : t[j] = "/"}
           least == CHOOSE a \in at : \A j \in at : a <= j
<1>1. Len(t) \in Nat
  OBVIOUS
<1>2. k \in at
  OBVIOUS
<1>3. \A j \in at : k <= j
  <2>1. ASSUME NEW j \in at, ~(k <= j) PROVE FALSE
    <3>1. j \in i + 1 .. k - 1
      BY <1>1, <2>1
    <3>2. QED
      BY <3>1
  <2>2. QED
    BY <2>1
<1>4. at \subseteq Nat /\ SlashAfter(t, i) = least
  <2>1. SlashAfter(t, i) = IF at = {} THEN Len(t) + 1 ELSE least
    BY DEF SlashAfter
  <2>2. at \subseteq Nat
    OBVIOUS
  <2> HIDE DEF at
  <2>3. QED
    BY <1>2, <2>1, <2>2
<1> HIDE DEF at
<1>5. least \in at /\ \A j \in at : least <= j
  BY <1>2, <1>3
<1> HIDE DEF least
<1>6. least <= k /\ k <= least /\ least \in Nat /\ k \in Nat
  BY <1>2, <1>3, <1>4, <1>5
<1>7. QED
  BY <1>4, <1>6

\* What handle_command_p2 reads of a command and two parameters
LEMMA SplitIs ==
  ASSUME NEW m \in Seq(Byte), NEW p \in Seq(Byte), NEW r \in Seq(Byte),
         m # <<>>, p # <<>> \/ r = <<>>,
         \A i \in 1 .. Len(m) : m[i] # "/", \A i \in 1 .. Len(p) : p[i] # "/"
  PROVE  Split(m \o <<"/">> \o p \o <<"/">> \o r) = [cmd |-> m, p1 |-> p, p2 |-> r]
<1> DEFINE t == m \o <<"/">> \o p \o <<"/">> \o r
           i == Len(m) + 1
           k == Len(m) + Len(p) + 2
<1>1. /\ t \in Seq(Byte)
      /\ Len(t) = Len(m) + Len(p) + Len(r) + 2
      /\ \A j \in 1 .. Len(m) : t[j] = m[j]
      /\ t[Len(m) + 1] = "/"
      /\ \A j \in 1 .. Len(p) : t[Len(m) + 1 + j] = p[j]
      /\ t[Len(m) + Len(p) + 2] = "/"
      /\ \A j \in 1 .. Len(r) : t[Len(m) + Len(p) + 2 + j] = r[j]
  BY PartsOf
<1> HIDE DEF t
<1>2. Len(m) \in Nat /\ Len(p) \in Nat /\ Len(r) \in Nat /\ Len(t) \in Nat /\ Len(m) # 0
  BY <1>1
<1>3. i \in Nat /\ k \in Nat /\ i # 1
  BY <1>2
<1>4. SlashAfter(t, 0) = i
  <2>1. i \in 0 + 1 .. Len(t) /\ 0 \in 0 .. Len(t)
    BY <1>1, <1>2
  <2>2. ASSUME NEW j \in 0 + 1 .. i - 1 PROVE t[j] # "/"
    <3>1. j \in 1 .. Len(m)
      BY <1>2
    <3>2. t[j] = m[j]
      BY <1>1, <3>1
    <3>3. QED
      BY <3>1, <3>2
  <2> HIDE DEF i
  <2>3. t[i] = "/"
    BY <1>1 DEF i
  <2>4. QED
    BY <1>1, <2>1, <2>2, <2>3, SlashAfterIs
<1>5. SlashAfter(t, i) = k
  <2>1. k \in i + 1 .. Len(t) /\ i \in 0 .. Len(t)
    BY <1>1, <1>2
  <2>2. ASSUME NEW j \in i + 1 .. k - 1 PROVE t[j] # "/"
    <3>1. j - i \in 1 .. Len(p) /\ Len(m) + 1 + (j - i) = j
      BY <1>2
    <3>2. t[Len(m) + 1 + (j - i)] = p[j - i]
      BY <1>1, <3>1
    <3>3. QED
      BY <3>1, <3>2
  <2> HIDE DEF i, k
  <2>3. t[k] = "/"
    BY <1>1 DEF k
  <2>4. QED
    BY <1>1, <2>1, <2>2, <2>3, SlashAfterIs
<1>6. SubSeq(t, 1, i - 1) = m
  <2>1. i - 1 = 0 + Len(m) /\ 0 + Len(m) <= Len(t) /\ \A j \in 1 .. Len(m) : t[0 + j] = m[j]
    BY <1>1, <1>2
  <2>2. SubSeq(t, 0 + 1, 0 + Len(m)) = m
    BY <1>1, <2>1, PieceIs
  <2>3. QED
    BY <2>1, <2>2
<1>7. SubSeq(t, i + 1, k - 1) = p
  <2>1. k - 1 = i + Len(p) /\ i + Len(p) <= Len(t) /\ \A j \in 1 .. Len(p) : t[i + j] = p[j]
    BY <1>1, <1>2
  <2> HIDE DEF i
  <2>2. SubSeq(t, i + 1, i + Len(p)) = p
    BY <1>1, <1>3, <2>1, PieceIs
  <2>3. QED
    BY <2>1, <2>2
<1>8. SubSeq(t, k + 1, Len(t)) = r
  <2>1. Len(t) = k + Len(r) /\ k + Len(r) <= Len(t) /\ \A j \in 1 .. Len(r) : t[k + j] = r[j]
    BY <1>1, <1>2
  <2> HIDE DEF k
  <2>2. SubSeq(t, k + 1, k + Len(r)) = r
    BY <1>1, <1>3, <2>1, PieceIs
  <2>3. QED
    BY <2>1, <2>2
<1>9. k = i + 1 => r = <<>>
  <2>1. k = i + 1 => Len(p) = 0
    BY <1>2
  <2>2. Len(p) = 0 => p = <<>>
    OBVIOUS
  <2>3. QED
    BY <2>1, <2>2
<1> HIDE DEF i, k
<1>10. Split(t) = [cmd |-> m, p1 |-> p, p2 |-> IF k = i + 1 THEN <<>> ELSE r]
  BY <1>3, <1>4, <1>5, <1>6, <1>7, <1>8 DEF Split
<1>11. QED
  BY <1>9, <1>10 DEF t

\* A command arrives with its parameters (send_ws, handle_command_p2).
LEMMA CommandsAlwaysArrive == CommandsArrive
<1> SUFFICES ASSUME NEW c \in CommandTexts
             PROVE  /\ (c.p1 # <<>> \/ c.p2 = <<>>) =>
                         Split(Uri(c, TRUE)) = [c EXCEPT !.p1 = Encoded(@), !.p2 = Encoded(@)]
                    /\ (c.p1 # <<>> /\ "/" \notin ToSet(c.p1)) => Split(Uri(c, FALSE)) = c
  BY DEF CommandsArrive
<1> DEFINE X == Seq(STRING)
           m == c.cmd
           p == c.p1
           r == c.p2
<1>1. c \in [cmd : X, p1 : X, p2 : X] /\ m # <<>> /\ "/" \notin ToSet(m)
  BY ApiMessagesAssumption
<1>2. c = [cmd |-> m, p1 |-> p, p2 |-> r] /\ m \in X /\ p \in X /\ r \in X
  <2> HIDE DEF X
  <2>1. QED
    BY <1>1
<1>3. m \in Seq(Byte) /\ p \in Seq(Byte) /\ r \in Seq(Byte)
  BY <1>2, TextsAreBytes
<1> HIDE DEF X, m, p, r
<1>4. \A i \in 1 .. Len(m) : m[i] # "/"
  BY <1>1, <1>3 DEF ToSet
<1>5. ASSUME NEW t \in Seq(Byte)
      PROVE  /\ Encoded(t) \in Seq(Byte)
             /\ \A i \in 1 .. Len(Encoded(t)) : Encoded(t)[i] # "/"
             /\ t = <<>> <=> Encoded(t) = <<>>
  <2> DEFINE e == [i \in 1 .. Len(t) |-> IF t[i] = "/" THEN "%2F" ELSE t[i]]
  <2>1. Encoded(t) = e
    BY DEF Encoded
  <2>2. \A i \in 1 .. Len(t) : e[i] \in Byte /\ e[i] # "/"
    BY DEF Byte
  <2>3. e = [i \in 1 .. Len(t) |-> e[i]] /\ Len(t) \in Nat
    OBVIOUS
  <2> HIDE DEF e
  <2>4. e \in Seq(Byte) /\ Len(e) = Len(t)
    BY <2>2, <2>3
  <2>5. QED
    BY <2>1, <2>2, <2>4
<1>6. ASSUME p # <<>> \/ r = <<>>
      PROVE  Split(Uri(c, TRUE)) = [c EXCEPT !.p1 = Encoded(@), !.p2 = Encoded(@)]
  <2> DEFINE e == Encoded(p)
             f == Encoded(r)
  <2>1. /\ e \in Seq(Byte) /\ f \in Seq(Byte) /\ (e # <<>> \/ f = <<>>)
        /\ \A i \in 1 .. Len(e) : e[i] # "/"
    BY <1>3, <1>5, <1>6
  <2>2. Uri(c, TRUE) = m \o <<"/">> \o e \o <<"/">> \o f
    BY DEF Uri, m, p, r
  <2>3. [c EXCEPT !.p1 = Encoded(@), !.p2 = Encoded(@)] = [cmd |-> m, p1 |-> e, p2 |-> f]
    <3>1. [c EXCEPT !.p1 = Encoded(@), !.p2 = Encoded(@)]
             = [[c EXCEPT !.p1 = Encoded(c.p1)] EXCEPT !.p2 = Encoded(c.p2)]
      BY <1>2
    <3>2. c.p1 = p /\ c.p2 = r
      BY DEF p, r
    <3>3. [[c EXCEPT !.p1 = e] EXCEPT !.p2 = f] = [cmd |-> m, p1 |-> e, p2 |-> f]
      <4> DEFINE Y == Seq(Byte)
                 d == [[c EXCEPT !.p1 = e] EXCEPT !.p2 = f]
      <4>1. m \in Y /\ p \in Y /\ r \in Y /\ e \in Y /\ f \in Y
        BY <1>3, <2>1
      <4> HIDE DEF e, f, Y
      <4>2. c \in [cmd : Y, p1 : Y, p2 : Y] /\ c.cmd = m
        BY <1>2, <4>1
      <4>3. d \in [cmd : Y, p1 : Y, p2 : Y] /\ d.cmd = m /\ d.p1 = e /\ d.p2 = f
        BY <4>1, <4>2
      <4> HIDE DEF d
      <4>4. d = [cmd |-> d.cmd, p1 |-> d.p1, p2 |-> d.p2]
        BY <4>3
      <4>5. d = [cmd |-> m, p1 |-> e, p2 |-> f]
        BY <4>3, <4>4
      <4>6. QED
        BY <4>5 DEF d
    <3>4. Encoded(c.p1) = e /\ Encoded(c.p2) = f
      BY <3>2
    <3> HIDE DEF e, f
    <3>5. QED
      BY <3>1, <3>3, <3>4
  <2> HIDE DEF e, f
  <2>4. m # <<>>
    BY <1>1
  <2>5. Split(m \o <<"/">> \o e \o <<"/">> \o f) = [cmd |-> m, p1 |-> e, p2 |-> f]
    BY <1>3, <1>4, <2>1, <2>4, SplitIs
  <2>6. QED
    BY <2>2, <2>3, <2>5
<1>7. ASSUME p # <<>>, "/" \notin ToSet(p)
      PROVE  Split(Uri(c, FALSE)) = c
  <2>1. Uri(c, FALSE) = m \o <<"/">> \o p \o <<"/">> \o r
    BY DEF Uri, m, p, r
  <2>2. \A i \in 1 .. Len(p) : p[i] # "/"
    BY <1>3, <1>7 DEF ToSet
  <2>3. m # <<>>
    BY <1>1
  <2>4. Split(m \o <<"/">> \o p \o <<"/">> \o r) = [cmd |-> m, p1 |-> p, p2 |-> r]
    BY <1>3, <1>4, <1>7, <2>2, <2>3, SplitIs
  <2>5. QED
    BY <1>2, <2>1, <2>4
<1>8. QED
  BY <1>6, <1>7 DEF p, r

-----------------------------------------------------------------------------
(* Messages in chunks.                                                     *)

\* The texts that chunks carry
Data == Seq(Nat)

LEMMA MessageIs ==
  ASSUME NEW l \in Nat
  PROVE  Message(l) \in Data /\ Len(Message(l)) = l
<1> DEFINE t == Message(l)
<1>1. t = [i \in 1 .. l |-> t[i]] /\ \A i \in 1 .. l : t[i] \in Nat
  BY DEF Message
<1> HIDE DEF t
<1>2. QED
  BY <1>1 DEF Data, t

\* The chunks of a message (__chunked_websocket_vprintf)
LEMMA ChunksAre ==
  ASSUME NEW l \in Nat, Chunkable(l)
  PROVE  LET cs == Chunks(l)
             num == Len(cs)
         IN /\ cs \in Seq([num : Nat, id : Nat, bytes : Int, data : Data]) /\ num \in Nat \ {0}
            /\ \A k \in 1 .. num : cs[k].num = num /\ cs[k].id = k - 1 /\ cs[k].bytes >= 3
            /\ FlattenSeq([k \in 1 .. num |-> cs[k].data]) = Message(l)
<1> DEFINE C == [num : Nat, id : Nat, bytes : Int, data : Data]
           msg == Message(l)
<1>1. msg \in Data /\ Len(msg) = l
  BY MessageIs
<1>2. /\ MaxWrite \in Nat /\ ShortLen \in Nat \ {0} /\ MetaLen \in Nat
      /\ 4 <= MetaLen /\ MetaLen < MaxWrite
  BY ApiMessagesAssumption
<1> HIDE DEF msg
<1>3. CASE l < ShortLen
  <2> DEFINE c == [num |-> 1, id |-> 0, bytes |-> l + MetaLen, data |-> msg]
             cs == <<c>>
             ds == [k \in 1 .. 1 |-> cs[k].data]
  <2>1. Chunks(l) = cs
    BY <1>3 DEF Chunks, msg
  <2>2. c \in C /\ c.num = 1 /\ c.id = 0 /\ c.bytes >= 3 /\ c.data = msg
    BY <1>1, <1>2
  <2> HIDE DEF c, C
  <2>3. cs \in Seq(C) /\ Len(cs) = 1 /\ cs[1] = c
    BY <2>2
  <2>4. ds \in Seq(Data) /\ Len(ds) = 1 /\ ds[1] = msg
    <3> HIDE DEF cs
    <3>1. ds = [k \in 1 .. 1 |-> ds[k]] /\ ds[1] = msg /\ \A k \in 1 .. 1 : ds[k] \in Data
      BY <1>1, <2>2, <2>3
    <3> HIDE DEF ds
    <3>2. QED
      BY <3>1
  <2> HIDE DEF cs, ds
  <2>5. FlattenSeq(ds) = msg
    <3>1. PICK f \in [0 .. Len(ds) -> Data] :
             /\ f[0] = <<>>
             /\ \A k \in 1 .. Len(ds) : f[k] = f[k - 1] \o ds[k]
             /\ FlattenSeq(ds) = f[Len(ds)]
      BY <2>4, FlattenTurns DEF Data
    <3>2. f[1] = f[0] \o msg
      <4>1. 1 \in 1 .. Len(ds) /\ 1 - 1 = 0
        BY <2>4
      <4>2. f[1] = f[1 - 1] \o ds[1]
        BY <3>1, <4>1
      <4>3. QED
        BY <2>4, <4>1, <4>2
    <3>3. <<>> \o msg = msg
      BY <1>1, ConcatProperties DEF Data
    <3>4. QED
      BY <2>4, <3>1, <3>2, <3>3
  <2>6. /\ Len(cs) \in Nat \ {0}
        /\ \A k \in 1 .. Len(cs) : cs[k].num = Len(cs) /\ cs[k].id = k - 1 /\ cs[k].bytes >= 3
    BY <2>2, <2>3
  <2>7. FlattenSeq([k \in 1 .. Len(cs) |-> cs[k].data]) = msg
    <3>1. [k \in 1 .. Len(cs) |-> cs[k].data] = ds
      BY <2>3 DEF ds
    <3>2. QED
      BY <2>5, <3>1
  <2>8. QED
    BY <2>1, <2>3, <2>6, <2>7 DEF msg, C
<1>4. CASE ~(l < ShortLen)
  <2> DEFINE d == MaxWrite - MetaLen
             num == RoundUp(l, d)
             base(k) == MaxWrite * (k - 1)
             left(k) == l - base(k)
             size(k) == IF left(k) > MaxWrite THEN MaxWrite ELSE left(k)
             c(k) == [num |-> num, id |-> k - 1, bytes |-> size(k) + MetaLen,
                      data |-> SubSeq(msg, base(k) + 1, base(k) + size(k))]
             cs == [k \in 1 .. num |-> c(k)]
             ds == [k \in 1 .. num |-> cs[k].data]
  <2>1. Chunks(l) = cs
    BY <1>4 DEF Chunks, msg
  <2>2. num \in Nat \ {0} /\ l <= MaxWrite * num
    <3> DEFINE n == l + d - 1
               r == n % d
    <3>1. d \in Nat \ {0} /\ n \in Nat /\ l > 0
      BY <1>2, <1>4
    <3>2. num = n \div d
      BY DEF RoundUp
    <3>3. num \in Nat /\ r \in Nat /\ r < d /\ n = d * num + r
      <4> HIDE DEF n, d
      <4>1. n \div d \in Nat /\ n % d \in Nat /\ n % d < d /\ n = d * (n \div d) + (n % d)
        BY <3>1, Divided
      <4> HIDE DEF num
      <4>2. QED
        BY <3>2, <4>1
    <3> HIDE DEF num, r
    <3>4. MaxWrite * num = d * num + MetaLen * num /\ MetaLen * num \in Nat /\ d * num \in Nat
      BY <1>2, <3>1, <3>3
    <3> HIDE DEF d
    <3>5. d * num >= l
      BY <3>1, <3>3, <3>4
    <3>6. num # 0
      BY <3>1, <3>5
    <3>7. QED
      BY <1>2, <3>3, <3>4, <3>5, <3>6
  <2>3. MaxWrite * (num - 1) - l < 2
    BY <1>2, <1>4 DEF Chunkable
  <2> HIDE DEF num
  <2>4. ASSUME NEW k \in 1 .. num
        PROVE  /\ base(k) \in Nat /\ base(k) <= l + 1
               /\ MaxWrite * k = base(k) + MaxWrite
               /\ k # num => MaxWrite * k <= l + 1
               /\ size(k) \in Int /\ size(k) + MetaLen >= 3
    <3>1. k - 1 \in Nat /\ num - 1 \in Nat /\ k - 1 <= num - 1
      BY <2>2
    <3>2. MaxWrite * (k - 1) \in Nat /\ MaxWrite * k = MaxWrite * (k - 1) + MaxWrite
      BY <1>2, <3>1
    <3>3. MaxWrite * (k - 1) <= MaxWrite * (num - 1) /\ MaxWrite * (num - 1) \in Nat
      BY <1>2, <3>1, TimesGrows
    <3>4. k # num => MaxWrite * k <= MaxWrite * (num - 1)
      <4>1. k # num => k <= num - 1
        BY <2>2
      <4>2. QED
        BY <1>2, <3>1, <4>1, TimesGrows
    <3> DEFINE x == MaxWrite * (num - 1)
               y == MaxWrite * k
    <3>5. x \in Nat /\ base(k) <= x /\ x < l + 2 /\ (k # num => y <= x) /\ base(k) \in Nat /\ y = base(k) + MaxWrite
      BY <2>3, <3>2, <3>3, <3>4
    <3> HIDE DEF x, y, base
    <3>6. QED
      BY <1>2, <3>5 DEF y
  <2> DEFINE upto(k) == IF l <= MaxWrite * k THEN l ELSE MaxWrite * k
  <2>5. ASSUME NEW k \in 1 .. num
        PROVE  /\ base(k) + size(k) = upto(k)
               /\ upto(k) \in Nat /\ upto(k) <= l
               /\ base(k) <= l => upto(k - 1) = base(k) /\ base(k) <= upto(k)
               /\ ~(base(k) <= l) => upto(k - 1) = l /\ upto(k) = l
    <3> DEFINE y == MaxWrite * k
    <3>1. base(k) \in Nat /\ y = base(k) + MaxWrite /\ base(k) = MaxWrite * (k - 1)
      BY <2>4
    <3>2. upto(k) = (IF l <= y THEN l ELSE y) /\ upto(k - 1) = IF l <= base(k) THEN l ELSE base(k)
      OBVIOUS
    <3> HIDE DEF base, y, upto
    <3>3. QED
      BY <1>2, <3>1, <3>2
  <2>6. \A k \in 1 .. num : c(k).data = SubSeq(msg, base(k) + 1, upto(k))
    BY <2>5
  <2> HIDE DEF upto
  <2>7. ASSUME NEW k \in 1 .. num PROVE SubSeq(msg, base(k) + 1, upto(k)) \in Data
    <3> DEFINE a == base(k) + 1
               b == upto(k)
    <3>1. a \in Nat \ {0} /\ b \in Nat /\ b <= Len(msg)
      BY <1>1, <2>4, <2>5
    <3> HIDE DEF a, b
    <3>2. \A i \in a .. b : msg[i] \in Nat
      BY <1>1, <3>1 DEF Data
    <3>3. SubSeq(msg, a, b) \in Data
      BY <1>1, <3>1, <3>2 DEF Data
    <3>4. QED
      BY <3>3 DEF a, b
  <2>8. ASSUME NEW k \in 1 .. num
        PROVE  /\ c(k) \in C
               /\ c(k).num = num /\ c(k).id = k - 1 /\ c(k).bytes >= 3
    <3>1. c(k).data \in Data
      BY <2>6, <2>7
    <3>2. size(k) + MetaLen \in Int /\ size(k) + MetaLen >= 3
      BY <1>2, <2>4
    <3>3. num \in Nat /\ k - 1 \in Nat
      BY <2>2
    <3> DEFINE t == SubSeq(msg, base(k) + 1, base(k) + size(k))
               z == size(k) + MetaLen
    <3>4. t \in Data /\ z \in Int /\ z >= 3
      BY <3>1, <3>2
    <3> HIDE DEF t, z
    <3>5. c(k) = [num |-> num, id |-> k - 1, bytes |-> z, data |-> t]
      BY DEF t, z
    <3> HIDE DEF c
    <3>6. QED
      BY <3>3, <3>4, <3>5
  <2> HIDE DEF c, C
  <2>9. cs \in Seq(C) /\ Len(cs) = num /\ \A k \in 1 .. num : cs[k] = c(k)
    <3>1. cs = [k \in 1 .. num |-> cs[k]] /\ \A k \in 1 .. num : cs[k] = c(k) /\ cs[k] \in C
      BY <2>8
    <3> HIDE DEF cs
    <3>2. QED
      BY <2>2, <3>1
  <2>10. ds \in Seq(Data) /\ Len(ds) = num /\ \A k \in 1 .. num : ds[k] = SubSeq(msg, base(k) + 1, upto(k))
    <3> HIDE DEF cs, base
    <3>1. /\ ds = [k \in 1 .. num |-> ds[k]]
          /\ \A k \in 1 .. num : ds[k] = SubSeq(msg, base(k) + 1, upto(k)) /\ ds[k] \in Data
      BY <2>6, <2>7, <2>9
    <3> HIDE DEF ds
    <3>2. QED
      BY <2>2, <3>1
  <2> HIDE DEF cs, ds
  <2>11. PICK f \in [0 .. num -> Data] :
           /\ f[0] = <<>>
           /\ \A k \in 1 .. num : f[k] = f[k - 1] \o ds[k]
           /\ FlattenSeq(ds) = f[num]
    <3>1. \E f \in [0 .. Len(ds) -> Seq(Nat)] :
             /\ f[0] = <<>>
             /\ \A k \in 1 .. Len(ds) : f[k] = f[k - 1] \o ds[k]
             /\ FlattenSeq(ds) = f[Len(ds)]
      BY <2>10, FlattenTurns DEF Data
    <3>2. QED
      BY <2>10, <3>1 DEF Data
  <2> DEFINE K == {k \in 0 .. num : f[k] = SubSeq(msg, 1, upto(k))}
  <2>12. 0 \in K
    <3>1. upto(0) = 0
      BY <1>2 DEF upto
    <3>2. SubSeq(msg, 1, 0) = <<>>
      BY <1>1, SubSeqEmpty
    <3>3. f[0] = SubSeq(msg, 1, upto(0)) /\ 0 \in 0 .. num
      BY <2>2, <2>11, <3>1, <3>2
    <3>4. QED
      BY <3>3
  <2>13. ASSUME NEW k \in 1 .. num, k - 1 \in K PROVE k \in K
    <3> DEFINE a == base(k)
               b == upto(k)
               u == SubSeq(msg, 1, upto(k - 1))
    <3>1. f[k] = u \o SubSeq(msg, a + 1, b)
      BY <2>10, <2>11, <2>13
    <3>2. /\ a \in Nat /\ b \in Nat /\ b <= l
          /\ a <= l => upto(k - 1) = a /\ a <= b
          /\ ~(a <= l) => upto(k - 1) = l /\ b = l
      BY <2>4, <2>5
    <3>3. k \in 0 .. num
      BY <2>2
    <3> HIDE DEF a, b
    <3>4. CASE a <= l
      <4>1. SubSeq(msg, 1, a) \o SubSeq(msg, a + 1, b) = SubSeq(msg, 1, b)
        BY <1>1, <3>2, <3>4, PiecesJoin DEF Data
      <4>2. f[k] = SubSeq(msg, 1, b)
        BY <3>1, <3>2, <3>4, <4>1
      <4>3. QED
        BY <3>3, <4>2 DEF b
    <3>5. CASE ~(a <= l)
      <4>1. SubSeq(msg, 1, l) = msg
        BY <1>1, SubSeqFull DEF Data
      <4>2. SubSeq(msg, a + 1, b) = <<>>
        BY <1>1, <3>2, <3>5, SubSeqEmpty
      <4>3. msg \o <<>> = msg
        BY <1>1, ConcatProperties DEF Data
      <4>4. f[k] = msg /\ b = l
        BY <3>1, <3>2, <3>5, <4>1, <4>2, <4>3
      <4>5. QED
        BY <3>3, <4>1, <4>4 DEF b
    <3>6. QED
      BY <3>4, <3>5
  <2>14. num \in K
    <3>1. num \in 0 .. num /\ num \in Nat
      BY <2>2
    <3> HIDE DEF K
    <3>2. QED
      BY <2>12, <2>13, <3>1, TurnsKeep
  <2>15. FlattenSeq(ds) = msg
    <3>1. upto(num) = l
      BY <2>2 DEF upto
    <3>2. SubSeq(msg, 1, l) = msg
      BY <1>1, SubSeqFull DEF Data
    <3>3. QED
      BY <2>11, <2>14, <3>1, <3>2
  <2>16. FlattenSeq([k \in 1 .. Len(cs) |-> cs[k].data]) = msg
    <3>1. [k \in 1 .. Len(cs) |-> cs[k].data] = ds
      BY <2>9 DEF ds
    <3>2. QED
      BY <2>15, <3>1
  <2>17. /\ Len(cs) \in Nat \ {0}
         /\ \A k \in 1 .. Len(cs) : cs[k].num = Len(cs) /\ cs[k].id = k - 1 /\ cs[k].bytes >= 3
    BY <2>2, <2>8, <2>9
  <2>18. QED
    BY <2>1, <2>9, <2>16, <2>17 DEF msg, C
<1>5. QED
  BY <1>3, <1>4

\* The chunks, and what the page holds of them
ChunkSet == [num : Nat, id : Nat, bytes : Int, data : Data]
Reception == [got : Seq(Data), unhandled : Seq(Data)]

\* What a chunk leaves behind is again what was put together and what waits.
LEMMA ReceivedTyped ==
  ASSUME NEW t \in Reception, NEW c \in ChunkSet
  PROVE  Received(t, c) \in Reception
<1> DEFINE kept == IF c.id = 0 THEN <<>> ELSE t.unhandled
           now == Append(kept, c.data)
           D == Seq(Data)
<1>1. t.got \in D /\ t.unhandled \in D /\ c.data \in Data
  BY DEF Reception, ChunkSet
<1>2. <<>> \in D
  OBVIOUS
<1>3. kept \in D
  BY <1>1, <1>2
<1> HIDE DEF kept
<1>4. now \in D
  BY <1>1, <1>3
<1> HIDE DEF now
<1>5. FlattenSeq(now) \in Data
  BY <1>4, FlattenPlaces DEF Data
<1>6. Append(t.got, FlattenSeq(now)) \in D /\ Append(t.got, c.data) \in D
  BY <1>1, <1>5
<1> HIDE DEF D
<1>7. Received(t, c) =
        IF c.bytes < 3 THEN t
        ELSE IF c.num = 1 THEN [got |-> Append(t.got, c.data), unhandled |-> kept]
        ELSE IF c.id = Len(kept) /\ Len(now) = c.num
             THEN [got |-> Append(t.got, FlattenSeq(now)), unhandled |-> <<>>]
        ELSE [got |-> t.got, unhandled |-> now]
  BY DEF Received, kept, now
<1>8. QED
  BY <1>1, <1>2, <1>3, <1>4, <1>6, <1>7 DEF Reception, D

\* A message is put together when its last chunk comes (ws.onmessage).
LEMMA MessageJoined ==
  ASSUME NEW l \in Nat, Chunkable(l), NEW g \in Seq(Data), NEW a \in Nat, NEW after,
         after[a] = [got |-> g, unhandled |-> <<>>],
         \A j \in 1 .. Len(Chunks(l)) : after[a + j] = Received(after[a + j - 1], Chunks(l)[j])
  PROVE  after[a + Len(Chunks(l))] = [got |-> Append(g, Message(l)), unhandled |-> <<>>]
<1> DEFINE cs == Chunks(l)
           num == Len(cs)
           ds == [k \in 1 .. num |-> cs[k].data]
           first(j) == [k \in 1 .. j |-> ds[k]]
           K == {j \in 0 .. num - 1 : after[a + j] = [got |-> g, unhandled |-> first(j)]}
<1>1. /\ cs \in Seq(ChunkSet) /\ num \in Nat \ {0}
      /\ \A k \in 1 .. num : cs[k].num = num /\ cs[k].id = k - 1 /\ cs[k].bytes >= 3
      /\ FlattenSeq(ds) = Message(l)
  BY ChunksAre DEF ChunkSet
<1>a. \A k \in 1 .. num : cs[k] \in ChunkSet
  <2> HIDE DEF cs
  <2>1. QED
    BY <1>1
<1>2. ds \in Seq(Data) /\ Len(ds) = num /\ \A k \in 1 .. num : ds[k] = cs[k].data /\ ds[k] \in Data
  <2> HIDE DEF num, cs
  <2>1. \A k \in 1 .. num : cs[k].data \in Data
    BY <1>a DEF ChunkSet
  <2>2. /\ ds = [k \in 1 .. num |-> ds[k]]
        /\ \A k \in 1 .. num : ds[k] = cs[k].data /\ ds[k] \in Data
    BY <2>1
  <2>3. num \in Nat
    BY <1>1
  <2> HIDE DEF ds
  <2>4. QED
    BY <2>2, <2>3
<1>3. \A j \in 1 .. num : after[a + j] = Received(after[a + j - 1], cs[j])
  OBVIOUS
<1> HIDE DEF cs, num, ds
<1>4. ASSUME NEW j \in 1 .. num, after[a + j - 1] = [got |-> g, unhandled |-> first(j - 1)]
      PROVE  after[a + j] =
               IF num = 1 THEN [got |-> Append(g, ds[j]), unhandled |-> <<>>]
               ELSE IF j = num THEN [got |-> Append(g, FlattenSeq(first(j))), unhandled |-> <<>>]
               ELSE [got |-> g, unhandled |-> first(j)]
  <2> DEFINE u == first(j - 1)
             w == first(j)
             c == cs[j]
             t == [got |-> g, unhandled |-> u]
             kept == IF c.id = 0 THEN <<>> ELSE t.unhandled
             now == Append(kept, c.data)
  <2>1. u \in Seq(Data) /\ Len(u) = j - 1 /\ Append(u, ds[j]) = w
    BY <1>2, FirstGrow
  <2>2. c.num = num /\ c.id = j - 1 /\ ~(c.bytes < 3) /\ c.data = ds[j]
    <3>1. cs[j] \in ChunkSet
      BY <1>a
    <3>2. cs[j].bytes \in Int
      BY <3>1 DEF ChunkSet
    <3>3. QED
      BY <1>1, <1>2, <3>2
  <2>3. after[a + j] = Received(t, c)
    BY <1>3, <1>4
  <2> HIDE DEF u, w, c, first
  <2>4. t.got = g /\ t.unhandled = u
    OBVIOUS
  <2> HIDE DEF t
  <2>5. kept = u
    <3>1. j - 1 = 0 => u = <<>>
      BY <2>1
    <3>2. QED
      BY <2>2, <2>4, <3>1
  <2> HIDE DEF kept
  <2>6. now = w
    BY <2>1, <2>2, <2>5
  <2>7. Len(w) = j
    <3>1. ds[j] \in Data
      BY <1>2
    <3>2. Len(Append(u, ds[j])) = j
      BY <2>1, <3>1
    <3>3. QED
      BY <2>1, <3>2
  <2> HIDE DEF now
  <2>8. Received(t, c) =
          IF c.bytes < 3 THEN t
          ELSE IF c.num = 1 THEN [got |-> Append(t.got, c.data), unhandled |-> kept]
          ELSE IF c.id = Len(kept) /\ Len(now) = c.num
               THEN [got |-> Append(t.got, FlattenSeq(now)), unhandled |-> <<>>]
          ELSE [got |-> t.got, unhandled |-> now]
    BY DEF Received, kept, now
  <2>9. Received(t, c) =
          IF num = 1 THEN [got |-> Append(g, ds[j]), unhandled |-> u]
          ELSE IF j = num THEN [got |-> Append(g, FlattenSeq(w)), unhandled |-> <<>>]
          ELSE [got |-> g, unhandled |-> w]
    BY <2>1, <2>2, <2>4, <2>5, <2>6, <2>7, <2>8
  <2>10. num = 1 => u = <<>>
    <3>1. num = 1 => j - 1 = 0
      OBVIOUS
    <3>2. QED
      BY <2>1, <3>1
  <2>11. after[a + j] =
           IF num = 1 THEN [got |-> Append(g, ds[j]), unhandled |-> <<>>]
           ELSE IF j = num THEN [got |-> Append(g, FlattenSeq(w)), unhandled |-> <<>>]
           ELSE [got |-> g, unhandled |-> w]
    BY <2>3, <2>9, <2>10
  <2>12. QED
    BY <2>11 DEF w
<1>5. 0 \in K
  <2>1. first(0) = <<>>
    OBVIOUS
  <2> HIDE DEF first
  <2>2. a + 0 = a /\ 0 \in 0 .. num - 1
    BY <1>1
  <2>3. QED
    BY <2>1, <2>2
<1>6. ASSUME NEW j \in 1 .. num - 1, j - 1 \in K PROVE j \in K
  <2> HIDE DEF first
  <2>1. j \in 1 .. num /\ j # num /\ num # 1 /\ a + (j - 1) = a + j - 1 /\ j \in 0 .. num - 1
    BY <1>1
  <2>2. after[a + j - 1] = [got |-> g, unhandled |-> first(j - 1)]
    BY <1>6, <2>1
  <2>3. after[a + j] = [got |-> g, unhandled |-> first(j)]
    BY <1>4, <2>1, <2>2
  <2>4. QED
    BY <2>1, <2>3
<1> HIDE DEF first
<1>7. after[a + num - 1] = [got |-> g, unhandled |-> first(num - 1)]
  <2>1. num - 1 \in Nat /\ num - 1 \in 0 .. num - 1 /\ a + (num - 1) = a + num - 1
    BY <1>1
  <2>2. \A j \in 1 .. num - 1 : j - 1 \in K => j \in K
    BY <1>6
  <2> HIDE DEF K
  <2>3. num - 1 \in K
    BY <1>5, <2>1, <2>2, TurnsKeep
  <2>4. after[a + (num - 1)] = [got |-> g, unhandled |-> first(num - 1)]
    BY <2>3 DEF K
  <2>5. QED
    BY <2>1, <2>4
<1>8. after[a + num] = [got |-> Append(g, Message(l)), unhandled |-> <<>>]
  <2>1. num \in 1 .. num
    BY <1>1
  <2>2. after[a + num] =
          IF num = 1 THEN [got |-> Append(g, ds[num]), unhandled |-> <<>>]
          ELSE [got |-> Append(g, FlattenSeq(first(num))), unhandled |-> <<>>]
    BY <1>4, <1>7, <2>1
  <2>3. first(num) = ds
    <3>1. [k \in 1 .. num |-> ds[k]] = ds
      BY <1>2
    <3>2. QED
      BY <3>1 DEF first
  <2>4. num = 1 => ds[num] = FlattenSeq(ds)
    <3>1. PICK f \in [0 .. Len(ds) -> Seq(Nat)] :
             /\ f[0] = <<>>
             /\ \A k \in 1 .. Len(ds) : f[k] = f[k - 1] \o ds[k]
             /\ FlattenSeq(ds) = f[Len(ds)]
      BY <1>2, FlattenTurns DEF Data
    <3>2. ASSUME num = 1 PROVE ds[1] = FlattenSeq(ds)
      <4>1. 1 \in 1 .. Len(ds) /\ 1 - 1 = 0 /\ Len(ds) = 1
        BY <1>2, <3>2
      <4>2. f[1] = f[1 - 1] \o ds[1]
        BY <3>1, <4>1
      <4>3. ds[1] \in Seq(Nat)
        <5>1. 1 \in 1 .. num
          BY <3>2
        <5>2. QED
          BY <1>2, <5>1 DEF Data
      <4>4. <<>> \o ds[1] = ds[1]
        BY <4>3, ConcatProperties
      <4>5. QED
        BY <3>1, <4>1, <4>2, <4>4
    <3>3. QED
      BY <3>2
  <2>5. QED
    BY <1>1, <2>2, <2>3, <2>4
<1>9. QED
  BY <1>8 DEF num, cs

\* Messages sent one after the other arrive, each of them whole and in their order.
LEMMA MessagesAlwaysArrive == MessagesArrive
<1> SUFFICES ASSUME NEW k \in Lengths, NEW l \in Lengths, Chunkable(k), Chunkable(l)
             PROVE  Arrived(<<k, l>>).got = <<Message(k), Message(l)>>
  BY DEF MessagesArrive
<1> DEFINE ls == <<k, l>>
           C == Seq(ChunkSet)
           a == Chunks(k)
           b == Chunks(l)
           css == [j \in DOMAIN ls |-> Chunks(ls[j])]
           all == FlattenSeq(css)
           s == [got |-> <<>>, unhandled |-> <<>>]
           After(h) == [j \in 0 .. Len(all) |-> IF j = 0 THEN s ELSE Received(h[j - 1], all[j])]
           after == CHOOSE h : h = After(h)
<1>1. k \in Nat /\ l \in Nat
  BY ApiMessagesAssumption
<1>2. a \in C /\ b \in C
  BY <1>1, ChunksAre DEF ChunkSet
<1>3. css \in Seq(C) /\ Len(css) = 2 /\ css[1] = a /\ css[2] = b
  <2> HIDE DEF C
  <2>1. DOMAIN ls = 1 .. 2 /\ ls[1] = k /\ ls[2] = l
    OBVIOUS
  <2>2. css = [j \in 1 .. 2 |-> css[j]] /\ css[1] = a /\ css[2] = b
    BY <2>1
  <2>3. \A j \in 1 .. 2 : css[j] \in C
    <3>1. \A j \in 1 .. 2 : j = 1 \/ j = 2
      OBVIOUS
    <3>2. QED
      BY <1>2, <2>2, <3>1
  <2> HIDE DEF css, a, b
  <2>4. QED
    BY <2>2, <2>3
<1> HIDE DEF css
<1>4. Len(a) \in Nat /\ Len(b) \in Nat
  BY <1>2
<1>5. /\ all \in C /\ Len(all) = Len(a) + Len(b)
      /\ \A j \in 1 .. Len(a) : all[j] = a[j]
      /\ \A j \in 1 .. Len(b) : all[Len(a) + j] = b[j]
  <2>1. PICK at \in [0 .. Len(css) -> Nat] :
              /\ at[0] = 0 /\ at[Len(css)] = Len(all)
              /\ \A i \in 1 .. Len(css) :
                   /\ at[i] = at[i - 1] + Len(css[i])
                   /\ at[i] <= Len(all)
                   /\ \A j \in 1 .. Len(css[i]) : all[at[i - 1] + j] = css[i][j]
    <3>1. css \in Seq(Seq(ChunkSet))
      BY <1>3
    <3>2. QED
      BY <3>1, FlattenPlaces DEF all
  <2>2. all \in C
    BY <1>3, FlattenPlaces
  <2>3. 1 \in 1 .. Len(css) /\ 2 \in 1 .. Len(css) /\ 1 - 1 = 0 /\ 2 - 1 = 1 /\ Len(css) = 2
    BY <1>3
  <2>4. at[1] = at[1 - 1] + Len(css[1]) /\ \A j \in 1 .. Len(css[1]) : all[at[1 - 1] + j] = css[1][j]
    BY <2>1, <2>3
  <2>5. at[2] = at[2 - 1] + Len(css[2]) /\ \A j \in 1 .. Len(css[2]) : all[at[2 - 1] + j] = css[2][j]
    BY <2>1, <2>3
  <2> HIDE DEF all, a, b, C
  <2>6. at[1] = Len(a) /\ at[2] = Len(a) + Len(b) /\ at[2] = Len(all)
    BY <1>3, <1>4, <2>1, <2>3, <2>4, <2>5
  <2>7. \A j \in 1 .. Len(a) : all[j] = a[j]
    <3>1. \A j \in 1 .. Len(a) : all[0 + j] = a[j]
      BY <1>3, <2>1, <2>3, <2>4
    <3>2. \A j \in 1 .. Len(a) : 0 + j = j
      BY <1>4
    <3>3. QED
      BY <3>1, <3>2
  <2>8. QED
    BY <1>3, <2>2, <2>3, <2>5, <2>6, <2>7
<1> HIDE DEF all, a, b
<1>6. s \in Reception
  <2>1. <<>> \in Seq(Data)
    OBVIOUS
  <2>2. QED
    BY <2>1 DEF Reception
<1>7. after = After(after)
  <2> DEFINE n == Len(all)
             g == [j \in 1 .. n |-> [t \in Reception |-> Received(t, all[j])]]
  <2>1. n \in Nat /\ \A j \in 1 .. n : all[j] \in ChunkSet
    BY <1>5
  <2> HIDE DEF n, s, Reception
  <2>2. g \in [1 .. n -> [Reception -> Reception]]
    BY <2>1, ReceivedTyped
  <2> HIDE DEF g
  <2>3. PICK f \in [0 .. n -> Reception] : Turns(f, n, s, g)
    BY <1>6, <2>1, <2>2, TurnsExist
  <2>4. f[0] = s /\ \A j \in 1 .. n : f[j] = g[j][f[j - 1]]
    BY <2>3 DEF Turns
  <2>5. ASSUME NEW j \in 0 .. n PROVE f[j] = IF j = 0 THEN s ELSE Received(f[j - 1], all[j])
    <3>1. CASE j = 0
      BY <3>1, <2>4
    <3>2. CASE j # 0
      <4>1. j \in 1 .. n /\ j - 1 \in 0 .. n
        BY <2>1, <3>2
      <4>2. f[j - 1] \in Reception
        BY <4>1
      <4>3. g[j][f[j - 1]] = Received(f[j - 1], all[j])
        BY <4>1, <4>2 DEF g
      <4>4. QED
        BY <2>4, <3>2, <4>1, <4>3
    <3>3. QED
      BY <3>1, <3>2
  <2>6. f = After(f)
    BY <2>5 DEF n
  <2> HIDE DEF After
  <2>7. QED
    BY <2>6
<1> HIDE DEF after
<1>8. Arrived(<<k, l>>) = after[Len(all)]
  BY DEF Arrived, after, all, css
<1>9. Len(all) \in Nat
  BY <1>5
<1>10. after[0] = s /\ \A j \in 1 .. Len(all) : after[j] = Received(after[j - 1], all[j])
  <2>1. 0 \in 0 .. Len(all) /\ \A j \in 1 .. Len(all) : j \in 0 .. Len(all) /\ j # 0
    BY <1>9
  <2>2. \A j \in 0 .. Len(all) : after[j] = IF j = 0 THEN s ELSE Received(after[j - 1], all[j])
    BY <1>7
  <2> HIDE DEF After, s
  <2>3. QED
    BY <2>1, <2>2
<1> HIDE DEF After
<1> DEFINE g == <<Message(k)>>
<1>11. after[Len(a)] = [got |-> g, unhandled |-> <<>>]
  <2> DEFINE e == <<>>
  <2>1. e \in Seq(Data) /\ 0 \in Nat
    OBVIOUS
  <2>2. \A j \in 1 .. Len(Chunks(k)) : after[0 + j] = Received(after[0 + j - 1], Chunks(k)[j])
    <3>1. ASSUME NEW j \in 1 .. Len(a) PROVE after[0 + j] = Received(after[0 + j - 1], a[j])
      <4>1. j \in 1 .. Len(all) /\ 0 + j = j /\ 0 + j - 1 = j - 1
        BY <1>4, <1>5
      <4>2. after[j] = Received(after[j - 1], all[j]) /\ all[j] = a[j]
        BY <1>5, <1>10, <4>1
      <4>3. QED
        BY <4>1, <4>2
    <3>2. QED
      BY <3>1 DEF a
  <2>3. after[0] = [got |-> e, unhandled |-> <<>>]
    BY <1>10
  <2>4. after[0 + Len(Chunks(k))] = [got |-> Append(e, Message(k)), unhandled |-> <<>>]
    <3> HIDE DEF e
    <3>1. QED
      BY <1>1, <2>1, <2>2, <2>3, MessageJoined
  <2>5. 0 + Len(a) = Len(a)
    BY <1>4
  <2>6. Append(e, Message(k)) = g
    BY <1>1, MessageIs
  <2>7. QED
    BY <2>4, <2>5, <2>6 DEF a
<1>12. g \in Seq(Data)
  BY <1>1, MessageIs
<1>13. after[Len(all)] = [got |-> Append(g, Message(l)), unhandled |-> <<>>]
  <2> HIDE DEF g
  <2> DEFINE m == Len(a)
  <2>1. m \in Nat
    BY <1>4
  <2>2. \A j \in 1 .. Len(Chunks(l)) : after[m + j] = Received(after[m + j - 1], Chunks(l)[j])
    <3>1. ASSUME NEW j \in 1 .. Len(b) PROVE after[m + j] = Received(after[m + j - 1], b[j])
      <4>1. m + j \in 1 .. Len(all)
        BY <1>4, <1>5
      <4>2. after[m + j] = Received(after[m + j - 1], all[m + j]) /\ all[m + j] = b[j]
        BY <1>5, <1>10, <4>1
      <4>3. QED
        BY <4>2
    <3>2. QED
      BY <3>1 DEF b
  <2>3. after[m] = [got |-> g, unhandled |-> <<>>]
    BY <1>11
  <2> HIDE DEF m
  <2>4. after[m + Len(Chunks(l))] = [got |-> Append(g, Message(l)), unhandled |-> <<>>]
    BY <1>1, <1>12, <2>1, <2>2, <2>3, MessageJoined
  <2>5. QED
    BY <1>5, <2>4 DEF m, b
<1>14. Append(g, Message(l)) = <<Message(k), Message(l)>>
  <2> DEFINE x == Message(k)
             y == Message(l)
  <2>1. x \in Data /\ y \in Data
    BY <1>1, MessageIs
  <2> HIDE DEF x, y
  <2> DEFINE o == <<x>>
             p == Append(o, y)
             q == <<x, y>>
  <2>a. o \in Seq(Data) /\ Len(o) = 1 /\ o[1] = x
    BY <2>1
  <2> HIDE DEF o
  <2>b. p \in Seq(Data) /\ Len(p) = 2 /\ p[1] = x /\ p[2] = y
    <3>1. /\ p \in Seq(Data) /\ Len(p) = Len(o) + 1
          /\ \A i \in 1 .. Len(o) : p[i] = o[i]
          /\ p[Len(o) + 1] = y
      <4>1. o \in Seq(Data) /\ y \in Data
        BY <2>1, <2>a
      <4>2. QED
        BY <4>1, AppendProperties
    <3> HIDE DEF p
    <3>2. 1 \in 1 .. Len(o) /\ Len(o) + 1 = 2
      BY <2>a
    <3>3. QED
      BY <3>1, <3>2, <2>a
  <2>c. q \in Seq(Data) /\ Len(q) = 2 /\ q[1] = x /\ q[2] = y
    BY <2>1
  <2> HIDE DEF p, q
  <2>d. \A i \in 1 .. 2 : p[i] = q[i]
    <3>1. \A i \in 1 .. 2 : i = 1 \/ i = 2
      OBVIOUS
    <3>2. QED
      BY <3>1, <2>b, <2>c
  <2>2. p = q
    BY <2>b, <2>c, <2>d, SeqEqual
  <2>3. QED
    BY <2>2 DEF p, q, o, x, y
<1>15. QED
  BY <1>8, <1>13, <1>14

-----------------------------------------------------------------------------
(* Strings in quotes.                                                      *)

\* A byte of a string as it is sent, and the strings that are left from each byte on
Escape(x) == IF x = "q" THEN <<"b", "q">> ELSE <<x>>
EscapedFrom(s, n, H) ==
  /\ H \in [0 .. n -> Seq(Byte)]
  /\ \A i \in 1 .. n : H[i - 1] = Escape(s[i]) \o H[i]

\* Three texts joined in either order
LEMMA BytesJoin == \A v, o, r \in Seq(Byte) : (v \o o) \o r = v \o (o \o r)
<1>1. SUFFICES ASSUME NEW v \in Seq(Byte), NEW o \in Seq(Byte), NEW r \in Seq(Byte)
               PROVE  (v \o o) \o r = v \o (o \o r)
  OBVIOUS
<1>2. QED
  BY ConcatAssociative

\* A quote becomes two bytes, every other byte stays.
LEMMA EscapeIs ==
  ASSUME NEW x \in Byte
  PROVE  LET e == Escape(x)
         IN /\ e \in Seq(Byte)
            /\ x = "q" => Len(e) = 2 /\ e[1] = "b" /\ e[2] = "q"
            /\ x # "q" => Len(e) = 1 /\ e[1] = x
<1>1. "b" \in Byte /\ "q" \in Byte
  BY DEF Byte
<1>2. CASE x = "q"
  <2> DEFINE e == <<"b", "q">>
  <2>1. e \in Seq(Byte) /\ Len(e) = 2 /\ e[1] = "b" /\ e[2] = "q"
    BY <1>1
  <2>2. Escape(x) = e
    BY <1>2 DEF Escape
  <2>3. QED
    BY <1>2, <2>1, <2>2
<1>3. CASE x # "q"
  <2> DEFINE e == <<x>>
  <2>1. e \in Seq(Byte) /\ Len(e) = 1 /\ e[1] = x
    OBVIOUS
  <2>2. Escape(x) = e
    BY <1>3 DEF Escape
  <2>3. QED
    BY <1>3, <2>1, <2>2
<1>4. QED
  BY <1>2, <1>3

\* Every string has its escaped ends, the one behind its last byte being empty.
LEMMA EscapedFromExists ==
  ASSUME NEW s \in Seq(Byte)
  PROVE  \E H : EscapedFrom(s, Len(s), H) /\ H[Len(s)] = <<>>
<1> DEFINE n == Len(s)
           D == Seq(Byte)
           g == [k \in 1 .. n |-> [t \in D |-> Escape(s[n + 1 - k]) \o t]]
<1>1. n \in Nat /\ \A i \in 1 .. n : Escape(s[i]) \in D
  BY EscapeIs
<1>2. <<>> \in D
  OBVIOUS
<1>3. \A u, v \in D : u \o v \in D
  OBVIOUS
<1> HIDE DEF n, D
<1>4. g \in [1 .. n -> [D -> D]]
  <2>1. \A k \in 1 .. n : n + 1 - k \in 1 .. n
    BY <1>1
  <2>2. QED
    BY <1>1, <1>3, <2>1
<1> HIDE DEF g
<1>5. PICK f \in [0 .. n -> D] : Turns(f, n, <<>>, g)
  BY <1>1, <1>2, <1>4, TurnsExist
<1>6. f[0] = <<>> /\ \A k \in 1 .. n : f[k] = g[k][f[k - 1]]
  BY <1>5 DEF Turns
<1> DEFINE H == [i \in 0 .. n |-> f[n - i]]
<1>7. H \in [0 .. n -> D]
  <2>1. \A i \in 0 .. n : n - i \in 0 .. n
    BY <1>1
  <2>2. QED
    BY <2>1
<1>8. ASSUME NEW i \in 1 .. n PROVE H[i - 1] = Escape(s[i]) \o H[i]
  <2> DEFINE k == n + 1 - i
  <2>1. /\ k \in 1 .. n /\ k - 1 \in 0 .. n /\ n + 1 - k = i
        /\ n - (i - 1) = k /\ n - i = k - 1 /\ i \in 0 .. n /\ i - 1 \in 0 .. n
    BY <1>1
  <2>2. H[i - 1] = f[k] /\ H[i] = f[k - 1] /\ f[k - 1] \in D
    BY <2>1
  <2> HIDE DEF k, H
  <2>3. g[k][f[k - 1]] = Escape(s[n + 1 - k]) \o f[k - 1]
    BY <2>1, <2>2 DEF g
  <2>4. QED
    BY <1>6, <2>1, <2>2, <2>3
<1>9. H[n] = <<>>
  <2>1. n \in 0 .. n /\ n - n = 0
    BY <1>1
  <2>2. QED
    BY <1>6, <2>1
<1>10. QED
  BY <1>7, <1>8, <1>9 DEF EscapedFrom, n, D

\* What is copied of a text up to the end of a character (utf8_quote_with_escape)
LEMMA EscapedIs ==
  ASSUME NEW u \in Seq(Byte), NEW n \in 0 .. Len(u), NEW H, EscapedFrom(u, n, H),
         \A i \in 1 .. n : u[i] = "l" => i < n /\ u[i + 1] # "q"
  PROVE  /\ Escaped(u, 0, n).i = n
         /\ Escaped(u, 0, n).out \in Seq(Byte)
         /\ Escaped(u, 0, n).out \o H[n] = H[0]
<1> DEFINE D == Seq(Byte)
           S == [out : D, i : Nat]
           B == {i \in Nat : i >= n \/ i >= Len(u)}
           pre == [i \in Nat |-> IF i \in B THEN <<>>
                                 ELSE (IF u[i + 1] = "q" THEN <<"b">> ELSE <<>>)
                                        \o SubSeq(u, i + 1, NextChar(u, i))]
           b == [i \in Nat |-> [out |-> <<>>, i |-> i]]
           p == [i \in Nat |-> NextChar(u, i)]
           g == [i \in Nat |-> [t \in S |-> [out |-> pre[i] \o t.out, i |-> t.i]]]
           m == [i \in Nat |-> IF i < n THEN n - i ELSE 0]
           All(h) == [i \in Nat |->
                        IF i >= n \/ i >= Len(u) THEN [out |-> <<>>, i |-> i]
                        ELSE LET e == NextChar(u, i)
                                 t == h[e]
                             IN [out |-> (IF u[i + 1] = "q" THEN <<"b">> ELSE <<>>) \o SubSeq(u, i + 1, e) \o t.out,
                                 i   |-> t.i]]
           step == CHOOSE h : h = All(h)
<1>1. Len(u) \in Nat /\ n \in Nat /\ n <= Len(u)
  OBVIOUS
<1>2. \A x, y \in D : x \o y \in D
  OBVIOUS
<1>3. <<>> \in D
  OBVIOUS
<1>4. ASSUME NEW i \in Nat
      PROVE  p[i] \in Nat /\ (p[i] = i + 1 \/ p[i] = i + 2) /\ (p[i] = i + 2 <=> u[i + 1] = "l")
  BY DEF NextChar
<1>5. ASSUME NEW i \in Nat, i \notin B
      PROVE  i < n /\ p[i] <= n /\ i + 1 \in 1 .. n /\ u[i + 1] \in Byte
  <2>1. i < n /\ i + 1 \in 1 .. n
    BY <1>1, <1>5
  <2>2. u[i + 1] \in Byte
    BY <1>1, <2>1
  <2>3. p[i] <= n
    <3>1. u[i + 1] = "l" => i + 1 < n
      BY <2>1
    <3>2. p[i] \in Nat /\ (p[i] = i + 1 \/ p[i] = i + 2) /\ (p[i] = i + 2 <=> u[i + 1] = "l")
      BY <1>4
    <3> HIDE DEF p
    <3>3. QED
      BY <1>1, <2>1, <3>1, <3>2
  <2>4. QED
    BY <2>1, <2>2, <2>3
<1>6. ASSUME NEW i \in Nat, i \notin B
      PROVE  /\ pre[i] \in D
             /\ p[i] = i + 1 => pre[i] = Escape(u[i + 1])
             /\ p[i] = i + 2 => /\ i + 2 \in 1 .. n
                                /\ pre[i] = Escape(u[i + 1]) \o Escape(u[i + 2])
  <2> DEFINE x == u[i + 1]
             y == u[i + 2]
  <2>1. x \in Byte /\ i + 1 \in 1 .. n
    BY <1>5, <1>6
  <2>2. pre[i] = (IF x = "q" THEN <<"b">> ELSE <<>>) \o SubSeq(u, i + 1, p[i])
    BY <1>6
  <2> HIDE DEF pre, D
  <2>3. CASE p[i] = i + 1
    <3> DEFINE v == <<x>>
    <3>1. SubSeq(u, i + 1, i + 1) = v
      <4>1. v \in Seq(Byte) /\ Len(v) = 1 /\ v[1] = x
        BY <2>1
      <4> HIDE DEF v
      <4>2. i + Len(v) <= Len(u) /\ \A j \in 1 .. Len(v) : u[i + j] = v[j]
        BY <1>1, <2>1, <4>1
      <4>3. SubSeq(u, i + 1, i + Len(v)) = v
        BY <4>1, <4>2, PieceIs
      <4>4. QED
        BY <4>1, <4>3
    <3>2. (IF x = "q" THEN <<"b">> ELSE <<>>) \o v = Escape(x)
      <4>1. CASE x = "q"
        <5>1. <<"b">> \o <<"q">> = <<"b", "q">>
          <6>1. "b" \in Byte /\ "q" \in Byte
            BY DEF Byte
          <6>2. QED
            BY <6>1, PairIs
        <5>2. v = <<"q">>
          BY <4>1
        <5> HIDE DEF v, x
        <5>3. QED
          BY <4>1, <5>1, <5>2 DEF Escape
      <4>2. CASE x # "q"
        <5>1. v \in Seq(Byte)
          BY <2>1
        <5>2. <<>> \o v = v
          BY <5>1, ConcatEmptySeq
        <5>3. Escape(x) = v
          BY <4>2 DEF Escape
        <5> HIDE DEF v, x
        <5>4. QED
          BY <4>2, <5>2, <5>3
      <4>3. QED
        BY <4>1, <4>2
    <3>3. pre[i] = Escape(x)
      BY <2>2, <2>3, <3>1, <3>2
    <3>4. Escape(x) \in D
      BY <2>1, EscapeIs DEF D
    <3>5. p[i] # i + 2
      BY <2>3
    <3>6. QED
      BY <3>3, <3>4, <3>5
  <2>4. CASE p[i] = i + 2
    <3>1. x = "l" /\ i + 1 < n /\ y # "q" /\ i + 2 \in 1 .. n
      <4>1. u[i + 1] = "l"
        BY <1>4, <2>4
      <4>2. i + 1 < n /\ u[i + 1 + 1] # "q"
        BY <2>1, <4>1
      <4>3. i + 1 + 1 = i + 2
        OBVIOUS
      <4>4. QED
        BY <1>1, <4>1, <4>2, <4>3
    <3>2. y \in Byte
      BY <1>1, <3>1
    <3> DEFINE v == <<x, y>>
    <3>3. SubSeq(u, i + 1, i + 2) = v
      <4> DEFINE w == SubSeq(u, i + 1, i + 2)
      <4>1. w \in Seq(Byte) /\ Len(w) = 2 /\ w[1] = x /\ w[2] = y
        BY <1>1, <2>1, <3>1, <3>2
      <4> HIDE DEF w, x, y
      <4>2. v \in Seq(Byte) /\ Len(v) = 2 /\ v[1] = x /\ v[2] = y
        BY <2>1, <3>2
      <4> HIDE DEF v
      <4>3. \A j \in 1 .. 2 : w[j] = v[j]
        <5>1. \A j \in 1 .. 2 : j = 1 \/ j = 2
          OBVIOUS
        <5>2. QED
          BY <4>1, <4>2, <5>1
      <4>4. w = v
        BY <4>1, <4>2, <4>3, SeqEqual
      <4>5. QED
        BY <4>4 DEF w
    <3>4. <<>> \o v = v /\ v \in D
      <4>1. v \in Seq(Byte)
        BY <2>1, <3>2
      <4>2. QED
        BY <4>1, ConcatEmptySeq DEF D
    <3>5. Escape(x) \o Escape(y) = v
      <4>1. Escape(x) = <<x>> /\ Escape(y) = <<y>>
        BY <3>1 DEF Escape
      <4> HIDE DEF x, y
      <4>2. <<x>> \o <<y>> = <<x, y>>
        BY <2>1, <3>2, PairIs
      <4>3. QED
        BY <4>1, <4>2
    <3>6. x # "q" /\ p[i] # i + 1
      BY <2>4, <3>1
    <3> HIDE DEF v, x, y, p
    <3>7. pre[i] = v
      BY <2>2, <2>4, <3>3, <3>4, <3>6
    <3>8. QED
      BY <3>1, <3>4, <3>5, <3>6, <3>7 DEF x, y
  <2>5. QED
    BY <1>4, <2>3, <2>4
<1>7. \A i \in Nat : pre[i] \in D
  <2>1. ASSUME NEW i \in Nat, i \in B PROVE pre[i] = <<>>
    BY <2>1
  <2> HIDE DEF pre
  <2>2. QED
    BY <1>3, <1>6, <2>1
<1> HIDE DEF D
<1>8. g \in [Nat -> [S -> S]] /\ b \in [Nat -> S]
  <2>1. ASSUME NEW i \in Nat, NEW t \in S PROVE [out |-> pre[i] \o t.out, i |-> t.i] \in S
    <3>1. pre[i] \in D /\ t.out \in D /\ t.i \in Nat
      BY <1>7
    <3> HIDE DEF pre
    <3>2. pre[i] \o t.out \in D
      BY <1>2, <3>1
    <3>3. QED
      BY <3>1, <3>2
  <2>2. ASSUME NEW i \in Nat PROVE [out |-> <<>>, i |-> i] \in S
    BY <1>3
  <2> HIDE DEF pre, S
  <2>3. QED
    BY <2>1, <2>2
<1>9. m \in [Nat -> Nat] /\ p \in [Nat -> Nat] /\ \A i \in Nat : i \notin B => m[p[i]] < m[i]
  <2>1. \A i \in Nat : m[i] = (IF i < n THEN n - i ELSE 0) /\ m[i] \in Nat
    BY <1>1
  <2>2. m \in [Nat -> Nat]
    BY <2>1
  <2>3. p \in [Nat -> Nat]
    <3>1. p = [i \in Nat |-> p[i]] /\ \A i \in Nat : p[i] \in Nat
      BY <1>4
    <3> HIDE DEF p
    <3>2. QED
      BY <3>1
  <2>4. ASSUME NEW i \in Nat, i \notin B PROVE m[p[i]] < m[i]
    <3> DEFINE e == p[i]
    <3>1. e \in Nat /\ e > i /\ i < n
      <4>1. e \in Nat /\ (e = i + 1 \/ e = i + 2)
        BY <1>4
      <4>2. i < n
        BY <1>5, <2>4
      <4> HIDE DEF e
      <4>3. QED
        BY <4>1, <4>2
    <3> HIDE DEF e, m
    <3>2. m[e] = (IF e < n THEN n - e ELSE 0) /\ m[i] = n - i
      BY <2>1, <3>1
    <3>3. QED
      BY <1>1, <3>1, <3>2 DEF e
  <2> HIDE DEF m, p, B
  <2>5. QED
    BY <2>2, <2>3, <2>4
<1>10. PICK f \in [Nat -> S] : Computes(f, Nat, B, b, p, g)
  <2> HIDE DEF m, p, B, b, g, S
  <2>1. QED
    BY <1>8, <1>9, RecursionExists
<1>11. ASSUME NEW i \in Nat PROVE f[i] = IF i \in B THEN b[i] ELSE g[i][f[p[i]]]
  BY <1>10 DEF Computes
<1>12. f = All(f)
  <2>1. ASSUME NEW i \in Nat
        PROVE  f[i] = IF i >= n \/ i >= Len(u) THEN [out |-> <<>>, i |-> i]
                      ELSE LET e == NextChar(u, i)
                               t == f[e]
                           IN [out |-> (IF u[i + 1] = "q" THEN <<"b">> ELSE <<>>) \o SubSeq(u, i + 1, e) \o t.out,
                               i   |-> t.i]
    <3>1. CASE i \in B
      BY <1>11, <3>1
    <3>2. CASE i \notin B
      <4> DEFINE t == f[p[i]]
      <4>1. p[i] \in Nat
        BY <1>4
      <4>2. t \in S
        <5> HIDE DEF p, S
        <5>1. QED
          BY <1>10, <4>1
      <4>3. f[i] = g[i][t]
        BY <1>11, <3>2
      <4>4. g[i][t] = [out |-> pre[i] \o t.out, i |-> t.i]
        <5> HIDE DEF t, S, pre
        <5>1. QED
          BY <4>2
      <4>5. pre[i] = (IF u[i + 1] = "q" THEN <<"b">> ELSE <<>>) \o SubSeq(u, i + 1, p[i])
        BY <3>2
      <4>6. p[i] = NextChar(u, i) /\ ~(i >= n \/ i >= Len(u))
        BY <3>2
      <4> HIDE DEF pre, g, p, S, B, t
      <4>7. f[i] = [out |-> (IF u[i + 1] = "q" THEN <<"b">> ELSE <<>>) \o SubSeq(u, i + 1, p[i]) \o t.out,
                    i   |-> t.i]
        BY <4>3, <4>4, <4>5
      <4>8. t = f[NextChar(u, i)]
        BY <4>6 DEF t
      <4>9. QED
        BY <4>6, <4>7, <4>8
    <3>3. QED
      BY <3>1, <3>2
  <2>2. f = [i \in Nat |-> f[i]]
    BY <1>10
  <2>3. QED
    BY <2>1, <2>2
<1>13. step = All(step)
  <2> HIDE DEF All
  <2>1. QED
    BY <1>12
<1>14. Escaped(u, 0, n) = step[0]
  BY DEF Escaped
<1> HIDE DEF step
<1>15. ASSUME NEW i \in Nat
       PROVE  /\ i \in B => step[i] = [out |-> <<>>, i |-> i]
              /\ i \notin B => step[i] = [out |-> pre[i] \o step[p[i]].out, i |-> step[p[i]].i]
  <2>1. step[i] = IF i >= n \/ i >= Len(u) THEN [out |-> <<>>, i |-> i]
                  ELSE LET e == NextChar(u, i)
                           t == step[e]
                       IN [out |-> (IF u[i + 1] = "q" THEN <<"b">> ELSE <<>>) \o SubSeq(u, i + 1, e) \o t.out,
                           i   |-> t.i]
    BY <1>13
  <2> HIDE DEF All
  <2>2. CASE i \in B
    BY <2>1, <2>2
  <2>3. CASE i \notin B
    <3>1. pre[i] = (IF u[i + 1] = "q" THEN <<"b">> ELSE <<>>) \o SubSeq(u, i + 1, p[i])
      BY <2>3
    <3>2. p[i] = NextChar(u, i) /\ ~(i >= n \/ i >= Len(u))
      BY <2>3
    <3> HIDE DEF pre, p, B
    <3>3. QED
      BY <2>1, <2>3, <3>1, <3>2
  <2>4. QED
    BY <2>2, <2>3
<1> HIDE DEF All, pre, b, g, m
<1> DEFINE Good(i) == step[i].i = n /\ step[i].out \in D /\ step[i].out \o H[n] = H[i]
           K == {j \in 0 .. n : \A i \in 0 .. n : n - i <= j => Good(i)}
<1>16. \A i \in 0 .. n : H[i] \in D
  BY DEF EscapedFrom, D
<1>17. \A i \in 1 .. n : H[i - 1] = Escape(u[i]) \o H[i]
  BY DEF EscapedFrom
<1>18. 0 \in K
  <2>1. ASSUME NEW i \in 0 .. n, n - i <= 0 PROVE Good(i)
    <3>1. i = n /\ n \in Nat /\ n \in B
      BY <1>1, <2>1
    <3>2. step[n] = [out |-> <<>>, i |-> n]
      BY <1>15, <3>1
    <3>3. H[n] \in Seq(Byte)
      BY <1>16, <3>1 DEF D
    <3>4. <<>> \o H[n] = H[n]
      BY <3>3, ConcatEmptySeq
    <3>5. QED
      BY <1>3, <3>1, <3>2, <3>4
  <2> HIDE DEF Good
  <2>2. 0 \in 0 .. n
    BY <1>1
  <2>3. QED
    BY <2>1, <2>2
<1>19. ASSUME NEW j \in 1 .. n, j - 1 \in K PROVE j \in K
  <2>1. ASSUME NEW i \in 0 .. n, n - i <= j PROVE Good(i)
    <3>1. CASE n - i <= j - 1
      <4> HIDE DEF Good
      <4>1. QED
        BY <1>19, <3>1
    <3>2. CASE ~(n - i <= j - 1)
      <4> DEFINE e == p[i]
                 o == step[e].out
      <4>1. i \in Nat /\ i < n /\ i \notin B /\ i + 1 \in 1 .. n
        BY <1>1, <3>2
      <4>2. e \in Nat /\ e <= n /\ (e = i + 1 \/ e = i + 2) /\ e \in 0 .. n /\ n - e <= j - 1
        <5>1. e \in Nat /\ e <= n /\ (e = i + 1 \/ e = i + 2)
          BY <1>4, <1>5, <4>1
        <5> HIDE DEF e
        <5>2. QED
          BY <1>1, <2>1, <4>1, <5>1
      <4>3. Good(e)
        <5> HIDE DEF Good, e
        <5>1. QED
          BY <1>19, <4>2
      <4>4. step[i] = [out |-> pre[i] \o o, i |-> step[e].i] /\ pre[i] \in D
        BY <1>7, <1>15, <4>1
      <4> HIDE DEF B
      <4>5. e = i + 1 => pre[i] = Escape(u[i + 1])
        BY <1>6, <4>1
      <4>6. e = i + 2 => i + 2 \in 1 .. n /\ pre[i] = Escape(u[i + 1]) \o Escape(u[i + 2])
        BY <1>6, <4>1
      <4> HIDE DEF e, p
      <4>7. o \in D /\ o \o H[n] = H[e] /\ step[e].i = n
        BY <4>3
      <4> HIDE DEF o
      <4>8. pre[i] \o o \in D
        BY <1>2, <4>4, <4>7
      <4>9. (pre[i] \o o) \o H[n] = pre[i] \o H[e]
        <5>1. pre[i] \in Seq(Byte) /\ o \in Seq(Byte) /\ H[n] \in Seq(Byte)
          BY <1>1, <1>16, <4>4, <4>7 DEF D
        <5> DEFINE v == pre[i]
                   r == H[n]
        <5>a. v \in Seq(Byte) /\ r \in Seq(Byte)
          BY <5>1
        <5> HIDE DEF v, r, K, Good
        <5>b. (v \o o) \o r = v \o (o \o r)
          BY <5>1, <5>a, BytesJoin, Zenon
        <5>2. (pre[i] \o o) \o H[n] = pre[i] \o (o \o H[n])
          BY <5>b DEF v, r
        <5>3. QED
          BY <5>2, <4>7
      <4>10. pre[i] \o H[e] = H[i]
        <5>1. H[i] = Escape(u[i + 1]) \o H[i + 1]
          <6> DEFINE k == i + 1
          <6>1. k \in 1 .. n /\ k - 1 = i
            BY <4>1
          <6> HIDE DEF k
          <6>2. H[k - 1] = Escape(u[k]) \o H[k]
            BY <1>17, <6>1
          <6>3. QED
            BY <6>1, <6>2 DEF k
        <5>2. CASE e = i + 1
          BY <4>5, <5>1, <5>2
        <5>3. CASE e = i + 2
          <6> DEFINE v == Escape(u[i + 1])
                     w == Escape(u[i + 2])
                     r == H[i + 2]
          <6>1. i + 2 \in 1 .. n
            BY <4>6, <5>3
          <6>2. H[i + 1] = w \o r
            <7> DEFINE k == i + 2
            <7>1. k \in 1 .. n /\ k - 1 = i + 1
              BY <4>1, <6>1
            <7> HIDE DEF k
            <7>2. H[k - 1] = Escape(u[k]) \o H[k]
              BY <1>17, <7>1
            <7>3. QED
              BY <7>1, <7>2 DEF k
          <6>3. v \in Seq(Byte) /\ w \in Seq(Byte) /\ r \in Seq(Byte)
            <7>1. u[i + 1] \in Byte /\ u[i + 2] \in Byte
              <8>1. i + 1 \in 1 .. Len(u) /\ i + 2 \in 1 .. Len(u)
                BY <1>1, <4>1, <6>1
              <8> HIDE DEF v, w, r, K, Good
              <8>2. u[i + 1] \in Byte
                BY <8>1
              <8>3. u[i + 2] \in Byte
                BY <8>1
              <8>4. QED
                BY <8>2, <8>3
            <7>2. r \in Seq(Byte)
              BY <1>16, <6>1 DEF D
            <7>3. QED
              BY <7>1, <7>2, EscapeIs
          <6>4. (v \o w) \o r = v \o (w \o r)
            <7> HIDE DEF v, w, r, K, Good
            <7>1. QED
              BY <6>3, BytesJoin, Zenon
          <6>5. pre[i] = v \o w /\ H[e] = r
            BY <4>6, <5>3
          <6> HIDE DEF v, w, r
          <6>6. QED
            BY <5>1, <6>2, <6>4, <6>5 DEF v
        <5>4. QED
          BY <4>2, <5>2, <5>3
      <4> DEFINE x == pre[i] \o o
      <4>11. x \in D /\ x \o H[n] = H[i] /\ step[i] = [out |-> x, i |-> step[e].i]
        BY <4>4, <4>8, <4>9, <4>10
      <4> HIDE DEF x
      <4>12. step[i].out = x /\ step[i].i = n
        BY <4>7, <4>11
      <4>13. QED
        BY <4>11, <4>12
    <3>3. QED
      BY <3>1, <3>2
  <2> HIDE DEF Good
  <2>2. j \in 0 .. n
    BY <1>1
  <2>3. QED
    BY <2>1, <2>2
<1>20. Good(0)
  <2> HIDE DEF Good
  <2>1. n \in K
    <3> HIDE DEF K
    <3>1. n \in 0 .. n
      BY <1>1
    <3>2. QED
      BY <1>1, <1>18, <1>19, <3>1, TurnsKeep
  <2>2. 0 \in 0 .. n /\ n - 0 <= n
    BY <1>1
  <2>3. QED
    BY <2>1, <2>2
<1>21. QED
  BY <1>14, <1>20 DEF D

\* The rest of an escaped string, by itself
LEMMA EscapedRest ==
  ASSUME NEW s \in Seq(Byte), NEW t \in Seq(Byte), NEW a \in Nat, NEW n \in Nat,
         a + n = Len(s), n <= Len(t), \A i \in 1 .. n : t[i] = s[a + i],
         NEW H, EscapedFrom(s, Len(s), H)
  PROVE  EscapedFrom(t, n, [i \in 0 .. n |-> H[a + i]])
<1> DEFINE G == [i \in 0 .. n |-> H[a + i]]
           D == Seq(Byte)
<1>1. /\ H \in [0 .. Len(s) -> D]
      /\ \A i \in 1 .. Len(s) : H[i - 1] = Escape(s[i]) \o H[i]
  BY DEF EscapedFrom
<1>2. G \in [0 .. n -> D]
  <2>1. \A i \in 0 .. n : a + i \in 0 .. Len(s)
    OBVIOUS
  <2> HIDE DEF D
  <2>2. QED
    BY <1>1, <2>1
<1>3. ASSUME NEW i \in 1 .. n PROVE G[i - 1] = Escape(t[i]) \o G[i]
  <2> DEFINE k == a + i
  <2>1. k \in 1 .. Len(s) /\ i \in 0 .. n /\ i - 1 \in 0 .. n /\ a + (i - 1) = k - 1
    OBVIOUS
  <2>2. G[i - 1] = H[k - 1] /\ G[i] = H[k] /\ t[i] = s[k]
    BY <2>1
  <2> HIDE DEF k, G, D
  <2>3. H[k - 1] = Escape(s[k]) \o H[k]
    BY <1>1, <2>1
  <2>4. QED
    BY <2>2, <2>3
<1>4. QED
  BY <1>2, <1>3 DEF EscapedFrom, D

\* A string with its quotes escaped, in quotes (utf8_quote_with_escape)
LEMMA QuoteIs ==
  ASSUME NEW s \in Seq(Byte), WellFormed(s), Quotable(s),
         NEW H, EscapedFrom(s, Len(s), H), H[Len(s)] = <<>>
  PROVE  Quote(s) = <<"q">> \o H[0] \o <<"q">>
<1> DEFINE n == Len(s)
           q == <<"q">>
<1>1. n \in Nat /\ (\A i \in 1 .. n : s[i] \in Byte) /\ DOMAIN s = 1 .. n
  OBVIOUS
<1>2. /\ H \in [0 .. n -> Seq(Byte)]
      /\ \A i \in 1 .. n : H[i - 1] = Escape(s[i]) \o H[i]
  BY DEF EscapedFrom
<1>3. CASE "q" \notin ToSet(s)
  <2>1. \A i \in 1 .. n : s[i] # "q"
    BY <1>1, <1>3 DEF ToSet
  <2>2. ASSUME NEW k \in 1 .. n PROVE H[k - 1] = <<s[k]>> \o H[k]
    <3>1. Escape(s[k]) = <<s[k]>>
      BY <2>1 DEF Escape
    <3>2. QED
      BY <1>2, <3>1
  <2>3. H[0] = s
    BY <2>2, ReadBack
  <2>4. QED
    BY <1>3, <2>3 DEF Quote
<1>4. CASE "q" \in ToSet(s)
  <2> DEFINE a == n - 4
             head == Escaped(s, 0, a)
             tail == Tail4(s, a)
             o == head.out
             r == Escaped(tail, 0, 4).out
  <2>1. n >= 4 /\ s[n - 3] # "c" /\ a \in Nat /\ a <= n /\ a + 4 = n /\ a + 1 = n - 3
    BY <1>1, <1>4 DEF Quotable
  <2>2. \A i \in 1 .. n : s[i] = "l" => i < n /\ s[i + 1] = "c"
    BY <1>1 DEF WellFormed
  <2> HIDE DEF a
  <2>3. head.i = a /\ o \in Seq(Byte) /\ o \o H[a] = H[0]
    <3>1. EscapedFrom(s, a, [i \in 0 .. a |-> H[i]])
      <4> DEFINE G == [i \in 0 .. a |-> H[i]]
      <4>1. \A i \in 0 .. a : i \in 0 .. n
        BY <1>1, <2>1
      <4>2. G \in [0 .. a -> Seq(Byte)]
        <5> DEFINE D == Seq(Byte)
        <5>1. H \in [0 .. n -> D]
          BY <1>2
        <5> HIDE DEF D
        <5>2. G \in [0 .. a -> D]
          BY <4>1, <5>1
        <5>3. QED
          BY <5>2 DEF D
      <4>3. ASSUME NEW i \in 1 .. a PROVE G[i - 1] = Escape(s[i]) \o G[i]
        <5>1. i \in 1 .. n /\ i \in 0 .. a /\ i - 1 \in 0 .. a
          BY <1>1, <2>1
        <5>2. G[i - 1] = H[i - 1] /\ G[i] = H[i]
          BY <5>1
        <5> HIDE DEF G
        <5>3. QED
          BY <1>2, <5>1, <5>2
      <4>4. QED
        BY <4>2, <4>3 DEF EscapedFrom
    <3> DEFINE G == [i \in 0 .. a |-> H[i]]
    <3>2. G[a] = H[a] /\ G[0] = H[0]
      BY <2>1
    <3>3. ASSUME NEW i \in 1 .. a, s[i] = "l" PROVE i < a /\ s[i + 1] # "q"
      <4>1. i \in 1 .. n
        BY <1>1, <2>1
      <4>2. s[i + 1] = "c"
        BY <2>2, <3>3, <4>1
      <4>3. i # a
        <5>1. s[a + 1] # "c"
          BY <2>1
        <5>2. QED
          BY <4>2, <5>1
      <4>4. QED
        BY <2>1, <4>2, <4>3
    <3>4. a \in 0 .. Len(s)
      BY <1>1, <2>1
    <3> HIDE DEF G
    <3>5. /\ Escaped(s, 0, a).i = a /\ Escaped(s, 0, a).out \in Seq(Byte)
          /\ Escaped(s, 0, a).out \o G[a] = G[0]
      BY <3>1, <3>3, <3>4, EscapedIs DEF G
    <3>6. QED
      BY <3>2, <3>5
  <2>4. tail \in Seq(Byte) /\ 4 <= Len(tail) /\ \A i \in 1 .. 4 : tail[i] = s[a + i]
    <3> DEFINE u == SubSeq(s, a + 1, n)
               z == <<"0", "0", "0", "0", "0", "0", "0", "0">>
    <3>1. u \in Seq(Byte) /\ Len(u) = 4 /\ \A i \in 1 .. 4 : u[i] = s[a + i]
      <4>1. u = [i \in 1 .. 4 |-> s[a + i]]
        BY <1>1, <2>1
      <4>2. \A i \in 1 .. 4 : s[a + i] \in Byte
        BY <1>1, <2>1
      <4> HIDE DEF u
      <4>3. QED
        BY <4>1, <4>2
    <3>2. z \in Seq(Byte) /\ Len(z) = 8
      <4>1. "0" \in Byte
        BY DEF Byte
      <4>2. QED
        BY <4>1
    <3>3. tail = u \o z
      BY DEF Tail4
    <3> HIDE DEF u, z, tail
    <3>4. /\ u \o z \in Seq(Byte) /\ Len(u \o z) = Len(u) + Len(z)
          /\ \A i \in 1 .. Len(u) + Len(z) : (u \o z)[i] = IF i <= Len(u) THEN u[i] ELSE z[i - Len(u)]
      <4>1. u \in Seq(Byte) /\ z \in Seq(Byte)
        BY <3>1, <3>2
      <4>2. QED
        BY <4>1, ConcatProperties
    <3>5. ASSUME NEW i \in 1 .. 4 PROVE tail[i] = s[a + i]
      <4>1. i \in 1 .. Len(u) + Len(z) /\ i <= Len(u)
        BY <3>1, <3>2
      <4>2. tail[i] = u[i]
        BY <3>3, <3>4, <4>1
      <4>3. QED
        BY <3>1, <4>2
    <3>6. QED
      BY <3>1, <3>2, <3>3, <3>4, <3>5
  <2>5. r \in Seq(Byte) /\ r \o <<>> = H[a]
    <3> DEFINE G == [i \in 0 .. 4 |-> H[a + i]]
    <3> HIDE DEF tail
    <3>1. a + 4 = Len(s) /\ 4 \in Nat
      BY <2>1
    <3>2. EscapedFrom(tail, 4, G)
      BY <2>1, <2>4, <3>1, EscapedRest
    <3>3. G[4] = <<>> /\ G[0] = H[a]
      <4>1. a + 4 = n /\ a + 0 = a
        BY <2>1
      <4>2. G[4] = H[a + 4] /\ G[0] = H[a + 0]
        OBVIOUS
      <4> HIDE DEF G
      <4>3. QED
        BY <4>1, <4>2
    <3>4. ASSUME NEW i \in 1 .. 4, tail[i] = "l" PROVE i < 4 /\ tail[i + 1] # "q"
      <4> DEFINE k == a + i
      <4>1. k \in 1 .. n /\ k + 1 = a + (i + 1) /\ (k < n => i < 4 /\ i + 1 \in 1 .. 4)
        BY <1>1, <2>1
      <4>2. s[k] = "l"
        BY <2>4, <3>4
      <4> HIDE DEF k
      <4>3. k < n /\ s[k + 1] = "c"
        BY <2>2, <4>1, <4>2
      <4>4. tail[i + 1] = s[a + (i + 1)]
        BY <2>4, <4>1, <4>3
      <4>5. QED
        BY <4>1, <4>3, <4>4
    <3>5. 4 \in 0 .. Len(tail)
      <4>1. Len(tail) \in Nat
        BY <2>4
      <4>2. QED
        BY <2>4, <4>1
    <3> HIDE DEF G
    <3>6. Escaped(tail, 0, 4).out \in Seq(Byte) /\ Escaped(tail, 0, 4).out \o G[4] = G[0]
      <4>1. tail \in Seq(Byte)
        BY <2>4
      <4>2. QED
        BY <3>2, <3>4, <3>5, <4>1, EscapedIs
    <3>7. QED
      BY <3>3, <3>6
  <2>6. r = H[a]
    <3> HIDE DEF r
    <3>1. r \o <<>> = r
      BY <2>5, ConcatEmptySeq
    <3>2. QED
      BY <2>5, <3>1
  <2>7. Quote(s) = q \o o \o r \o q
    <3> DEFINE h == Escaped(s, 0, Len(s) - 4)
    <3>1. Quote(s) = <<"q">> \o h.out
                       \o Escaped(Tail4(s, h.i), h.i - (Len(s) - 4), 4).out \o <<"q">>
      BY <1>4 DEF Quote
    <3>2. h = head
      BY DEF a
    <3> HIDE DEF h, head
    <3>3. h.i = a /\ Len(s) - 4 = a /\ a - a = 0
      <4>1. Len(s) - 4 = a
        BY DEF a
      <4>2. QED
        BY <2>1, <2>3, <3>2, <4>1
    <3>4. h.i - (Len(s) - 4) = 0
      BY <3>3
    <3>5. Escaped(Tail4(s, h.i), h.i - (Len(s) - 4), 4).out = r
      BY <3>3, <3>4
    <3> HIDE DEF r
    <3>6. QED
      BY <3>1, <3>2, <3>5
  <2>8. q \o o \o r = q \o H[0]
    <3>1. q \in Seq(Byte)
      <4>1. "q" \in Byte
        BY DEF Byte
      <4>2. QED
        BY <4>1
    <3> HIDE DEF q, o, r
    <3>2. (q \o o) \o r = q \o (o \o r)
      BY <2>3, <2>5, <3>1, BytesJoin, Zenon
    <3>3. QED
      BY <2>3, <2>6, <3>2
  <2>9. QED
    BY <2>7, <2>8
<1>5. QED
  BY <1>3, <1>4

\* Where each byte of a string stands in the escaped one
EscapedAt(s, w, at) ==
  /\ at \in [0 .. Len(s) -> Nat]
  /\ at[0] = 0 /\ at[Len(s)] = Len(w)
  /\ \A k \in 1 .. Len(s) :
       /\ at[k] <= Len(w)
       /\ s[k] = "q" => at[k] = at[k - 1] + 2 /\ w[at[k - 1] + 1] = "b" /\ w[at[k - 1] + 2] = "q"
       /\ s[k] # "q" => at[k] = at[k - 1] + 1 /\ w[at[k - 1] + 1] = s[k]

\* Where the bytes of a string stand once it is escaped
LEMMA EscapePlaces ==
  ASSUME NEW s \in Seq(Byte), NEW H, EscapedFrom(s, Len(s), H), H[Len(s)] = <<>>
  PROVE  /\ H[0] \in Seq(Byte)
         /\ \E at : EscapedAt(s, H[0], at)
<1> DEFINE n == Len(s)
           D == Seq(Byte)
           es == [k \in 1 .. n |-> Escape(s[k])]
           w == FlattenSeq(es)
<1>1. n \in Nat /\ \A k \in 1 .. n : s[k] \in Byte
  OBVIOUS
<1>2. H \in [0 .. n -> D] /\ \A i \in 1 .. n : H[i - 1] = Escape(s[i]) \o H[i]
  BY DEF EscapedFrom
<1> HIDE DEF n
<1>3. es \in Seq(D) /\ Len(es) = n /\ \A k \in 1 .. n : es[k] = Escape(s[k])
  <2>1. \A k \in 1 .. n : Escape(s[k]) \in D
    BY <1>1, EscapeIs
  <2> HIDE DEF D
  <2>2. es = [k \in 1 .. n |-> es[k]] /\ \A k \in 1 .. n : es[k] = Escape(s[k]) /\ es[k] \in D
    BY <2>1
  <2> HIDE DEF es
  <2>3. QED
    BY <1>1, <2>2
<1> HIDE DEF es
<1>4. PICK f \in [0 .. n -> D] :
           /\ f[0] = <<>>
           /\ \A k \in 1 .. n : f[k] = f[k - 1] \o es[k]
           /\ w = f[n]
  <2>1. es \in Seq(Seq(Byte))
    BY <1>3
  <2>2. \E f \in [0 .. Len(es) -> Seq(Byte)] :
           /\ f[0] = <<>>
           /\ \A k \in 1 .. Len(es) : f[k] = f[k - 1] \o es[k]
           /\ FlattenSeq(es) = f[Len(es)]
    BY <2>1, FlattenTurns
  <2>3. QED
    BY <1>3, <2>2
<1> DEFINE K == {k \in 0 .. n : f[k] \o H[k] = H[0]}
<1>5. 0 \in K
  <2> DEFINE h == H[0]
  <2>1. 0 \in 0 .. n
    BY <1>1
  <2>2. h \in Seq(Byte)
    BY <1>2, <2>1
  <2> HIDE DEF h
  <2>3. <<>> \o h = h
    BY <2>2, ConcatEmptySeq
  <2>4. f[0] \o H[0] = H[0]
    BY <1>4, <2>3 DEF h
  <2>5. QED
    BY <2>1, <2>4
<1>6. ASSUME NEW k \in 1 .. n, k - 1 \in K PROVE k \in K
  <2> DEFINE u == f[k - 1]
             v == es[k]
             r == H[k]
  <2>1. k \in 0 .. n /\ k - 1 \in 0 .. n
    BY <1>1
  <2>2. u \in D /\ v \in D /\ r \in D
    <3> HIDE DEF D
    <3>1. f[k - 1] \in D
      BY <1>4, <2>1
    <3>2. es[k] \in D
      BY <1>3
    <3>3. H[k] \in D
      BY <1>2, <2>1
    <3>4. QED
      BY <3>1, <3>2, <3>3
  <2>3. f[k] = u \o v /\ H[k - 1] = v \o r
    BY <1>2, <1>3, <1>4
  <2>4. u \o H[k - 1] = H[0]
    BY <1>6
  <2> HIDE DEF u, v, r
  <2>5. (u \o v) \o r = u \o (v \o r)
    BY <2>2, BytesJoin, Zenon
  <2>6. f[k] \o r = H[0]
    BY <2>3, <2>4, <2>5
  <2>7. QED
    BY <2>1, <2>6 DEF r
<1>7. w = H[0]
  <2>1. n \in K
    <3> HIDE DEF K
    <3>1. n \in 0 .. n
      BY <1>1
    <3>2. QED
      BY <1>1, <1>5, <1>6, <3>1, TurnsKeep
  <2>2. f[n] \o <<>> = H[0]
    <3>1. f[n] \o H[n] = H[0] /\ H[n] = <<>>
      BY <2>1 DEF n
    <3>2. QED
      BY <3>1
  <2> DEFINE u == f[n]
  <2>3. u \in Seq(Byte)
    <3>1. n \in 0 .. n
      BY <1>1
    <3>2. QED
      BY <1>4, <3>1
  <2> HIDE DEF u
  <2>4. u \o <<>> = u
    BY <2>3, ConcatEmptySeq
  <2>5. QED
    BY <1>4, <2>2, <2>4 DEF u
<1>8. es \in Seq(Seq(Byte))
  BY <1>3
<1>9. w \in Seq(Byte)
  BY <1>8, FlattenPlaces
<1>10. PICK at \in [0 .. Len(es) -> Nat] :
            /\ at[0] = 0 /\ at[Len(es)] = Len(w)
            /\ \A k \in 1 .. Len(es) :
                 /\ at[k] = at[k - 1] + Len(es[k])
                 /\ at[k] <= Len(w)
                 /\ \A i \in 1 .. Len(es[k]) : w[at[k - 1] + i] = es[k][i]
  BY <1>8, FlattenPlaces
<1> HIDE DEF w
<1>11. ASSUME NEW k \in 1 .. n
       PROVE  /\ at[k] <= Len(w)
              /\ s[k] = "q" => at[k] = at[k - 1] + 2 /\ w[at[k - 1] + 1] = "b" /\ w[at[k - 1] + 2] = "q"
              /\ s[k] # "q" => at[k] = at[k - 1] + 1 /\ w[at[k - 1] + 1] = s[k]
  <2> DEFINE x == s[k]
             e == Escape(x)
             a == at[k - 1]
  <2>1. k \in 1 .. Len(es)
    BY <1>3
  <2>2. es[k] = e
    BY <1>3
  <2>3. at[k] = a + Len(e) /\ at[k] <= Len(w) /\ \A i \in 1 .. Len(e) : w[a + i] = e[i]
    BY <1>10, <2>1, <2>2
  <2>4. x \in Byte
    BY <1>1
  <2> HIDE DEF x, e, a
  <2>5. /\ x = "q" => Len(e) = 2 /\ e[1] = "b" /\ e[2] = "q"
        /\ x # "q" => Len(e) = 1 /\ e[1] = x
    BY <2>4, EscapeIs DEF e
  <2>6. CASE x = "q"
    <3>1. Len(e) = 2 /\ e[1] = "b" /\ e[2] = "q"
      BY <2>5, <2>6
    <3>2. 1 \in 1 .. Len(e) /\ 2 \in 1 .. Len(e)
      BY <3>1
    <3>3. w[a + 1] = "b" /\ w[a + 2] = "q" /\ at[k] = a + 2
      BY <2>3, <3>1, <3>2
    <3>4. QED
      BY <2>3, <2>6, <3>3 DEF x, a
  <2>7. CASE x # "q"
    <3>1. Len(e) = 1 /\ e[1] = x
      BY <2>5, <2>7
    <3>2. 1 \in 1 .. Len(e)
      BY <3>1
    <3>3. w[a + 1] = x /\ at[k] = a + 1
      BY <2>3, <3>1, <3>2
    <3>4. QED
      BY <2>3, <2>7, <3>3 DEF x, a
  <2>8. QED
    BY <2>6, <2>7
<1>12. at \in [0 .. n -> Nat] /\ at[0] = 0 /\ at[n] = Len(w)
  BY <1>3, <1>10
<1> DEFINE h == H[0]
<1>13. h = w
  BY <1>7
<1> HIDE DEF h
<1>14. EscapedAt(s, h, at)
  BY <1>11, <1>12, <1>13 DEF EscapedAt, n
<1>15. h \in Seq(Byte)
  BY <1>9, <1>13
<1>16. QED
  BY <1>14, <1>15 DEF h

\* What stands at each place of an escaped string
LEMMA EscapedBytes ==
  ASSUME NEW s \in Seq(Byte), "b" \notin ToSet(s), "0" \notin ToSet(s),
         NEW H, EscapedFrom(s, Len(s), H), H[Len(s)] = <<>>,
         NEW p \in 1 .. Len(H[0])
  PROVE  LET w == H[0]
         IN /\ w[p] # "0"
            /\ w[p] = "b" => p + 1 \in 1 .. Len(w) /\ w[p + 1] = "q"
            /\ w[p] = "q" => p - 1 \in 1 .. Len(w) /\ w[p - 1] = "b"
<1> DEFINE w == H[0]
           n == Len(s)
           N == Len(w)
<1>0. PICK at : EscapedAt(s, w, at)
  BY EscapePlaces
<1>1. /\ at \in [0 .. n -> Nat] /\ at[0] = 0 /\ at[n] = N
      /\ \A k \in 1 .. n :
                /\ at[k] <= N
                /\ s[k] = "q" => at[k] = at[k - 1] + 2 /\ w[at[k - 1] + 1] = "b" /\ w[at[k - 1] + 2] = "q"
                /\ s[k] # "q" => at[k] = at[k - 1] + 1 /\ w[at[k - 1] + 1] = s[k]
  BY <1>0 DEF EscapedAt
<1>2. w \in Seq(Byte)
  BY EscapePlaces
<1>3. n \in Nat /\ \A k \in 1 .. n : s[k] # "b" /\ s[k] # "0"
  <2>1. DOMAIN s = 1 .. n
    OBVIOUS
  <2>2. QED
    BY <2>1 DEF ToSet
<1> HIDE DEF w
<1>4. N \in Nat /\ p \in 1 .. N
  BY <1>2 DEF w
<1> HIDE DEF n, N
<1> DEFINE T == {k \in 0 .. n : p <= at[k]}
<1>5. PICK k \in T : \A j \in T : k <= j
  <2>1. n \in T
    BY <1>1, <1>3, <1>4
  <2>2. T \in SUBSET Nat
    OBVIOUS
  <2> HIDE DEF T
  <2>3. QED
    BY <2>1, <2>2, LeastNat
<1>6. k \in 1 .. n /\ at[k - 1] \in Nat /\ at[k - 1] < p /\ p <= at[k] /\ at[k] <= N
  <2>1. k \in 0 .. n /\ p <= at[k]
    BY <1>5
  <2>2. k # 0
    <3>1. at[0] < p
      BY <1>1, <1>4
    <3>2. at[0] \in Nat
      BY <1>1
    <3>3. QED
      BY <1>4, <2>1, <3>1, <3>2
  <2>3. k \in 1 .. n /\ k - 1 \in 0 .. n
    BY <1>3, <2>1, <2>2
  <2>4. at[k - 1] \in Nat
    BY <1>1, <2>3
  <2>5. k - 1 \notin T
    <3> HIDE DEF T
    <3>1. k - 1 \in T => k <= k - 1
      BY <1>5
    <3>2. QED
      BY <2>3, <3>1
  <2>6. at[k - 1] < p
    BY <1>4, <2>3, <2>4, <2>5
  <2>7. QED
    BY <1>1, <2>1, <2>3, <2>4, <2>6
<1>7. /\ s[k] = "q" => at[k] = at[k - 1] + 2 /\ w[at[k - 1] + 1] = "b" /\ w[at[k - 1] + 2] = "q"
      /\ s[k] # "q" => at[k] = at[k - 1] + 1 /\ w[at[k - 1] + 1] = s[k]
  BY <1>1, <1>6
<1> DEFINE a == at[k - 1]
<1>8. a \in Nat /\ a < p
  BY <1>6
<1>9. CASE s[k] = "q"
  <2>1. p <= a + 2 /\ a + 2 <= N /\ w[a + 1] = "b" /\ w[a + 2] = "q"
    BY <1>6, <1>7, <1>9
  <2> HIDE DEF a
  <2>2. p = a + 1 \/ p = a + 2
    BY <1>4, <1>8, <2>1
  <2>3. CASE p = a + 1
    <3>1. w[p] = "b" /\ w[p + 1] = "q" /\ p + 1 \in 1 .. N
      <4>1. p + 1 = a + 2
        BY <1>8, <2>3
      <4>2. p + 1 \in 1 .. N
        BY <1>4, <1>8, <2>1, <4>1
      <4>3. QED
        BY <2>1, <2>3, <4>1, <4>2
    <3>2. QED
      BY <3>1 DEF w, N
  <2>4. CASE p = a + 2
    <3>1. w[p] = "q" /\ w[p - 1] = "b" /\ p - 1 \in 1 .. N
      <4>1. p - 1 = a + 1
        BY <1>8, <2>4
      <4>2. p - 1 \in 1 .. N
        BY <1>4, <1>8, <4>1
      <4>3. QED
        BY <2>1, <2>4, <4>1, <4>2
    <3>2. QED
      BY <3>1 DEF w, N
  <2>5. QED
    BY <2>2, <2>3, <2>4
<1>10. CASE s[k] # "q"
  <2>1. p = a + 1 /\ w[a + 1] = s[k]
    <3>1. p <= a + 1 /\ w[a + 1] = s[k]
      BY <1>6, <1>7, <1>10
    <3> HIDE DEF a
    <3>2. QED
      BY <1>4, <1>8, <3>1
  <2>2. w[p] = s[k] /\ s[k] # "b" /\ s[k] # "0"
    BY <1>3, <1>6, <2>1
  <2>3. QED
    BY <1>10, <2>2 DEF w
<1>11. QED
  BY <1>9, <1>10

\* JSON.parse reads an escaped string back.
LEMMA ParsedIs ==
  ASSUME NEW s \in Seq(Byte), "b" \notin ToSet(s), "0" \notin ToSet(s),
         NEW H, EscapedFrom(s, Len(s), H), H[Len(s)] = <<>>
  PROVE  Parsed(<<"q">> \o H[0] \o <<"q">>) = s
<1> DEFINE t == <<"q">> \o H[0] \o <<"q">>
           body == SubSeq(t, 2, Len(t) - 1)
           w == H[0]
           n == Len(s)
           N == Len(w)
           D == Seq(Byte)
           From(h) == [i \in 1 .. N + 2 |->
                         IF i > N THEN <<>>
                         ELSE IF w[i] = "b" THEN <<w[i + 1]>> \o h[i + 2]
                         ELSE <<w[i]>> \o h[i + 1]]
           Escapes(h) == [i \in 0 .. N |-> i > 0 /\ w[i] = "b" /\ ~h[i - 1]]
           from == CHOOSE h : h = From(h)
           escapes == CHOOSE h : h = Escapes(h)
           open == {i \in 1 .. N : w[i] = "q" /\ ~escapes[i - 1]}
           bad == {i \in 1 .. N : escapes[i] /\ (i = N \/ w[i + 1] \notin {"q", "b"})}
<1>1. w \in Seq(Byte)
  BY EscapePlaces
<1>2. \A p \in 1 .. N :
        /\ w[p] # "0"
        /\ w[p] = "b" => p + 1 \in 1 .. N /\ w[p + 1] = "q"
        /\ w[p] = "q" => p - 1 \in 1 .. N /\ w[p - 1] = "b"
  BY EscapedBytes
<1>3. PICK at : EscapedAt(s, w, at)
  BY EscapePlaces
<1> HIDE DEF w
<1>4. body = w
  <2> DEFINE q == <<"q">>
             u == q \o w \o q
  <2>1. q \in Seq(Byte) /\ Len(q) = 1
    <3>1. "q" \in Byte
      BY DEF Byte
    <3>2. QED
      BY <3>1
  <2> HIDE DEF q
  <2>2. /\ u \in Seq(Byte) /\ Len(u) = Len(q) + Len(w) + Len(q)
        /\ \A i \in 1 .. Len(w) : u[Len(q) + i] = w[i]
    <3>1. q \in Seq(Byte)
      BY <2>1
    <3>2. QED
      BY <1>1, <3>1, ThreeParts
  <2>3. u = t
    BY DEF q, w
  <2> HIDE DEF u, t
  <2>4. Len(w) \in Nat
    BY <1>1
  <2>5. 1 + Len(w) <= Len(u) /\ \A i \in 1 .. Len(w) : u[1 + i] = w[i]
    BY <2>1, <2>2, <2>4
  <2>6. SubSeq(u, 1 + 1, 1 + Len(w)) = w
    BY <1>1, <2>2, <2>5, PieceIs
  <2>7. Len(u) - 1 = 1 + Len(w) /\ 1 + 1 = 2
    BY <2>1, <2>2, <2>4
  <2>8. QED
    BY <2>3, <2>6, <2>7
<1>5. Parsed(t) = IF open \cup bad # {} \/ "0" \in ToSet(w) THEN <<"none">> ELSE from[1]
  <2> HIDE DEF body, t
  <2>1. Parsed(t) =
          LET from_[i \in 1 .. Len(body) + 2] ==
                IF i > Len(body) THEN <<>>
                ELSE IF body[i] = "b" THEN <<body[i + 1]>> \o from_[i + 2]
                ELSE <<body[i]>> \o from_[i + 1]
              escapes_[i \in 0 .. Len(body)] == i > 0 /\ body[i] = "b" /\ ~escapes_[i - 1]
              open_ == {i \in 1 .. Len(body) : body[i] = "q" /\ ~escapes_[i - 1]}
              bad_  == {i \in 1 .. Len(body) :
                          escapes_[i] /\ (i = Len(body) \/ body[i + 1] \notin {"q", "b"})}
          IN IF open_ \cup bad_ # {} \/ "0" \in ToSet(body) THEN <<"none">> ELSE from_[1]
    BY DEF Parsed, NoString, body
  <2>2. QED
    BY <1>4, <2>1
<1> HIDE DEF t, body
<1>6. N \in Nat /\ \A i \in 1 .. N : w[i] \in Byte
  BY <1>1
<1> HIDE DEF N
<1>7. escapes = Escapes(escapes)
  <2> DEFINE g == [i \in 1 .. N |-> [x \in BOOLEAN |-> w[i] = "b" /\ ~x]]
  <2>1. g \in [1 .. N -> [BOOLEAN -> BOOLEAN]]
    OBVIOUS
  <2> HIDE DEF g
  <2>2. PICK f \in [0 .. N -> BOOLEAN] : Turns(f, N, FALSE, g)
    <3>1. FALSE \in BOOLEAN
      OBVIOUS
    <3>2. QED
      BY <1>6, <2>1, <3>1, TurnsExist
  <2>3. f[0] = FALSE /\ \A i \in 1 .. N : f[i] = g[i][f[i - 1]]
    BY <2>2 DEF Turns
  <2>4. ASSUME NEW i \in 0 .. N PROVE f[i] = (i > 0 /\ w[i] = "b" /\ ~f[i - 1])
    <3>1. CASE i = 0
      BY <2>3, <3>1
    <3>2. CASE i # 0
      <4>1. i \in 1 .. N /\ i - 1 \in 0 .. N /\ i > 0
        BY <1>6, <3>2
      <4>2. f[i - 1] \in BOOLEAN
        BY <4>1
      <4>3. g[i][f[i - 1]] = (w[i] = "b" /\ ~f[i - 1])
        BY <4>1, <4>2 DEF g
      <4>4. f[i] = (w[i] = "b" /\ ~f[i - 1])
        BY <2>3, <4>1, <4>3
      <4>5. QED
        BY <4>1, <4>4
    <3>3. QED
      BY <3>1, <3>2
  <2>5. f = [i \in 0 .. N |-> f[i]]
    OBVIOUS
  <2>6. f = Escapes(f)
    BY <2>4, <2>5
  <2> HIDE DEF Escapes
  <2>7. QED
    BY <2>6
<1>8. from = From(from)
  <2> DEFINE M == 1 .. N + 2
             B == {i \in M : i > N}
             b == [i \in M |-> <<>>]
             p == [i \in M |-> IF i \in B THEN i ELSE IF w[i] = "b" THEN i + 2 ELSE i + 1]
             x == [i \in M |-> IF w[i] = "b" THEN <<w[i + 1]>> ELSE <<w[i]>>]
             g == [i \in M |-> [y \in D |-> IF i \in B THEN <<>> ELSE x[i] \o y]]
             m == [i \in M |-> N + 2 - i]
  <2>1. ASSUME NEW i \in M, i \notin B
        PROVE  /\ i \in 1 .. N /\ x[i] \in D
               /\ i + 1 \in M /\ i + 2 \in M /\ p[i] = IF w[i] = "b" THEN i + 2 ELSE i + 1
    <3>1. i \in 1 .. N
      BY <1>6, <2>1
    <3>2. w[i] = "b" => i + 1 \in 1 .. N
      BY <1>2, <3>1 DEF N
    <3>3. w[i] \in Byte /\ (w[i] = "b" => w[i + 1] \in Byte)
      BY <1>6, <3>1, <3>2
    <3>4. i + 1 \in M /\ i + 2 \in M
      BY <1>6, <3>1
    <3>5. x[i] \in D
      BY <3>3
    <3>6. p[i] = IF w[i] = "b" THEN i + 2 ELSE i + 1
      BY <2>1
    <3>7. QED
      BY <3>1, <3>4, <3>5, <3>6
  <2>2. b \in [M -> D]
    <3>1. <<>> \in D
      OBVIOUS
    <3> HIDE DEF D, M
    <3>2. QED
      BY <3>1
  <2>3. p \in [M -> M]
    <3>1. ASSUME NEW i \in M PROVE p[i] \in M
      <4>1. CASE i \in B
        BY <4>1
      <4>2. CASE i \notin B
        <5>1. i + 1 \in M /\ i + 2 \in M /\ p[i] = IF w[i] = "b" THEN i + 2 ELSE i + 1
          BY <2>1, <4>2
        <5> HIDE DEF p, M
        <5>2. QED
          BY <5>1
      <4>3. QED
        BY <4>1, <4>2
    <3>2. p = [i \in M |-> p[i]]
      OBVIOUS
    <3> HIDE DEF p, M
    <3>3. QED
      BY <3>1, <3>2
  <2>4. g \in [M -> [D -> D]]
    <3>1. <<>> \in D /\ \A u, v \in D : u \o v \in D
      OBVIOUS
    <3>2. \A i \in M : i \notin B => x[i] \in D
      BY <2>1
    <3> HIDE DEF x, D, M, B
    <3>3. QED
      BY <3>1, <3>2
  <2>5. m \in [M -> Nat] /\ \A i \in M : i \notin B => m[p[i]] < m[i]
    <3>1. m \in [M -> Nat]
      BY <1>6
    <3>2. ASSUME NEW i \in M, i \notin B PROVE m[p[i]] < m[i]
      <4>1. CASE w[i] = "b"
        <5>1. p[i] = i + 2 /\ i + 2 \in M
          BY <2>1, <3>2, <4>1
        <5>2. m[i + 2] = N + 2 - (i + 2) /\ m[i] = N + 2 - i
          BY <5>1
        <5> HIDE DEF p, m
        <5>3. QED
          BY <1>6, <5>1, <5>2
      <4>2. CASE w[i] # "b"
        <5>1. p[i] = i + 1 /\ i + 1 \in M
          BY <2>1, <3>2, <4>2
        <5>2. m[i + 1] = N + 2 - (i + 1) /\ m[i] = N + 2 - i
          BY <5>1
        <5> HIDE DEF p, m
        <5>3. QED
          BY <1>6, <5>1, <5>2
      <4>3. QED
        BY <4>1, <4>2
    <3>3. QED
      BY <3>1, <3>2
  <2>6. PICK f \in [M -> D] : Computes(f, M, B, b, p, g)
    <3> HIDE DEF M, D, B, b, p, g, m
    <3>1. QED
      BY <2>2, <2>3, <2>4, <2>5, RecursionExists
  <2>7. ASSUME NEW i \in M
        PROVE  f[i] = IF i > N THEN <<>>
                      ELSE IF w[i] = "b" THEN <<w[i + 1]>> \o f[i + 2]
                      ELSE <<w[i]>> \o f[i + 1]
    <3>1. f[i] = IF i \in B THEN b[i] ELSE g[i][f[p[i]]]
      BY <2>6 DEF Computes
    <3>2. CASE i \in B
      BY <3>1, <3>2
    <3>3. CASE i \notin B
      <4>1. p[i] = (IF w[i] = "b" THEN i + 2 ELSE i + 1) /\ p[i] \in M
        BY <2>1, <2>3, <3>3
      <4>2. f[p[i]] \in D
        <5> HIDE DEF D, M, p
        <5>1. QED
          BY <2>6, <4>1
      <4> DEFINE y == f[p[i]]
      <4>3. g[i][y] = x[i] \o y
        <5> HIDE DEF D, y, x, p, M, B
        <5>1. QED
          BY <3>3, <4>2 DEF y
      <4>4. x[i] = IF w[i] = "b" THEN <<w[i + 1]>> ELSE <<w[i]>>
        OBVIOUS
      <4>5. ~(i > N)
        BY <3>3
      <4> HIDE DEF x, g, p, B, M
      <4>6. f[i] = x[i] \o f[p[i]]
        BY <3>1, <3>3, <4>3
      <4>7. QED
        BY <4>1, <4>4, <4>5, <4>6
    <3>4. QED
      BY <3>2, <3>3
  <2>8. f = From(f)
    <3>1. f = [i \in M |-> f[i]]
      BY <2>6
    <3>2. QED
      BY <2>7, <3>1
  <2> HIDE DEF From
  <2>9. QED
    BY <2>8
<1> HIDE DEF from, escapes
<1>9. \A i \in 1 .. N : escapes[i] = (w[i] = "b" /\ ~escapes[i - 1])
  <2>1. ASSUME NEW i \in 1 .. N PROVE escapes[i] = (w[i] = "b" /\ ~escapes[i - 1])
    <3>1. i \in 0 .. N /\ i > 0
      BY <1>6
    <3>2. escapes[i] = (i > 0 /\ w[i] = "b" /\ ~escapes[i - 1])
      BY <1>7, <3>1
    <3> HIDE DEF Escapes
    <3>3. QED
      BY <3>1, <3>2
  <2>2. QED
    BY <2>1
<1>10. ASSUME NEW i \in 1 .. N, w[i] = "b" PROVE escapes[i] /\ i + 1 \in 1 .. N /\ w[i + 1] = "q"
  <2>1. i + 1 \in 1 .. N /\ w[i + 1] = "q"
    BY <1>2, <1>10 DEF N
  <2>2. ~escapes[i - 1]
    <3>1. CASE i = 1
      <4>1. 0 \in 0 .. N /\ ~(0 > 0)
        BY <1>6
      <4>2. escapes[0] = (0 > 0 /\ w[0] = "b" /\ ~escapes[0 - 1])
        BY <1>7, <4>1
      <4>3. ~escapes[0]
        BY <4>1, <4>2
      <4>4. i - 1 = 0
        BY <3>1
      <4>5. QED
        BY <4>3, <4>4
    <3>2. CASE i # 1
      <4> DEFINE j == i - 1
      <4>1. j \in 1 .. N /\ j + 1 = i
        BY <1>6, <3>2
      <4> HIDE DEF j
      <4>2. escapes[j] => w[j] = "b"
        BY <1>9, <4>1
      <4>3. w[j] = "b" => w[j + 1] = "q"
        BY <1>2, <4>1 DEF N
      <4>4. ~escapes[j]
        BY <1>10, <4>1, <4>2, <4>3
      <4>5. QED
        BY <4>4 DEF j
    <3>3. QED
      BY <3>1, <3>2
  <2>3. QED
    BY <1>9, <1>10, <2>1, <2>2
<1>11. open = {}
  <2>1. ASSUME NEW i \in 1 .. N, w[i] = "q" PROVE escapes[i - 1]
    <3> DEFINE j == i - 1
    <3>1. j \in 1 .. N /\ w[j] = "b"
      BY <1>2, <2>1 DEF N
    <3> HIDE DEF j
    <3>2. escapes[j]
      BY <1>10, <3>1
    <3>3. QED
      BY <3>2 DEF j
  <2>2. QED
    BY <2>1
<1>12. bad = {}
  <2>1. ASSUME NEW i \in 1 .. N, escapes[i] PROVE i # N /\ w[i + 1] = "q"
    <3>1. w[i] = "b"
      BY <1>9, <2>1
    <3>2. i + 1 \in 1 .. N /\ w[i + 1] = "q"
      BY <1>10, <3>1
    <3>3. QED
      BY <1>6, <3>2
  <2>2. QED
    BY <2>1
<1>13. "0" \notin ToSet(w)
  <2>1. DOMAIN w = 1 .. N
    BY <1>1 DEF N
  <2>2. QED
    BY <1>2, <2>1 DEF ToSet, N
<1>14. Parsed(t) = from[1]
  <2>1. open \cup bad = {}
    BY <1>11, <1>12
  <2> HIDE DEF open, bad
  <2>2. QED
    BY <1>5, <1>13, <2>1
<1>15. ASSUME NEW i \in 1 .. N + 2
       PROVE  from[i] = IF i > N THEN <<>>
                        ELSE IF w[i] = "b" THEN <<w[i + 1]>> \o from[i + 2]
                        ELSE <<w[i]>> \o from[i + 1]
  BY <1>8
<1> HIDE DEF From, Escapes, open, bad
<1>16. /\ at \in [0 .. n -> Nat] /\ at[0] = 0 /\ at[n] = N
       /\ \A k \in 1 .. n :
            /\ at[k] <= N
            /\ s[k] = "q" => at[k] = at[k - 1] + 2 /\ w[at[k - 1] + 1] = "b" /\ w[at[k - 1] + 2] = "q"
            /\ s[k] # "q" => at[k] = at[k - 1] + 1 /\ w[at[k - 1] + 1] = s[k]
  BY <1>3 DEF EscapedAt, N
<1>17. n \in Nat /\ \A k \in 1 .. n : s[k] # "b"
  <2>1. DOMAIN s = 1 .. n
    OBVIOUS
  <2>2. QED
    BY <2>1 DEF ToSet
<1> HIDE DEF n
<1> DEFINE h == [k \in 0 .. n |-> from[at[k] + 1]]
<1>18. h[n] = <<>>
  <2>1. n \in 0 .. n /\ N + 1 \in 1 .. N + 2 /\ N + 1 > N
    BY <1>6, <1>17
  <2>2. h[n] = from[N + 1]
    BY <1>16, <2>1
  <2>3. from[N + 1] = <<>>
    BY <1>15, <2>1
  <2>4. QED
    BY <2>2, <2>3
<1>19. ASSUME NEW k \in 1 .. n PROVE h[k - 1] = <<s[k]>> \o h[k]
  <2> DEFINE a == at[k - 1]
             i == a + 1
  <2>1. k \in 0 .. n /\ k - 1 \in 0 .. n
    BY <1>17
  <2>2. a \in Nat /\ at[k] \in Nat /\ at[k] <= N
    BY <1>16, <2>1
  <2>3. /\ s[k] = "q" => at[k] = a + 2 /\ w[a + 1] = "b" /\ w[a + 2] = "q"
        /\ s[k] # "q" => at[k] = a + 1 /\ w[a + 1] = s[k]
    BY <1>16
  <2>4. h[k - 1] = from[i] /\ h[k] = from[at[k] + 1]
    BY <2>1
  <2> HIDE DEF a, h
  <2>5. i + 1 = a + 2 /\ i \in 1 .. N + 2 /\ ~(i > N)
    BY <1>6, <2>2, <2>3
  <2>6. from[i] = IF w[i] = "b" THEN <<w[i + 1]>> \o from[i + 2] ELSE <<w[i]>> \o from[i + 1]
    <3> HIDE DEF i
    <3>1. QED
      BY <1>15, <2>5
  <2>7. CASE s[k] = "q"
    <3>1. w[i] = "b" /\ w[i + 1] = "q" /\ at[k] + 1 = i + 2
      BY <2>2, <2>3, <2>5, <2>7
    <3> HIDE DEF i
    <3>2. from[i] = <<s[k]>> \o from[at[k] + 1]
      BY <2>6, <2>7, <3>1
    <3>3. QED
      BY <2>4, <3>2
  <2>8. CASE s[k] # "q"
    <3>1. w[i] = s[k] /\ w[i] # "b" /\ at[k] + 1 = i + 1
      BY <1>17, <2>2, <2>3, <2>8
    <3> HIDE DEF i
    <3>2. from[i] = <<s[k]>> \o from[at[k] + 1]
      BY <2>6, <3>1
    <3>3. QED
      BY <2>4, <3>2
  <2>9. QED
    BY <2>7, <2>8
<1>20. h[0] = s
  <2> HIDE DEF h
  <2>1. h[Len(s)] = <<>> /\ \A k \in 1 .. Len(s) : h[k - 1] = <<s[k]>> \o h[k]
    BY <1>18, <1>19 DEF n
  <2>2. QED
    BY <2>1, ReadBack
<1>21. h[0] = from[1]
  <2>1. 0 \in 0 .. n /\ 0 + 1 = 1
    BY <1>17
  <2>2. QED
    BY <1>16, <2>1
<1>22. QED
  BY <1>14, <1>20, <1>21 DEF t

\* A string that the server may quote arrives as it is (utf8_quote_with_escape, JSON.parse).
LEMMA StringsAlwaysArrive == StringsArrive
<1> SUFFICES ASSUME NEW s \in Strings, Quotable(s) PROVE Parsed(Quote(s)) = s
  BY DEF StringsArrive
<1>1. s \in Seq(Byte) /\ WellFormed(s)
  BY ApiMessagesAssumption, TextsAreBytes
<1>2. "b" \notin ToSet(s) /\ "0" \notin ToSet(s)
  BY <1>1 DEF Quotable, WellFormed
<1>3. PICK H : EscapedFrom(s, Len(s), H) /\ H[Len(s)] = <<>>
  BY <1>1, EscapedFromExists
<1>4. Quote(s) = <<"q">> \o H[0] \o <<"q">>
  BY <1>1, <1>3, QuoteIs
<1>5. Parsed(<<"q">> \o H[0] \o <<"q">>) = s
  BY <1>1, <1>2, <1>3, ParsedIs
<1>6. QED
  BY <1>4, <1>5
=============================================================================
