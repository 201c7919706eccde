------------------------------ MODULE ShareNames ------------------------------
(***************************************************************************)
(* How the shared folders get the names under which the server offers them *)
(* (mpv_script_options.c, media.c).  Each folder of the option             *)
(* "shared_folders" has an enumerated name, share1, share2 and so on, and  *)
(* perhaps a name given by the user; names of users that look like         *)
(* enumerated ones are resolved by swapping the latter.  A share is found  *)
(* by the first URL pattern that matches.                                  *)
(*                                                                         *)
(* A name is a sequence of words, so that one may continue another one.    *)
(* A share is its place in the option; order lists the shares as           *)
(* onion_dict_preorder visits them.                                        *)
(***************************************************************************)
EXTENDS Integers, Sequences, FiniteSets, SequencesExt

CONSTANTS
  Configs,   \* values of the option: sequences of [key, readable]
  RelPaths,  \* what may follow the name of a share in a URL
  SingleChars  \* words of one character

ASSUME ShareNamesAssumption ==
  /\ Configs \subseteq Seq([key : Seq(STRING), readable : BOOLEAN])
  /\ RelPaths \subseteq Seq(STRING)

\* The digits of a number, as "%d" prints them
Decimal[n \in Nat] ==
  LET digit == <<"0", "1", "2", "3", "4", "5", "6", "7", "8", "9">>[(n % 10) + 1]
  IN IF n < 10 THEN <<digit>> ELSE Append(Decimal[n \div 10], digit)

\* enumerated_name
Enumerated(n) == <<"share">> \o Decimal[n]

\* A turn of the loop of __update_shared_folders: entries whose name has a slash and
\* folders that expand_directory_path cannot read are skipped.
AddShare(infos, o) ==
  IF o.readable /\ "/" \notin ToSet(o.key)
  THEN Append(infos, [key |-> o.key, enum |-> Enumerated(Len(infos) + 1)])
  ELSE infos

NewShares(c) ==
  LET after[k \in 0 .. Len(c)] == IF k = 0 THEN <<>> ELSE AddShare(after[k - 1], c[k])
  IN after[Len(c)]

-----------------------------------------------------------------------------
\* The share that the dictionary has under a name: the one that had it as its
\* enumerated name in the beginning
Index(infos, name) == CHOOSE j \in DOMAIN infos : Enumerated(j) = name

\* The shares that __swap_enumerated_share_names visits on its way to the one which
\* has the name as its enumerated one: it follows earlier swaps from one share to
\* the next.
Visited(infos, name) ==
  LET walk[n \in 0 .. Len(infos)] ==
        IF n = 0 THEN Index(infos, name) ELSE Index(infos, infos[walk[n - 1]].enum)
  IN walk

Holder(infos, name) ==
  LET walk == Visited(infos, name)
      last == CHOOSE n \in 0 .. Len(infos) :
                /\ infos[walk[n]].enum = name
                /\ \A k \in 0 .. n - 1 : infos[walk[k]].enum # name
  IN walk[last]

Swap_FirstOnly(infos, i) ==
  IF \A j \in DOMAIN infos : Enumerated(j) # infos[i].key
  THEN infos
  ELSE LET j == Index(infos, infos[i].key)
       IN [infos EXCEPT ![j].enum = infos[i].enum, ![i].enum = infos[j].enum]

\* (D_Suffix before a definition D is a mutant of D.)
Swap(infos, i) ==
  IF \A j \in DOMAIN infos : Enumerated(j) # infos[i].key
  THEN infos
  ELSE LET j == Holder(infos, infos[i].key)
       IN [infos EXCEPT ![j].enum = infos[i].enum, ![i].enum = infos[j].enum]

\* webui_onion_share_media_folders, step 3a
Named(c, order) ==
  LET after[k \in 0 .. Len(order)] ==
        IF k = 0 THEN NewShares(c) ELSE Swap(after[k - 1], order[k])
  IN after[Len(order)]

\* share_info_get_preferred_key
PreferredKey(info) == IF info.key # <<>> THEN info.key ELSE info.enum

\* __add_handler_for_shares: a handler for the name, one for the enumerated name
Routes_Enumerated(infos, order) ==
  [k \in DOMAIN order |-> [name |-> infos[order[k]].enum, share |-> order[k]]]

Routes(infos, order) ==
  FlattenSeq([k \in DOMAIN order |->
    LET i == order[k]
        named == [name |-> infos[i].key, share |-> i]
        enumerated == [name |-> infos[i].enum, share |-> i]
    IN IF infos[i].key = <<>> THEN <<enumerated>> ELSE <<named, enumerated>>])

\* The route of ".current", which is there before those of the shares.  Its pattern,
\* "^[/]+.current[/]*", takes any character for the dot and has no end.
TakenForCurrent(path) ==
  Len(path) > 1 /\ path[1] \in SingleChars \cup {"."} /\ path[2] = "current"

\* onion_url: the first pattern that matches the path gets the request, with the
\* rest of the path.  The pattern of a share is its name, with nothing behind it.
\* Share 0 stands for the other routes, or none.
Matches(routes, path) == {k \in DOMAIN routes : IsPrefix(routes[k].name, path)}

Route(routes, path) ==
  IF TakenForCurrent(path) \/ Matches(routes, path) = {} THEN [share |-> 0, rest |-> path]
  ELSE LET k == CHOOSE k \in Matches(routes, path) :
                  \A n \in Matches(routes, path) : k <= n
       IN [share |-> routes[k].share,
           rest  |-> SubSeq(path, Len(routes[k].name) + 1, Len(path))]

-----------------------------------------------------------------------------
Orders(infos) ==
  {order \in [DOMAIN infos -> DOMAIN infos] :
     \A i, j \in DOMAIN infos : i # j => order[i] # order[j]}

\* The user gave no name twice.
KeysDiffer(infos) ==
  \A i, j \in DOMAIN infos :
    i # j /\ infos[i].key # <<>> => infos[i].key # infos[j].key

AllNames(infos) ==
  {infos[i].key : i \in DOMAIN infos} \cup {infos[i].enum : i \in DOMAIN infos}

\* No name continues another one, as share10 continues share1.
NoNameContinues(infos) ==
  \A a, b \in AllNames(infos) \ {<<>>} : IsPrefix(a, b) => a = b

\* Whatever the order of the dictionary and the names the user gave, the shares
\* keep different enumerated names, and none of them is the name that the user
\* gave to another share, unless the user gave a name twice.
NamesDiffer ==
  \A c \in Configs : \A order \in Orders(NewShares(c)) :
    LET infos == Named(c, order) IN
    /\ \A i, j \in DOMAIN infos : i # j => infos[i].enum # infos[j].enum
    /\ KeysDiffer(infos) =>
         \A i, j \in DOMAIN infos : i # j => infos[i].key # infos[j].enum

\* The name to which ".current" is redirected, and each enumerated name, leads
\* to its share with the rest of the path, unless a name continues another one
\* (the patterns do not ask for a slash behind the name, so share1 gets what
\* is meant for share10) or looks to the server like ".current".
NamesReach ==
  \A c \in Configs : \A order \in Orders(NewShares(c)) :
    LET infos  == Named(c, order)
        routes == Routes(infos, order)
    IN KeysDiffer(infos) /\ NoNameContinues(infos) =>
         \A i \in DOMAIN infos : \A rest \in RelPaths :
           \A name \in {PreferredKey(infos[i]), infos[i].enum} :
             TakenForCurrent(name \o rest) \/ Route(routes, name \o rest) = [share |-> i, rest |-> rest]
=============================================================================
