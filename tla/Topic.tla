-------------------------------- MODULE Topic --------------------------------
(***************************************************************************)
(* The names the server accepts, and the MQTT topic of a storage-unit,     *)
(* from which the handler of an answer takes the unit's name back.  A word *)
(* is a sequence of characters; those outside Separator stand for letters  *)
(* and digits.                                                             *)
(***************************************************************************)
EXTENDS Naturals, Sequences

Separator == {"@", "/"}
Letter(ch) == ch \notin Separator

(* The handlers match the pattern anywhere in a name they create, the      *)
(* router matches it against all of a name in a path.                      *)
Accepted(word) ==
    \E i \in 1 .. Len(word) - 1 : Letter(word[i]) /\ Letter(word[i + 1])

Routed(word) == Len(word) \in 2 .. 32 /\ \A i \in DOMAIN word : Letter(word[i])

(* The unit's topic, "name@location/1".                                    *)
AssembleBaseStorageTopic(storage, location) ==
    storage \o <<"@">> \o location \o <<"/", "1">>

(* A fault: the separator stays with what is before it.                    *)
Through(word, ch) ==
    SubSeq(word, 1, CHOOSE i \in DOMAIN word :
                        word[i] = ch /\ \A j \in 1 .. i - 1 : word[j] # ch)

(* Back: the name ends at the first "@"; the Join drops the further ones,  *)
(* if there are any, and the location ends at the first "/" of the rest.   *)
Before(word, ch) ==
    LET at == CHOOSE i \in DOMAIN word :
                 word[i] = ch /\ \A j \in 1 .. i - 1 : word[j] # ch
    IN  SubSeq(word, 1, at - 1)

After(word, ch) == SubSeq(word, Len(Before(word, ch)) + 2, Len(word))

Joined(word, ch) == IF \A i \in DOMAIN word : word[i] # ch THEN word
                    ELSE SelectSeq(word, LAMBDA x : x # ch)

DisassembleBaseStorageTopic(topic) ==
    LET rest == Joined(After(topic, "@"), "@")
    IN  [storage |-> Before(topic, "@"), location |-> Before(rest, "/")]
=============================================================================
