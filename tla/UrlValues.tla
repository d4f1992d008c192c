------------------------------- MODULE UrlValues -------------------------------
(***************************************************************************)
(* class UrlValues (src/src/writer.cc): the parameters of a url, an        *)
(* ordered map that add() and del() change and encode() turns into pairs.  *)
(* A query is modelled as the sequence of its pairs <<key, value>>, the    *)
(* iterator of encode() as the keys it has still before it.                *)
(***************************************************************************)
EXTENDS Naturals, Sequences

CONSTANTS Keys,      \* the keys, by their place in the order of the map
          UrlTexts,  \* the values
          MaxCalls   \* bound: calls of add and del on an object

VARIABLES values_,  \* the map
          calls,    \* history: the calls of add and del
          encoding, \* encode() has been called since
          ahead,    \* the keys from iter on, none at cend()
          query     \* result of encode()

urlVars == <<values_, calls, encoding, ahead, query>>

Init ==
    /\ values_ = <<>> /\ calls = <<>>
    /\ encoding = FALSE /\ ahead = {} /\ query = <<>>

\* a call of add or del, which changes the map to values
Change(call, values) ==
    /\ ahead = {} /\ Len(calls) < MaxCalls
    /\ values_' = values
    /\ calls' = Append(calls, call)
    /\ encoding' = FALSE /\ query' = <<>>
    /\ UNCHANGED ahead

With(key, value) ==
    [k \in DOMAIN values_ \cup {key} |-> IF k = key THEN value ELSE values_[k]]

\* Fault: the value of a key that is there already is replaced.
FaultAdd(key, value) ==
    Change([op |-> "add", key |-> key, value |-> value], With(key, value))

\* std::map::insert keeps the value of a key that is there already.
add(key, value) ==
    Change([op |-> "add", key |-> key, value |-> value],
           IF key \in DOMAIN values_ THEN values_ ELSE With(key, value))

del(key) ==
    Change([op |-> "del", key |-> key],
           [k \in DOMAIN values_ \ {key} |-> values_[k]])

------------------------------------------------------------------------------
(* encode() *)

First(keys) == CHOOSE k \in keys : \A j \in keys : k <= j

Pair(key) == <<key, values_[key]>>

Several == \E k, j \in DOMAIN values_ : k # j

\* An empty map gives an empty query and a map of one pair that pair.  The
\* first of several is put out, and cbegin()++ does not advance the iterator.
EncodeFirst ==
    /\ ~encoding /\ encoding' = TRUE
    /\ query' = IF DOMAIN values_ = {} THEN <<>> ELSE <<Pair(First(DOMAIN values_))>>
    /\ ahead' = IF Several THEN DOMAIN values_ ELSE {}
    /\ UNCHANGED <<values_, calls>>

EncodeNext ==
    /\ ahead # {}
    /\ query' = Append(query, Pair(First(ahead)))
    /\ ahead' = ahead \ {First(ahead)}
    /\ UNCHANGED <<values_, calls, encoding>>

Next ==
    \/ \E key \in Keys : del(key) \/ \E value \in UrlTexts : add(key, value)
    \/ EncodeFirst \/ EncodeNext

------------------------------------------------------------------------------
(* Properties *)

Encoded == encoding /\ ahead = {}

Pairs(s) == {s[i] : i \in DOMAIN s}

Adds(n, key) == calls[n].op = "add" /\ calls[n].key = key
Dels(n, key) == calls[n].op = "del" /\ calls[n].key = key

\* the call of add that counts: the first since the key was last deleted
Winner(n, key) ==
    /\ Adds(n, key)
    /\ \A i \in DOMAIN calls : i > n => ~Dels(i, key)
    /\ \A i \in DOMAIN calls : i < n /\ Adds(i, key) =>
          \E j \in DOMAIN calls : i < j /\ j < n /\ Dels(j, key)

(***************************************************************************)
(* What the service reads from the query, where a later pair of a key      *)
(* replaces an earlier one, is for each key the value of the first add     *)
(* since the last del, and nothing else.                                   *)
(***************************************************************************)
QuerySays ==
    Encoded => Pairs(query) = {<<calls[n].key, calls[n].value>> :
                                  n \in {i \in DOMAIN calls : Winner(i, calls[i].key)}}

(***************************************************************************)
(* Only the first pair may occur twice, and it does whenever there is      *)
(* another: the query is one pair longer than the map.                     *)
(***************************************************************************)
Repeats == {i \in DOMAIN query : \E j \in DOMAIN query : j < i /\ query[i] = query[j]}

OnlyFirstTwice == Encoded => Repeats = IF Len(query) < 2 THEN {} ELSE {2}
================================================================================
