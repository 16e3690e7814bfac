------------------------------ MODULE HashTable ------------------------------
(***************************************************************************)
(* The hash table of palm (palm/src/hash_table.c): buckets of chained      *)
(* entries, the count of elements and an iterator.  The C functions are    *)
(* actions; what they return is answer.  call notes what was called and     *)
(* with which key and value, so that an answer can be held against it.     *)
(***************************************************************************)
EXTENDS Integers, Sequences, FiniteSets

CONSTANTS Keys, Values,
          NULL,              \* the pointer; a value may be NULL
          Hash,              \* hash_f, for each key
          Size,              \* size, the number of buckets
          UserFunctions,     \* what HTmap is called with
          MaxElements        \* bound: elements counts on after HTclear

ASSUME SizeAssumption == Size \in Nat \ {0}
ASSUME HashAssumption == Hash \in [Keys -> Nat]
ASSUME ValuesAssumption == NULL \in Values /\ UserFunctions \subseteq [Values -> Values]

VARIABLES
  entries,    \* for each bucket, its chain
  elements,
  iter,       \* the iterator: its bucket and the key of its current entry
  answer,
  call,       \* the last call that reads or changes the contents
  outcome,    \* "running", "assert" or "crash"
  kept, seen  \* of the iteration: keys in the table all the time, keys visited

vars == <<entries, elements, iter, answer, call, outcome, kept, seen>>
iteration == <<iter, kept, seen>>
lastCall == <<answer, call>>

Buckets == 0..(Size - 1)
Entry == [key : Keys, value : Values]
NoIter == [bucket |-> -1, key |-> NULL]

\* A call is noted; turn tells it from the same call made once more.
Called(op, key, value) ==
  call' = [turn |-> 1 - call.turn, op |-> op, key |-> key, value |-> value]

Index(key) == Hash[key] % Size
HasKey(chain, key) == \E i \in DOMAIN chain : chain[i].key = key
At(chain, key) == CHOOSE i \in DOMAIN chain : chain[i].key = key

KeysIn(t) == {k \in Keys : \E b \in Buckets : HasKey(t[b], k)}

Insert(t, key, value) ==
  LET b == Index(key) IN
  [t EXCEPT ![b] = IF HasKey(@, key)
                     THEN [@ EXCEPT ![At(@, key)].value = value]
                     ELSE Append(@, [key |-> key, value |-> value])]

\* The entry before the one with the key points to the one behind it.
Without(chain, key) ==
  IF HasKey(chain, key)
    THEN [j \in 1..(Len(chain) - 1) |-> IF j < At(chain, key) THEN chain[j] ELSE chain[j + 1]]
    ELSE chain

Mapped(t, f) == [b \in Buckets |-> [i \in DOMAIN t[b] |-> [t[b][i] EXCEPT !.value = f[@]]]]

\* The loop of HTcpy: the entries of a chain are inserted from the first one on,
\* the chains in the order of their buckets.
WithChain(t, chain) ==
  LET upTo[i \in 0..Len(chain)] ==
        IF i = 0 THEN t ELSE Insert(upTo[i - 1], chain[i].key, chain[i].value)
  IN  upTo[Len(chain)]
Copied(t) ==
  LET upTo[b \in 0..Size] ==
        IF b = 0 THEN [c \in Buckets |-> << >>] ELSE WithChain(upTo[b - 1], t[b - 1])
  IN  upTo[Size]

-----------------------------------------------------------------------------
HTinsert(key, value) ==
  /\ outcome = "running" /\ elements < MaxElements
  /\ entries' = Insert(entries, key, value)
  /\ elements' = elements + (IF HasKey(entries[Index(key)], key) THEN 0 ELSE 1)
  /\ answer' = TRUE /\ Called("put", key, value)
  /\ UNCHANGED <<iteration, outcome>>

\* Mistake: the first entry of the bucket is taken for the one looked for.
HTlookupFirst(key) ==
  LET chain == entries[Index(key)] IN
  /\ outcome = "running"
  /\ answer' = IF chain # << >> THEN chain[1].value ELSE NULL
  /\ Called("get", key, NULL)
  /\ UNCHANGED <<entries, elements, iteration, outcome>>

HTlookup(key) ==
  LET chain == entries[Index(key)] IN
  /\ outcome = "running"
  /\ answer' = IF HasKey(chain, key) THEN chain[At(chain, key)].value ELSE NULL
  /\ Called("get", key, NULL)
  /\ UNCHANGED <<entries, elements, iteration, outcome>>

\* entry->next is read before entry is compared with NULL.  An iterator on
\* the entry that is removed is not used again.
HTremove(key) ==
  LET b == Index(key) IN
  /\ outcome = "running" /\ iter.key # key
  /\ IF entries[b] = << >>
       THEN outcome' = "crash" /\ UNCHANGED <<entries, elements, iteration, lastCall>>
       ELSE /\ answer' = IF HasKey(entries[b], key) THEN entries[b][At(entries[b], key)].value
                                                   ELSE NULL
            /\ entries' = [entries EXCEPT ![b] = Without(@, key)]
            /\ elements' = elements - (IF HasKey(entries[b], key) THEN 1 ELSE 0)
            /\ kept' = kept \ {key}
            /\ Called("drop", key, NULL)
            /\ UNCHANGED <<iter, seen, outcome>>

\* elements stays as it is.
HTclear ==
  /\ outcome = "running" /\ iter = NoIter
  /\ entries' = [b \in Buckets |-> << >>]
  /\ Called("drop all", NULL, NULL)
  /\ UNCHANGED <<elements, iteration, answer, outcome>>

\* HTmap, HTmapWithKey and HTmapWithDataAndKey.
HTmap(f) ==
  /\ outcome = "running"
  /\ entries' = Mapped(entries, f) /\ Called("replace", NULL, f)
  /\ UNCHANGED <<elements, iteration, answer, outcome>>

FirstEntry(b) == [bucket |-> b, key |-> entries[b][1].key]

\* HTcpy fails where HTiterate does.
HTcpy ==
  /\ outcome = "running" /\ iter = NoIter
  /\ IF elements # 0 /\ KeysIn(entries) = {}
       THEN outcome' = "assert" /\ UNCHANGED <<entries, elements>>
       ELSE /\ entries' = Copied(entries)
            /\ elements' = Cardinality(KeysIn(entries))
            /\ UNCHANGED outcome
  /\ UNCHANGED <<iteration, lastCall>>

HTiterate ==
  /\ outcome = "running" /\ iter = NoIter
  /\ elements # 0
  /\ UNCHANGED <<entries, elements, lastCall>>
  /\ LET used == {b \in Buckets : entries[b] # << >>} IN
     IF used = {}
       THEN outcome' = "assert" /\ UNCHANGED iteration
       ELSE /\ iter' = FirstEntry(CHOOSE b \in used : \A c \in used : b <= c)
            /\ kept' = KeysIn(entries)
            /\ seen' = {iter'.key}
            /\ UNCHANGED outcome

\* Mistake: the search for the next bucket begins one too far.
BehindNext(b) == {c \in Buckets : c > b + 1 /\ entries[c] # << >>}

\* The buckets in use behind the one the iterator has reached.
Behind(b) == {c \in Buckets : c > b /\ entries[c] # << >>}

HTiterateNext ==
  LET chain == entries[iter.bucket]
      at == At(chain, iter.key)
      used == Behind(iter.bucket)
  IN
  /\ outcome = "running" /\ iter # NoIter
  /\ iter' = CASE at < Len(chain) -> [iter EXCEPT !.key = chain[at + 1].key]
               [] at = Len(chain) /\ used # {} ->
                    FirstEntry(CHOOSE b \in used : \A c \in used : b <= c)
               [] OTHER -> NoIter
  /\ IF iter' = NoIter THEN kept' = {} /\ seen' = {}
                       ELSE seen' = seen \cup {iter'.key} /\ UNCHANGED kept
  /\ UNCHANGED <<entries, elements, lastCall, outcome>>

HTiterateCancel ==
  /\ outcome = "running" /\ iter # NoIter
  /\ iter' = NoIter /\ kept' = {} /\ seen' = {}
  /\ UNCHANGED <<entries, elements, lastCall, outcome>>

HTiterSetValue(value) ==
  LET b == iter.bucket IN
  /\ outcome = "running" /\ iter # NoIter
  /\ entries' = [entries EXCEPT ![b][At(entries[b], iter.key)].value = value]
  /\ Called("set", iter.key, value)
  /\ UNCHANGED <<elements, iteration, answer, outcome>>

\* HTnew.
Init ==
  /\ entries = [b \in Buckets |-> << >>]
  /\ elements = 0
  /\ iter = NoIter
  /\ answer = NULL
  /\ call = [turn |-> 0, op |-> "new", key |-> NULL, value |-> NULL]
  /\ outcome = "running"
  /\ kept = {} /\ seen = {}

Next ==
  \/ \E k \in Keys, v \in Values : HTinsert(k, v)
  \/ \E k \in Keys : HTlookup(k) \/ HTremove(k)
  \/ HTclear \/ HTcpy
  \/ \E f \in UserFunctions : HTmap(f)
  \/ HTiterate \/ HTiterateNext \/ HTiterateCancel
  \/ \E v \in Values : HTiterSetValue(v)

Spec == Init /\ [][Next]_vars
-----------------------------------------------------------------------------
TypeOK ==
  /\ entries \in [Buckets -> Seq(Entry)]
  /\ elements \in Int
  /\ iter \in {NoIter} \cup [bucket : Buckets, key : Keys]
  /\ answer \in Values \cup {TRUE}
  /\ call \in [turn : {0, 1}, op : STRING, key : Keys \cup {NULL}, value : Values \cup UserFunctions]
  /\ outcome \in {"running", "assert", "crash"}
  /\ kept \subseteq Keys /\ seen \subseteq Keys

\* A key is in no bucket but its own, and there at most once: what a lookup
\* finds does not depend on the order of earlier calls.
KeysAreUnique ==
  \A b \in Buckets : \A i \in DOMAIN entries[b] :
    /\ Index(entries[b][i].key) = b
    /\ \A j \in DOMAIN entries[b] : entries[b][i].key = entries[b][j].key => i = j

\* The entry under the iterator is in the table.
IteratorIsInTable ==
  iter # NoIter => iter.bucket \in Buckets /\ HasKey(entries[iter.bucket], iter.key)

\* An iteration that comes to its end has visited every key that was in the
\* table from its beginning, whatever was inserted, set and removed meanwhile.
IterationIsComplete ==
  [][iter # NoIter /\ HTiterateNext /\ iter' = NoIter => kept \subseteq seen]_vars

\* The map the table stands for.
Contents ==
  [k \in KeysIn(entries) |-> entries[Index(k)][At(entries[Index(k)], k)].value]

\* Every call does to that map what the map's call of that meaning does for
\* the same key and value, and answers it; other keys, of the same bucket or
\* not, keep what they have, and copies and iterations leave the map alone.
Map == INSTANCE KeyValueMap WITH map <- Contents, answer <- answer, call <- call
ImplementsMap == Map!Spec
=============================================================================
