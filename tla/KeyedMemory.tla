------------------------------ MODULE KeyedMemory ------------------------------
(***************************************************************************)
(* What the agent may rely on of its memory, whatever other processes do   *)
(* to the file (crates/memory/src/store.rs): a map from keys to what was   *)
(* stored under them last, pointers that stay good, and a search that is   *)
(* no snapshot but misses nothing that matched it from beginning to end.   *)
(***************************************************************************)
CONSTANTS Key, ToolKey, Content, None

VARIABLES
    value,     \* what is stored under a key: nothing, or one content
    pointers,  \* what was handed out as memory://tools/<key>, with its content
    query,     \* of the search in flight, or None
    owed,      \* the keys whose value has been the query since it began
    ready,     \* the search can answer
    answer     \* ... with these keys and contents

keyedVars == <<value, pointers, query, owed, ready, answer>>
AnyKey == Key \cup ToolKey

KeyedInit ==
    /\ value \in [AnyKey -> {{}} \cup {{c} : c \in Content}]
    /\ \A k \in ToolKey : value[k] = {}
    /\ pointers = {} /\ query = None /\ owed = {}
    /\ ready = FALSE /\ answer = {}

\* An answer has all that is owed and nothing that is not stored.
Honest ==
    IF ready THEN /\ {<<k, query>> : k \in owed} \subseteq answer
                  /\ answer \subseteq UNION {{k} \X value[k] : k \in AnyKey}
    ELSE answer = {}

Write(k, c) ==
    /\ UNCHANGED <<query, ready>>
    /\ owed' = IF c = query THEN owed ELSE owed \ {k}
    /\ value' = [value EXCEPT ![k] = {c}]

Put(k, c) == UNCHANGED pointers /\ Write(k, c)

\* A tool result has a key of its own, which is never written again.
Record(k, c) ==
    /\ value[k] = {}
    /\ pointers' = pointers \cup {<<k, c>>}
    /\ Write(k, c)

Remove(k) ==
    /\ value[k] # {}
    /\ UNCHANGED <<pointers, query, ready>>
    /\ owed' = owed \ {k}
    /\ value' = [value EXCEPT ![k] = {}]

Ask(q) ==
    /\ query = None
    /\ query' = q
    /\ owed' = {k \in AnyKey : value[k] = {q}}
    /\ UNCHANGED <<value, pointers, ready>>

GetReady ==
    /\ query # None /\ ~ready
    /\ ready' = TRUE
    /\ UNCHANGED <<value, pointers, query, owed>>

\* It answers, or it ends with its process.
End ==
    /\ query # None
    /\ query' = None /\ owed' = {} /\ ready' = FALSE
    /\ UNCHANGED <<value, pointers>>

KeyedNext ==
    /\ \/ GetReady \/ End \/ \E q \in Content : Ask(q)
       \/ \E k \in ToolKey, c \in Content : Record(k, c)
       \/ \E k \in Key : (\E c \in Content : Put(k, c)) \/ Remove(k)
    /\ Honest'

KeyedSpec == KeyedInit /\ [][KeyedNext]_keyedVars
================================================================================
