------------------------------- MODULE LevelMap -------------------------------
(***************************************************************************)
(* What one side of a book promises: a map from keys to levels, and with   *)
(* every call the answer whether the best level was touched.  The engine   *)
(* of BookEngine is built from these operations.                           *)
(***************************************************************************)
EXTENDS BookEngine

VARIABLES lv,          \* the levels, by key
          reply        \* what the last call returned

Answer(key) == IF IsTop(lv, key) THEN "top" ELSE "ok"

Init == lv = EmptySide /\ reply = "none"

AddOrder(key, shares) ==
    /\ lv' = LevelAdd(lv, key, shares)
    /\ reply' = Answer(key)

\* The engine takes from a level what the orders on it have: what is left are
\* so many orders with at most what a message can bring and at least one share,
\* or none if messages without shares come.
Owed(level, shares, gone) ==
    LET left == level.orders - (IF gone THEN 1 ELSE 0)
    IN  /\ shares <= level.qty
        /\ gone \/ shares > 0
        /\ level.qty - shares <= left * Max(Shares)
        /\ 0 \notin Shares => level.qty - shares >= left

ReduceLevel(key, shares, gone) ==
    /\ key \in DOMAIN lv
    /\ Owed(lv[key], shares, gone)
    /\ lv' = LevelReduce(lv, key, shares, gone)
    /\ reply' = Answer(key)

Missing(key) ==
    /\ key \notin DOMAIN lv
    /\ reply' = "missing"
    /\ UNCHANGED lv

Next == \E p \in Prices :
            \/ \E n \in Shares : AddOrder(p, n)
            \/ p \in DOMAIN lv /\ \E n \in 0 .. lv[p].qty, gone \in BOOLEAN :
                                      ReduceLevel(p, n, gone)
            \/ Missing(p)

Spec == Init /\ [][Next]_<<lv, reply>>
=============================================================================
