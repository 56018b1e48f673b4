--------------------------- MODULE SymbolDirectory ---------------------------
(***************************************************************************)
(* The stock directory (symbol_directory.hpp): the symbol of a locate, and *)
(* the locate of a symbol.  A symbol is stored as an Alpha field, padded   *)
(* with spaces to its width, and asked for and shown without the padding.  *)
(***************************************************************************)
EXTENDS Integers, Sequences

CONSTANTS Width,    \* characters of an Alpha field, 8 in the code
          Blank     \* the space character

NoLocate == 0

Spaces(n) == [i \in 1 .. n |-> Blank]

\* Alpha<8> filled with spaces and the name copied to its front
Padded(name) == name \o Spaces(Width - Len(name))

\* trimmed: without the trailing spaces
Trimmed(a) == SubSeq(a, 1, CHOOSE n \in 0 .. Len(a) :
                               /\ n > 0 => a[n] # Blank
                               /\ \A i \in n + 1 .. Len(a) : a[i] = Blank)

NewDirectory(locates) == [symbols   |-> [l \in locates |-> Spaces(Width)],
                          by_symbol |-> [s \in {} |-> NoLocate]]

\* add(), from a Stock Directory message
List(d, l, a) ==
    [symbols   |-> [d.symbols EXCEPT ![l] = a],
     by_symbol |-> [s \in DOMAIN d.by_symbol \cup {a} |->
                        IF s = a THEN l ELSE d.by_symbol[s]]]

Symbol(d, l) == Trimmed(d.symbols[l])

Locate(d, name) ==
    IF Len(name) <= Width /\ Padded(name) \in DOMAIN d.by_symbol
    THEN d.by_symbol[Padded(name)] ELSE NoLocate
=============================================================================
