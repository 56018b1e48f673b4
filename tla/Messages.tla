------------------------------ MODULE Messages ------------------------------
(***************************************************************************)
(* The wire format of ITCH 5.0 (messages.hpp, bytes.hpp): the fields of    *)
(* the 23 messages, and how decode() and encode() move their bytes.        *)
(*                                                                         *)
(* Bytes are opaque.  A memory is a function from positions to bytes, and  *)
(* an integer is the sequence of its bytes, the most significant first: so *)
(* a decoded field shows which bytes of the record it was read from.       *)
(***************************************************************************)
EXTENDS Integers, Sequences, FiniteSets

Zero == -1       \* the byte 0
Beyond == -2     \* what lies outside a buffer
TypeByte == -3   \* the type of a message

-----------------------------------------------------------------------------
(* Loads and stores.  The byte swap after the copy makes the first byte    *)
(* the most significant one.                                               *)

LoadBE(mem, p, width) == [i \in 1 .. width |-> mem[p + i - 1]]

\* A 48 bit load that keeps the two bytes in front of the field.
LoadUnmasked(mem, p) == LoadBE(mem, p - 2, 8)

\* load_be48_overread: 8 bytes that end with the field, the first two masked
LoadBE48(mem, p) == [i \in 1 .. 8 |-> IF i <= 2 THEN Zero ELSE mem[p - 2 + i - 1]]

-----------------------------------------------------------------------------
(* The layouts: for each field its offset and its width.                   *)

HeaderFields == [locate |-> <<1, 2>>, tracking |-> <<3, 2>>, timestamp |-> <<5, 6>>]

HeaderLength == 11

Layout(length, fields) == [length |-> length, fields |-> fields]

StockMessages ==
    [S |-> Layout(12, [event_code |-> <<11, 1>>]),
     R |-> Layout(39, [stock |-> <<11, 8>>, market_category |-> <<19, 1>>,
                       financial_status |-> <<20, 1>>, round_lot_size |-> <<21, 4>>,
                       round_lots_only |-> <<25, 1>>, issue_classification |-> <<26, 1>>,
                       issue_subtype |-> <<27, 2>>, authenticity |-> <<29, 1>>,
                       short_sale_threshold |-> <<30, 1>>, ipo_flag |-> <<31, 1>>,
                       luld_ref_price_tier |-> <<32, 1>>, etp_flag |-> <<33, 1>>,
                       etp_leverage_factor |-> <<34, 4>>, inverse_indicator |-> <<38, 1>>]),
     H |-> Layout(25, [stock |-> <<11, 8>>, trading_state |-> <<19, 1>>,
                       reserved |-> <<20, 1>>, reason |-> <<21, 4>>]),
     Y |-> Layout(20, [stock |-> <<11, 8>>, reg_sho_action |-> <<19, 1>>]),
     L |-> Layout(26, [mpid |-> <<11, 4>>, stock |-> <<15, 8>>,
                       primary_market_maker |-> <<23, 1>>, market_maker_mode |-> <<24, 1>>,
                       market_participant_state |-> <<25, 1>>]),
     V |-> Layout(35, [level1 |-> <<11, 8>>, level2 |-> <<19, 8>>, level3 |-> <<27, 8>>]),
     W |-> Layout(12, [breached_level |-> <<11, 1>>]),
     K |-> Layout(28, [stock |-> <<11, 8>>, release_time |-> <<19, 4>>,
                       release_qualifier |-> <<23, 1>>, ipo_price |-> <<24, 4>>]),
     J |-> Layout(35, [stock |-> <<11, 8>>, reference_price |-> <<19, 4>>,
                       upper_price |-> <<23, 4>>, lower_price |-> <<27, 4>>,
                       extension |-> <<31, 4>>]),
     h |-> Layout(21, [stock |-> <<11, 8>>, market_code |-> <<19, 1>>,
                       halt_action |-> <<20, 1>>])]

OrderMessages ==
    [A |-> Layout(36, [ref |-> <<11, 8>>, side |-> <<19, 1>>, shares |-> <<20, 4>>,
                       stock |-> <<24, 8>>, price |-> <<32, 4>>]),
     F |-> Layout(40, [ref |-> <<11, 8>>, side |-> <<19, 1>>, shares |-> <<20, 4>>,
                       stock |-> <<24, 8>>, price |-> <<32, 4>>, attribution |-> <<36, 4>>]),
     E |-> Layout(31, [ref |-> <<11, 8>>, executed_shares |-> <<19, 4>>,
                       match_number |-> <<23, 8>>]),
     C |-> Layout(36, [ref |-> <<11, 8>>, executed_shares |-> <<19, 4>>,
                       match_number |-> <<23, 8>>, printable |-> <<31, 1>>,
                       execution_price |-> <<32, 4>>]),
     X |-> Layout(23, [ref |-> <<11, 8>>, cancelled_shares |-> <<19, 4>>]),
     D |-> Layout(19, [ref |-> <<11, 8>>]),
     U |-> Layout(35, [original_ref |-> <<11, 8>>, new_ref |-> <<19, 8>>,
                       shares |-> <<27, 4>>, price |-> <<31, 4>>])]

TradeMessages ==
    [P |-> Layout(44, [ref |-> <<11, 8>>, side |-> <<19, 1>>, shares |-> <<20, 4>>,
                       stock |-> <<24, 8>>, price |-> <<32, 4>>, match_number |-> <<36, 8>>]),
     Q |-> Layout(40, [shares |-> <<11, 8>>, stock |-> <<19, 8>>, cross_price |-> <<27, 4>>,
                       match_number |-> <<31, 8>>, cross_type |-> <<39, 1>>]),
     B |-> Layout(19, [match_number |-> <<11, 8>>]),
     I |-> Layout(50, [paired_shares |-> <<11, 8>>, imbalance_shares |-> <<19, 8>>,
                       imbalance_direction |-> <<27, 1>>, stock |-> <<28, 8>>,
                       far_price |-> <<36, 4>>, near_price |-> <<40, 4>>,
                       current_reference_price |-> <<44, 4>>, cross_type |-> <<48, 1>>,
                       price_variation_indicator |-> <<49, 1>>]),
     N |-> Layout(20, [stock |-> <<11, 8>>, interest_flag |-> <<19, 1>>]),
     O |-> Layout(48, [stock |-> <<11, 8>>, open_eligibility_status |-> <<19, 1>>,
                       min_allowable_price |-> <<20, 4>>, max_allowable_price |-> <<24, 4>>,
                       near_execution_price |-> <<28, 4>>, near_execution_time |-> <<32, 8>>,
                       lower_price_range_collar |-> <<40, 4>>,
                       upper_price_range_collar |-> <<44, 4>>])]

AllMessages == [t \in DOMAIN StockMessages \cup DOMAIN OrderMessages \cup DOMAIN TradeMessages |->
                   IF t \in DOMAIN StockMessages THEN StockMessages[t]
                   ELSE IF t \in DOMAIN OrderMessages THEN OrderMessages[t] ELSE TradeMessages[t]]

\* kMessageLength: 0 for a type ITCH does not define
MessageLength(type) == IF type \in DOMAIN AllMessages THEN AllMessages[type].length ELSE 0

Covers(field, b) == field[1] <= b /\ b < field[1] + field[2]

\* fields_tile_message, a static_assert: every byte behind the header belongs
\* to one field, and no field ends beyond the message.
ASSUME FieldsTileMessages ==
    \A type \in DOMAIN AllMessages :
        LET fields == AllMessages[type].fields
        IN  /\ \A b \in HeaderLength .. MessageLength(type) - 1 :
                   Cardinality({f \in DOMAIN fields : Covers(fields[f], b)}) = 1
            /\ \A f \in DOMAIN fields : /\ fields[f][1] >= HeaderLength
                                        /\ fields[f][1] + fields[f][2] <= MessageLength(type)

-----------------------------------------------------------------------------
(* decode() and encode().                                                  *)

FieldsOf(type) == [f \in DOMAIN HeaderFields \cup DOMAIN AllMessages[type].fields |->
                      IF f \in DOMAIN HeaderFields THEN HeaderFields[f]
                      ELSE AllMessages[type].fields[f]]

Decode(type, mem, p) ==
    LET fields == FieldsOf(type)
    IN  [f \in DOMAIN fields |-> IF f = "timestamp" THEN LoadBE48(mem, p + 5)
                                 ELSE LoadBE(mem, p + fields[f][1], fields[f][2])]

\* A field is stored with its width: of a timestamp the low 6 bytes.
Encode(type, m) ==
    LET fields == FieldsOf(type)
    IN  [b \in 0 .. MessageLength(type) - 1 |->
            IF b = 0 THEN TypeByte
            ELSE LET f == CHOOSE g \in DOMAIN fields : Covers(fields[g], b)
                 IN  m[f][b - fields[f][1] + 1 + Len(m[f]) - fields[f][2]]]
=============================================================================
