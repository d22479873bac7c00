---------------------------- MODULE ImportSources ----------------------------
(***************************************************************************)
(* What an import is given: the rows transaction-service reads from an     *)
(* uploaded CSV file, in one of three dialects, and the items              *)
(* banking-service makes of the pages a bank returns.                      *)
(*                                                                         *)
(* A cell is abstracted to how it is written and what it means: an amount  *)
(* (in hundredths) is written as one of the examples below, a date in one  *)
(* of the dialects' styles.  Both readers end in an item with an external  *)
(* id and the fuzzy key of date, amount and description; the amount of the *)
(* key has lost its sign.                                                  *)
(***************************************************************************)
EXTENDS Integers, Sequences

CONSTANTS
    None,           \* NULL, a missing field, or a text that is empty
    Blank,          \* a text of spaces only
    CSV_MAX_BYTES,
    CSV_MAX_ROWS,
    MAX_TX_PAGES

Magnitude(n) == IF n < 0 THEN -n ELSE n

Item(ext, day, amount, description) ==
    [ext |-> ext, fuzzy |-> <<day, Magnitude(amount), description>>]

(* A text after strip(). *)
Stripped(text) == IF text = Blank THEN None ELSE text

(* Python's `x or y'. *)
Or(x, y) == IF x = None THEN y ELSE x

-----------------------------------------------------------------------------
(* CSV files *)

Decimal(cell) ==
    CASE cell.written \in {"1234.56", "1234"} -> cell.hundredths
      [] cell.written = "1.000" -> cell.hundredths \div 1000
      [] OTHER -> None

(* With a comma a dot only groups digits; without one it is the decimal    *)
(* point, also in a thousand written 1.000.                                *)
parse_danish_amount(cell) ==
    IF cell.written \in {"1.234,56", "1234,56"} THEN cell.hundredths ELSE Decimal(cell)

_parse_date(cell, style) == IF cell.written = style THEN cell.day ELSE None

_extract_description(line) == Or(Or(Stripped(line.text), Stripped(line.name)), "(no description)")

(* A dialect reads a line as one row, or skips it. *)
Row(day, amount, description) ==
    IF None \in {day, amount} THEN {} ELSE {Item(None, day, amount, description)}

NonZero(amount) == IF amount = 0 THEN None ELSE amount

danske_bank(line) ==
    Row(_parse_date(line.date, "31.12.2026"), NonZero(parse_danish_amount(line.amount)),
        Or(Stripped(line.text), "(no description)"))

nordea(line) ==
    Row(_parse_date(line.date, "2026/12/31"), NonZero(parse_danish_amount(line.amount)),
        _extract_description(line))

internal(line) ==
    LET amount == Decimal(line.amount) IN
    IF amount # None /\ amount > 0 /\ line.type \in {"income", "expense"} /\ line.account # None
    THEN Row(_parse_date(line.date, "2026-12-31"), amount, Stripped(line.text))
    ELSE {}

ParsedLine(format, line) ==
    CASE format = "danske_bank" -> danske_bank(line)
      [] format = "nordea" -> nordea(line)
      [] format = "internal" -> internal(line)

_REQUIRED_COLUMNS(format) ==
    IF format = "internal" THEN {"date", "amount", "transaction_type", "account_id", "account_name"}
                           ELSE {"date", "amount", "text"}

Readable(f) == SelectSeq(f.lines, LAMBDA line : ParsedLine(f.format, line) # {})

(* The banks' files may be in either encoding, the internal one may not. *)
_decode(f) == f.format # "internal" \/ f.encoding = "utf-8"

(* A line too short for a cell that is read without a default raises what  *)
(* no parser catches.                                                      *)
Ragged(f) == \E i \in DOMAIN f.lines : f.lines[i].short

add_row(f) == Len(Readable(f)) <= CSV_MAX_ROWS

parse(f) ==
    [i \in DOMAIN Readable(f) |-> CHOOSE row \in ParsedLine(f.format, Readable(f)[i]) : TRUE]

get_parser(f) == f.format \in {"internal", "nordea", "danske_bank"}

reject_oversized_body(f) == f.declared # None /\ f.declared > CSV_MAX_BYTES

_reject_unimportable_upload(f) ==
    \/ f.media \notin {None, "text/csv", "application/csv", "text/plain", "application/vnd.ms-excel",
                       "application/octet-stream"}
    \/ f.size # None /\ f.size > CSV_MAX_BYTES

(* An upload that is refused imports nothing at all. *)
Accepted(f) ==
    /\ ~ reject_oversized_body(f) /\ ~ _reject_unimportable_upload(f)
    /\ f.format # "internal" => f.account_given
    /\ get_parser(f) /\ _decode(f)
    /\ _REQUIRED_COLUMNS(f.format) \subseteq f.columns
    /\ ~ Ragged(f) /\ add_row(f)

-----------------------------------------------------------------------------
(* Pages of the bank *)

_is_reference_number(text) == text \in {None, Blank} \/ text.reference

(* The counterparty's name, unless the bank's text says more. *)
Description(raw) ==
    LET remittance == Stripped(raw.remittance)
        human_name == Or(Stripped(raw.creditor), Stripped(raw.debtor))
    IN  IF human_name # None /\ (remittance = None \/ _is_reference_number(remittance))
        THEN human_name
        ELSE IF remittance # None THEN remittance.words ELSE "Ukendt"

(* A transaction without a readable amount or any date is skipped. *)
Parseable(raw) == raw.amount # None /\ Or(raw.booking_date, raw.value_date) # None

_parse_transaction(raw) ==
    [transaction_id |-> Or(raw.entry_reference, raw.transaction_id),
     amount |-> IF raw.debit THEN - Magnitude(raw.amount) ELSE raw.amount,
     description |-> Description(raw),
     date |-> Or(raw.booking_date, raw.value_date)]

_parse_batch(page) ==
    LET good == SelectSeq(page, Parseable)
    IN  [i \in DOMAIN good |-> _parse_transaction(good[i])]

(* Page after page while the bank has another one, up to the cap. *)
get_transactions(pages) ==
    LET all[k \in 0..Len(pages)] == IF k = 0 THEN <<>> ELSE all[k - 1] \o _parse_batch(pages[k])
    IN  all[IF Len(pages) < MAX_TX_PAGES THEN Len(pages) ELSE MAX_TX_PAGES]

(* The items of the reply: an id of spaces is no id. *)
_handle_fetch_transactions(pages) ==
    LET transactions == get_transactions(pages)
    IN  [i \in DOMAIN transactions |->
            Item(Stripped(transactions[i].transaction_id), transactions[i].date,
                 transactions[i].amount, transactions[i].description)]

=============================================================================
