---------------------------- MODULE MCSyncImport ----------------------------
(* Sources for SyncImport.  Two syncs fetch overlapping periods: x1 is in  *)
(* both, x2 looks like x1 but is another purchase, and one item has no id. *)
(* Each dialect's file has the purchase x1, next to lines it must skip;    *)
(* the other uploads are refused, each for a reason of its own.            *)
EXTENDS SyncImport, TLC

CONSTANTS s1, s2, x1, x2

Purchase ==
    [entry_reference |-> x1, transaction_id |-> x2, amount |-> 3500, debit |-> TRUE,
     creditor |-> "netto", debtor |-> None, remittance |-> [words |-> "0012345678", reference |-> TRUE],
     booking_date |-> 1, value_date |-> None]

Lookalike == [Purchase EXCEPT !.entry_reference = None, !.debit = FALSE, !.booking_date = None,
                              !.value_date = 1, !.creditor = None,
                              !.remittance = [words |-> "netto", reference |-> FALSE]]

Unidentified == [Purchase EXCEPT !.entry_reference = Blank, !.creditor = Blank, !.remittance = Blank]

Undated == [Purchase EXCEPT !.booking_date = None]

Unpriced == [Purchase EXCEPT !.amount = None]

(* The third page is beyond the cap. *)
MCPages ==
    [s \in Sagas |-> IF s = s1 THEN << <<Purchase, Undated>>, <<Unpriced, Unidentified>>, <<Lookalike>> >>
                     ELSE << <<Purchase>>, <<Lookalike>> >>]

(* For the longer run: the purchase again without an id, once within the   *)
(* chunk that has it with one and once after that chunk.                   *)
Anonymous == [Purchase EXCEPT !.entry_reference = None, !.transaction_id = None]

MCShort ==
    [s \in Sagas |-> IF s = s1 THEN << <<Purchase>> >>
                     ELSE << <<Purchase, Anonymous>>, <<Lookalike, Anonymous>> >>]

DateCell(written) == [written |-> written, day |-> 1]

AmountCell(written, n) == [written |-> written, hundredths |-> n]

DanskeLine == [date |-> DateCell("31.12.2026"), amount |-> AmountCell("1234,56", -3500),
               text |-> "netto", name |-> None, type |-> None, account |-> None, short |-> FALSE]

DanskeFile ==
    [media |-> "text/csv", size |-> 5, declared |-> 9, format |-> "danske_bank", account_given |-> TRUE,
     encoding |-> "windows-1252", columns |-> {"date", "amount", "text"},
     lines |-> <<DanskeLine, [DanskeLine EXCEPT !.amount.hundredths = 0],
                 [DanskeLine EXCEPT !.date = DateCell("2026/12/31")],
                 [DanskeLine EXCEPT !.amount = AmountCell("?", 0)]>>]

NordeaFile ==
    [DanskeFile EXCEPT !.format = "nordea", !.media = "application/vnd.ms-excel", !.size = None,
        !.lines = <<[DanskeLine EXCEPT !.date = DateCell("2026/12/31"),
                                       !.amount = AmountCell("1.000", -3500000),
                                       !.text = Blank, !.name = "netto"]>>]

InternalLine ==
    [DanskeLine EXCEPT !.date = DateCell("2026-12-31"), !.amount = AmountCell("1234.56", 3500),
                       !.type = "expense", !.account = 1]

InternalFile ==
    [DanskeFile EXCEPT !.format = "internal", !.encoding = "utf-8", !.account_given = FALSE,
        !.columns = {"date", "amount", "transaction_type", "account_id", "account_name", "text"},
        !.lines = <<InternalLine, [InternalLine EXCEPT !.type = "gift"],
                    [InternalLine EXCEPT !.amount.hundredths = -3500],
                    [InternalLine EXCEPT !.amount.written = "1234,56"]>>]

Refused ==
    {[DanskeFile EXCEPT !.media = "application/pdf"],
     [DanskeFile EXCEPT !.size = 11],
     [DanskeFile EXCEPT !.declared = 11],
     [DanskeFile EXCEPT !.format = "lunar"],
     [DanskeFile EXCEPT !.account_given = FALSE],
     [DanskeFile EXCEPT !.columns = {"date", "text"}],
     [DanskeFile EXCEPT !.lines[1].short = TRUE],
     [NordeaFile EXCEPT !.lines = @ \o @ \o @],
     [InternalFile EXCEPT !.encoding = "windows-1252"]}

MCUploads == {DanskeFile, NordeaFile, InternalFile} \cup Refused

WorkerSymmetry == Permutations(Workers)
=============================================================================
