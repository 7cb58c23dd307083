----------------------------- MODULE MCDfuProg -----------------------------
(* Three pages of three words, the first word the boot loader, two bits a byte *)
(* and five files: an image with a hole over all of the middle page, one    *)
(* that fits the user page, one that overlaps the boot loader, one that ends *)
(* behind the flash and one whose last record is damaged.                    *)
EXTENDS DfuProg

MCBits == {1, 2}
High == 32

Data(a, d)  == [type |-> 0, address |-> a, data |-> d, valid |-> TRUE]
Base(t, a)  == [type |-> t, address |-> a, data |-> <<>>, valid |-> TRUE]
Eof         == [type |-> 1, address |-> 0, data |-> <<>>, valid |-> TRUE]

Holed   == <<Base(4, High), Data(1, <<{1}, {}>>), Base(4, High + 6),
             Data(0, <<{2}, {1}, {}>>), Base(3, 0), Base(5, High + 1), Eof>>
Small   == <<Data(1, <<{2}>>), Eof>>
Overlap == <<Data(0, <<{}, {1}, {1, 2}>>), Eof>>
Beyond  == <<Data(8, <<{1}, {2}>>), Eof>>
Damaged == <<Data(1, <<{2}>>), [Eof EXCEPT !.valid = FALSE]>>

MCFiles == {Holed, Small, Overlap, Beyond, Damaged}

\* The theorem about validated writes is about such files.
ASSUME FilesAreRegular == \A file \in MCFiles : Regular(file)
=============================================================================
