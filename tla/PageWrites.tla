----------------------------- MODULE PageWrites -----------------------------
(***************************************************************************)
(* Page images and the frames that overwrite them.  A frame of the         *)
(* write-ahead log holds the number and the whole contents of one page     *)
(* (wal/mod.rs, WalFrame); only the page it names and the contents it      *)
(* carries matter here, so frame_number, db_size, salt and the checksum's  *)
(* arithmetic are left out and a frame whose checksum does not verify is   *)
(* the value Torn.                                                         *)
(***************************************************************************)
EXTENDS Integers, Sequences, FiniteSets, FiniteSetsExt

CONSTANTS Page,      \* page numbers that hold data
          Data,      \* page contents
          Absent,    \* a slot of the log beyond the end of the file
          Torn       \* a slot whose bytes fail the checksum

Frame == [page : Page, data : Data]

ASSUME SlotMarks == Absent \notin Frame /\ Torn \notin Frame /\ Absent # Torn

\* What read_frame + verify_checksum accept.
Intact(slot) == slot \notin {Absent, Torn}

\* The positions among the first n of `frames` that hold an intact frame of page p.
Writes(frames, n, p) == {j \in 1..n : Intact(frames[j]) /\ frames[j].page = p}

(***************************************************************************)
(* The page images left by writing the first n of `frames` over `base`, in *)
(* order: the last frame of a page decides.                                *)
(***************************************************************************)
Overlay(base, frames, n) ==
    [p \in Page |->
        LET W == Writes(frames, n, p)
        IN  IF W = {} THEN base[p] ELSE frames[Max(W)].data]
=============================================================================
