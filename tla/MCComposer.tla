----------------------------- MODULE MCComposer -----------------------------
(* Small instance of Composer: three compositions and two files, so that a *)
(* file can be saved with a draft, carried past another composition and    *)
(* still meet a third; and two clicks on a leaving window, so that one can *)
(* drop a file on it and the next dispatch it, or both dispatch it.        *)
EXTENDS Composer

MCHashOf(fields) == fields
MCSeededRows == <<>>
=============================================================================
