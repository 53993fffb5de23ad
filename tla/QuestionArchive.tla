--------------------------- MODULE QuestionArchive ---------------------------
(***************************************************************************)
(* What the question bank promises of a question's content                 *)
(* (src/backend/question_bank/store.py, service.py, module docstrings): a  *)
(* version whose registration completed is part of the archive, and its    *)
(* content is what it was when it entered.  A correction is a new version. *)
(***************************************************************************)
CONSTANTS Keys, Texts, Nothing

VARIABLE archive

Empty == [k \in Keys |-> Nothing]

Commit(k, x) ==
  /\ archive[k] = Nothing
  /\ archive' = [archive EXCEPT ![k] = x]

Next == archive' # archive /\ \E k \in Keys, x \in Texts : Commit(k, x)

Spec == archive = Empty /\ [][Next]_archive
=============================================================================
