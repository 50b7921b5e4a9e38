---------------------------- MODULE MCDocumentInput ----------------------------
(***************************************************************************)
(* Small instances of DocumentInput.                                       *)
(***************************************************************************)
EXTENDS DocumentInput

CONSTANTS public1, public2, private

================================================================================
