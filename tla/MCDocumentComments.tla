------------------------- MODULE MCDocumentComments -------------------------
(* Two districts and texts that are harmless or offensive. *)
EXTENDS DocumentComments

MCNothing == {}
MCAllowForms == {"forms"}

MCForms == {[text |-> 0, name |-> 0, tag |-> 2], [text |-> 2, name |-> 0, tag |-> Null]}
=============================================================================
