------------------------------ MODULE MCConfig ------------------------------
(***************************************************************************)
(* Forms that differ in every parameter, with both kinds of line end; some *)
(* files that no form describes: a line of two characters, an 's' at the   *)
(* end, a blank line first, five lines, no line end at all.                *)
(***************************************************************************)
EXTENDS Config

Form(s, a, b, o, v, e) ==
  [seatalk |-> s, baudA |-> a, baudB |-> b, outputs |-> o, vessel |-> v, eol |-> e]

MCForms ==
  {Form(TRUE, 3, 3, 2, <<3, 2>>, <<CR, LF>>),
   Form(FALSE, 5, 0, 1, <<10, 240>>, <<LF>>),
   Form(FALSE, 0, 3, 0, <<0, 0>>, <<CR, LF>>)}

\* One that config.php does not offer.
MCFastForms == MCForms \cup {Form(FALSE, 6, 3, 2, <<0, 0>>, <<CR, LF>>)}

MCOtherTexts ==
  {<<Small_s, 51, 51>>, <<51, CR, LF, Small_s>>, <<Small_s, LF>>, <<LF, CR, LF, 48>>,
   <<49, LF, 49, LF, 49, LF, 49, LF, 50, 71>>}
=============================================================================
