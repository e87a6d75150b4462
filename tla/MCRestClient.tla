--------------------------- MODULE MCRestClient ---------------------------
(* "H 404", a blank line and no body; "H 200", a blank line and a body that *)
(* itself has a space and a blank line.                                     *)
EXTENDS RestClient

NotFound == [status |-> 404, head |-> <<72, SP, 52, 48, 52, CR, NL, CR, NL>>,
             body |-> <<>>]
Found    == [status |-> 200, head |-> <<72, SP, 50, 48, 48, CR, NL, CR, NL>>,
             body |-> <<72, SP, 55, NL, NL, 56>>]

\* In the head, after it, in the body.
MCCuts == {5, 9, 11}
MCSymmetry == Permutations(Callbacks)
MCResponses == {NotFound, Found}
=============================================================================
