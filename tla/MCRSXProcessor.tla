--------------------------- MODULE MCRSXProcessor ---------------------------
(***************************************************************************)
(* Commands with all, too few and no data words.  One method is too large  *)
(* for the header's 16 bits and is read back as another.  Three words fill *)
(* a buffer, so that the second command written may not fit.               *)
(***************************************************************************)
EXTENDS RSXProcessor

Command(method, data) == [method |-> method, data |-> data]

MCIssued == {Command(ClearColor, <<>>), Command(BlendFunc, <<0, 1>>),
             Command(BlendFunc, <<1>>), Command(BlendEquation, <<1>>),
             Command(ClearColor, <<1>>), Command(MethodBase + CullFace, <<1>>)}

MCSubmitted == {Command(ClearColor, <<1>>), Command(CullFace, <<>>)}
=============================================================================
