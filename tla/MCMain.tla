------------------------------- MODULE MCMain -------------------------------
(***************************************************************************)
(* Up to three options, each kind among them, well formed and not, given   *)
(* once, twice and with other values, before each command, an unknown word *)
(* or none.                                                                *)
(***************************************************************************)
EXTENDS Main

CONSTANTS s1, s2

MCStrings == {s1, s2}
MCRounds == {0, 7, 8}
MCOptionsUsed ==
       {<<"h">>, <<"N">>, <<"v">>, <<"k", s1>>, <<"k", s2>>, <<"i", s1>>, <<"o", s1>>, <<"E", s1>>}
  \cup {<<"R", n>> : n \in MCRounds}
  \cup {<<"D", h>> : h \in {<<s1, s1>>, <<s1, s2>>, <<s2, s1>>, <<NULL, s1>>}}
  \cup {<<"P", h>> : h \in {<<s1, s2>>, <<s2, s1>>, <<s1, NULL>>}}
MCWords == {"sign"}

(* The second looks like success in its last byte. *)
MCLibraryErrors == {65537, 65792}
=============================================================================
