---------------------------- MODULE MCHostedForms ----------------------------
(* Two submissions, with the one address there is or without, to the forms of *)
(* two organisations.                                                        *)
EXTENDS HostedForms

CONSTANTS f1, f2, s1, s2, p1

MCForms == {f1, f2}
MCSubmissions == {s1, s2}
MCAddresses == {p1}
=============================================================================
