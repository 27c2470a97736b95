------------------------------ MODULE MCMpInit ------------------------------
(* Instances of MpInit: a correct hypervisor, with and without a prompt BP, *)
(* and hypervisors with one fault.                                          *)
EXTENDS MpInit

AllSettings ==
  {<<"none", TRUE>>, <<"none", FALSE>>}
  \cup {<<t[1], TRUE>> : t \in Tests \cup Missed}
LateOnly == {<<"none", FALSE>>}
=============================================================================
