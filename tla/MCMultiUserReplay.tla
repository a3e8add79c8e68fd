-------------------------- MODULE MCMultiUserReplay --------------------------
(***************************************************************************)
(* Four users on three instances and two workers: instances outnumber the  *)
(* workers first and fit them once one has run out of work; one user is    *)
(* paced and has two sessions.                                             *)
(***************************************************************************)
EXTENDS MultiUserReplay

MCInstanceOf == <<1, 1, 2, 3>>
MCAdds == <<<<1, 2>>, <<3>>, <<4>>, <<5>>>>
MCSearches == <<1, 1, 1, 1>>
MCMaxInflight == <<2, 1, 1>>
=============================================================================
