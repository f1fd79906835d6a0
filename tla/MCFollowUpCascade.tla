-------------------------- MODULE MCFollowUpCascade --------------------------
(* A batch of two items under one worker. *)
EXTENDS FollowUpCascade

MCTwo == <<"i1", "i2">>
==============================================================================
