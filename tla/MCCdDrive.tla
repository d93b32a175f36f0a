------------------------------ MODULE MCCdDrive ------------------------------
(***************************************************************************)
(* Values for the constants of CdDrive.                                    *)
(***************************************************************************)
EXTENDS CdDrive

(* Nothing, the answer to a Getstat, or both answers to a Pause.           *)
MCLeftovers == {<<>>, <<Reply(3, <<Stat(FALSE, FALSE)>>)>>,
                <<Reply(3, <<Stat(FALSE, FALSE)>>), Reply(2, <<Stat(FALSE, FALSE)>>)>>}
=============================================================================
