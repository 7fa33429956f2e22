--------------------------- MODULE MCBodyChannel ---------------------------
(***************************************************************************)
(* BodyChannel with a user who calls the Sender's operations in any order. *)
(***************************************************************************)
EXTENDS BodyChannel

CONSTANT MaxSent (* bound: no call is made once as much was accepted       *)

Next ==
  \/ Len(accepted) < MaxSent /\ SenderCalls
  \/ CancelSend
  \/ DropData
  \/ SenderProceeds
  \/ ReceiverProceeds
  \/ CloseWant

\* Both ends are gone.
Finished == pc = "dropped" /\ rpc = "dropped" /\ UNCHANGED channelVars

Spec == InitChannel /\ [][Next \/ Finished]_channelVars /\ ChannelFairness

=============================================================================
