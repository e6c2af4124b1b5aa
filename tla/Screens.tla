------------------------------ MODULE Screens -------------------------------
(***************************************************************************)
(* What people see of the system: the accounts they sign in with and the   *)
(* notice board (Board), and the news of a job (Streams, where the screens *)
(* are signed in). The two share no data, so that no order of their steps  *)
(* can matter: each is explored while nothing has happened in the other.   *)
(***************************************************************************)
EXTENDS Board, Streams

ScreensInit == BoardInit /\ StreamsInit
screensVars == << boardVars, streamVars >>

NothingPosted == asks = 0 /\ outages = 0 /\ account[2].role = CHOOSE role \in GivenRoles : TRUE
NothingTold   == /\ row = "PENDING" /\ rounds = 1 /\ messages = 1 /\ task = NoTask
                 /\ stream = [v \in Viewers |-> NoStream] /\ ticket = "inbound"

ScreensNext ==
  \/ NothingTold /\ BoardNext /\ UNCHANGED streamVars
  \/ NothingPosted /\ StreamsNext /\ UNCHANGED boardVars

OnTheBoard(step)   == NothingTold /\ step /\ UNCHANGED streamVars
OnTheStreams(step) == NothingPosted /\ step /\ UNCHANGED boardVars

(* The fairness of BoardSpec and of StreamsSpec.                            *)
ScreensSpec ==
  /\ ScreensInit /\ [][ScreensNext]_screensVars
  /\ WF_screensVars(OnTheBoard((\E n \in Numbers : Expire(n)) /\ Cascade /\ UNCHANGED moved))
  /\ WF_screensVars(OnTheStreams(Receive)) /\ WF_screensVars(OnTheStreams(Work))
  /\ WF_screensVars(OnTheStreams(LeaseExpires)) /\ WF_screensVars(OnTheStreams(Requeue))
=============================================================================
